-------------------------- MODULE LeaseBrokerProofs --------------------------
(* The display handoffs' theorems, for any planes, any number of launches, *)
(* failures and signals, and any length of the waits.                      *)
EXTENDS LeaseBroker, TLAPS

Flags == {"keep", "display_id", "create", "hold", "exec", "preflight", "allow_active", "several",
          "explicit"}
Processes == {"launcher", "child", "orphan"}

Waiting == {"activate", "ready", "fork", "listen", "accept", "exec", "hold_handlers",
            "hold", "pausing", "paused", "close"}
Using == {"handlers", "wait", "disconnect", "revoke"}
Leaving == {"restore", "settle", "enable", "done"}

(* The stages, and those each program goes through.                        *)
AllStages ==
    {"start", "observe", "edid", "disable", "quiesce", "select", "validate", "create", "sink",
     "force_off", "wait_off", "teardown", "dead"} \cup Waiting \cup Using \cup Leaving

ProgramStages ==
    /\ run.program = "active" =>
          run.pc \in {"start", "observe", "edid", "disable", "quiesce", "select", "validate",
                     "create", "fork", "handlers", "wait", "teardown", "disconnect", "revoke",
                     "restore", "settle", "enable", "done", "dead"}
    /\ run.program = "guarded" =>
          run.pc \in {"start", "force_off", "wait_off", "create", "activate", "ready", "fork",
                     "handlers", "wait", "teardown", "disconnect", "revoke", "restore", "done",
                     "dead"}
    /\ run.program = "manual" =>
          run.pc \in {"start", "create", "exec", "hold_handlers", "hold", "pausing", "paused",
                     "close", "done", "dead"}
    /\ run.program = "broker" =>
          run.pc \in {"start", "sink", "select", "validate", "create", "listen", "accept",
                     "teardown", "done", "dead"}

Kernels == [plugged : BOOLEAN, force : {"detect", "off"}, scanout : SUBSET Planes,
            timing : BOOLEAN]
Leases == [live : BOOLEAN, planes : SUBSET Planes, holders : SUBSET Processes]
Runs == [program : {"active", "guarded", "manual", "broker"}, options : SUBSET Flags,
         pc : AllStages, polls : Nat, good : Nat, connected : BOOLEAN, occupied : BOOLEAN,
         disabled : BOOLEAN, forced : BOOLEAN, unplugged : BOOLEAN, handlers : BOOLEAN,
         stop : BOOLEAN, objects : SUBSET Planes, owner : BOOLEAN,
         found : {"detect", "off"}]
Children == [state : {"none", "running", "asked", "killed", "gone"}, opened : BOOLEAN,
             sealed : BOOLEAN, early : BOOLEAN, table : SUBSET Slots,
             objects : SUBSET Planes]
Histories == [failed : SUBSET Remembered, events : Nat, runs : Nat]

Types ==
    /\ kms \in Kernels
    /\ android \in {"unmanaged", "absent", "on", "off"}
    /\ lease \in Leases
    /\ run \in Runs
    /\ ProgramStages
    /\ child \in Children
    /\ history \in Histories

ChildUp == child.state \in {"running", "asked", "killed"}

(* The kernel keeps a lease while somebody holds it; the child holds it    *)
(* while it is up; the shim opens only what it has sealed.                 *)
LeaseShape ==
    /\ lease.live <=> lease.holders # {}
    /\ ChildUp <=> "child" \in lease.holders
    /\ child.opened => child.sealed

(* Who holds the lease at which stage of the launcher that created it.     *)
OwnerShape ==
    /\ run.owner => run.pc \in Waiting \cup Using \cup Leaving \cup {"teardown"}
    /\ run.pc \in Waiting => run.owner /\ lease.holders = {"launcher"}
    /\ run.pc \in Using => run.owner
    /\ run.owner /\ run.pc \in Using \cup {"teardown"} => "launcher" \in lease.holders
    /\ "launcher" \in lease.holders =>
          run.owner /\ run.pc \in Waiting \cup Using \cup {"teardown"}

(* What a handoff's child leaves: it is started before the wait and gone   *)
(* before the teardown, and a descendant with the lease was started early. *)
ChildShape ==
    run.owner /\ run.program \in {"active", "guarded"} =>
        /\ run.pc \in Leaving \cup {"teardown", "disconnect", "revoke"} => ~ChildUp
        /\ run.pc \in {"handlers", "wait"} => child.state # "none"
        /\ "orphan" \in lease.holders => child.early

(* A display that the active handoff disabled stays off until it enables   *)
(* it, and from the quiescence on nothing is shown.                        *)
DisabledShape ==
    run.disabled =>
        /\ run.program = "active" /\ run.occupied
        /\ run.pc \in {"quiesce", "select", "validate", "create", "fork", "teardown"}
                        \cup Using \cup Leaving
        /\ run.pc # "done" => android = "off"
        /\ run.pc \in {"select", "validate", "create", "fork", "handlers", "wait"} =>
              kms.scanout = {}
        /\ run.owner /\ run.pc \in {"teardown", "disconnect", "revoke"} => kms.scanout = {}
        /\ run.pc = "settle" => RestoreAndroid
        /\ run.pc = "done" => \/ android # "off" \/ "keep" \in run.options \/ run.unplugged
                              \/ Failed("clear") \/ Failed("display")

(* Where a connector that was not found forced off can be off.             *)
ForceShape ==
    /\ run.program = "active" =>
          /\ run.pc \in {"edid", "disable", "quiesce", "select", "validate", "create", "fork",
                         "teardown"} \cup Using => run.occupied \/ run.connected
          /\ run.pc = "disable" => run.occupied
          /\ run.found = "detect" /\ kms.force # "detect" =>
                /\ run.pc \in {"disconnect", "revoke"} \cup Leaving
                /\ run.occupied \/ run.connected
                /\ run.pc \in {"settle", "enable", "done"} =>
                      Failed("clear") \/ ("keep" \in run.options /\ ~run.disabled)
    /\ run.program = "guarded" =>
          /\ run.pc \in {"wait_off", "create", "activate", "ready", "fork", "teardown"}
                          \cup Using => run.forced
          /\ run.found = "detect" /\ kms.force # "detect" =>
                /\ run.forced
                /\ run.pc \notin {"start", "force_off", "dead"}
                /\ run.pc = "done" => Failed("clear")

(* The active handoff's revocation ends the lease; the guarded one's ends  *)
(* with its holders.                                                       *)
EndShape ==
    run.owner /\ run.program = "active" /\ run.pc \in Leaving =>
        ~lease.live \/ Failed("revoke")

Inv == Types /\ LeaseShape /\ OwnerShape /\ ChildShape /\ DisabledShape /\ ForceShape
       /\ EndShape
-----------------------------------------------------------------------------
(* What a step leaves of the launcher: its identity, and what it found and *)
(* did.  Grows: a failure that was noted stays noted.                      *)
SameLaunch(r, s) ==
    /\ s \in Runs
    /\ s.program = r.program
    /\ "keep" \in s.options <=> "keep" \in r.options
    /\ s.found = r.found
    /\ s.unplugged = r.unplugged

SameRun(r, s) ==
    /\ SameLaunch(r, s)
    /\ s.owner = r.owner /\ s.disabled = r.disabled
    /\ s.occupied = r.occupied /\ s.connected = r.connected
    /\ s.forced = r.forced

Grows == history' \in Histories /\ history.failed \subseteq history'.failed

World == <<kms, android, lease, child>>

Shapes ==
    LeaseShape /\ OwnerShape /\ ChildShape /\ DisabledShape /\ ForceShape /\ EndShape

(* Goto sets the stage and the wait's counters.                            *)
LEMMA GotoIs ==
    ASSUME Inv, NEW p \in AllStages
    PROVE  SameRun(run, Goto(p)) /\ Goto(p).pc = p
BY Zenon DEF Goto, Inv, Types, Runs, SameRun, SameLaunch

(* A poll that goes on sets the counters only.                             *)
LEMMA PollIs ==
    ASSUME Inv, NEW n \in Nat, NEW g \in Nat, NEW s, s = [run EXCEPT !.polls = n, !.good = g]
    PROVE  SameRun(run, s) /\ s.pc = run.pc
BY Zenon DEF Inv, Types, Runs, SameRun, SameLaunch

(* The other updates of the launcher's state, each of one field.           *)
LEMMA SetConnected ==
    ASSUME NEW r \in Runs, NEW c \in BOOLEAN, NEW s, s = [r EXCEPT !.connected = c]
    PROVE  /\ SameLaunch(r, s) /\ s.pc = r.pc /\ s.connected = c
           /\ s.owner = r.owner /\ s.disabled = r.disabled
           /\ s.occupied = r.occupied /\ s.forced = r.forced
BY Zenon DEF Runs, SameLaunch

LEMMA SetOccupied ==
    ASSUME NEW r \in Runs, NEW c \in BOOLEAN, NEW s, s = [r EXCEPT !.occupied = c]
    PROVE  /\ SameLaunch(r, s) /\ s.pc = r.pc /\ s.occupied = c
           /\ s.owner = r.owner /\ s.disabled = r.disabled
           /\ s.connected = r.connected /\ s.forced = r.forced
BY Zenon DEF Runs, SameLaunch

LEMMA SetDisabled ==
    ASSUME NEW r \in Runs, NEW c \in BOOLEAN, NEW s, s = [r EXCEPT !.disabled = c]
    PROVE  /\ SameLaunch(r, s) /\ s.pc = r.pc /\ s.disabled = c
           /\ s.owner = r.owner /\ s.occupied = r.occupied
           /\ s.connected = r.connected /\ s.forced = r.forced
BY Zenon DEF Runs, SameLaunch

LEMMA SetForced ==
    ASSUME NEW r \in Runs, NEW c \in BOOLEAN, NEW s, s = [r EXCEPT !.forced = c]
    PROVE  /\ SameLaunch(r, s) /\ s.pc = r.pc /\ s.forced = c
           /\ s.owner = r.owner /\ s.disabled = r.disabled
           /\ s.occupied = r.occupied /\ s.connected = r.connected
BY Zenon DEF Runs, SameLaunch

LEMMA SetOwner ==
    ASSUME NEW r \in Runs, NEW c \in BOOLEAN, NEW s, s = [r EXCEPT !.owner = c]
    PROVE  /\ SameLaunch(r, s) /\ s.pc = r.pc /\ s.owner = c
           /\ s.disabled = r.disabled /\ s.occupied = r.occupied
           /\ s.connected = r.connected /\ s.forced = r.forced
BY Zenon DEF Runs, SameLaunch

LEMMA SetHandlers ==
    ASSUME NEW r \in Runs, NEW c \in BOOLEAN, NEW s, s = [r EXCEPT !.handlers = c]
    PROVE  SameRun(r, s) /\ s.pc = r.pc
BY Zenon DEF Runs, SameRun, SameLaunch

LEMMA SetObjects ==
    ASSUME NEW r \in Runs, NEW c \in SUBSET Planes, NEW s, s = [r EXCEPT !.objects = c]
    PROVE  SameRun(r, s) /\ s.pc = r.pc
BY Zenon DEF Runs, SameRun, SameLaunch

LEMMA DropOption ==
    ASSUME NEW r \in Runs, NEW option, option # "keep", NEW s, s = Without(r, option)
    PROVE  SameRun(r, s) /\ s.pc = r.pc
BY Zenon DEF Runs, SameRun, SameLaunch, Without

(* Goto with a flag raised, or with another field set.                     *)
LEMMA GotoDisabled ==
    ASSUME Inv, NEW p \in AllStages, run' = [Goto(p) EXCEPT !.disabled = TRUE]
    PROVE  /\ SameLaunch(run, run') /\ run'.pc = p /\ run'.disabled = TRUE
           /\ run'.owner = run.owner /\ run'.occupied = run.occupied
           /\ run'.connected = run.connected /\ run'.forced = run.forced
<1>1. SameRun(run, Goto(p)) /\ Goto(p).pc = p /\ TRUE \in BOOLEAN
  BY GotoIs, Zenon
<1>2. Goto(p) \in Runs
  BY <1>1, Zenon DEF SameRun, SameLaunch
<1>3. /\ SameLaunch(Goto(p), run') /\ run'.pc = Goto(p).pc /\ run'.disabled = TRUE
      /\ run'.owner = Goto(p).owner /\ run'.occupied = Goto(p).occupied /\ run'.connected = Goto(p).connected /\ run'.forced = Goto(p).forced
  BY <1>1, <1>2, SetDisabled, ZenonT(40)
<1> QED
  BY <1>1, <1>3, Zenon DEF SameRun, SameLaunch

LEMMA GotoForced ==
    ASSUME Inv, NEW p \in AllStages, run' = [Goto(p) EXCEPT !.forced = TRUE]
    PROVE  /\ SameLaunch(run, run') /\ run'.pc = p /\ run'.forced = TRUE
           /\ run'.owner = run.owner /\ run'.disabled = run.disabled
           /\ run'.occupied = run.occupied /\ run'.connected = run.connected
<1>1. SameRun(run, Goto(p)) /\ Goto(p).pc = p /\ TRUE \in BOOLEAN
  BY GotoIs, Zenon
<1>2. Goto(p) \in Runs
  BY <1>1, Zenon DEF SameRun, SameLaunch
<1>3. /\ SameLaunch(Goto(p), run') /\ run'.pc = Goto(p).pc /\ run'.forced = TRUE
      /\ run'.owner = Goto(p).owner /\ run'.disabled = Goto(p).disabled /\ run'.occupied = Goto(p).occupied /\ run'.connected = Goto(p).connected
  BY <1>1, <1>2, SetForced, ZenonT(40)
<1> QED
  BY <1>1, <1>3, Zenon DEF SameRun, SameLaunch

LEMMA GotoOwner ==
    ASSUME Inv, NEW p \in AllStages, run' = [Goto(p) EXCEPT !.owner = TRUE]
    PROVE  /\ SameLaunch(run, run') /\ run'.pc = p /\ run'.owner = TRUE
           /\ run'.disabled = run.disabled /\ run'.occupied = run.occupied
           /\ run'.connected = run.connected /\ run'.forced = run.forced
<1>1. SameRun(run, Goto(p)) /\ Goto(p).pc = p /\ TRUE \in BOOLEAN
  BY GotoIs, Zenon
<1>2. Goto(p) \in Runs
  BY <1>1, Zenon DEF SameRun, SameLaunch
<1>3. /\ SameLaunch(Goto(p), run') /\ run'.pc = Goto(p).pc /\ run'.owner = TRUE
      /\ run'.disabled = Goto(p).disabled /\ run'.occupied = Goto(p).occupied /\ run'.connected = Goto(p).connected /\ run'.forced = Goto(p).forced
  BY <1>1, <1>2, SetOwner, ZenonT(40)
<1> QED
  BY <1>1, <1>3, Zenon DEF SameRun, SameLaunch

LEMMA GotoHandlers ==
    ASSUME Inv, NEW p \in AllStages, run' = [Goto(p) EXCEPT !.handlers = TRUE]
    PROVE  SameRun(run, run') /\ run'.pc = p
<1>1. SameRun(run, Goto(p)) /\ Goto(p).pc = p /\ TRUE \in BOOLEAN
  BY GotoIs, Zenon
<1>2. Goto(p) \in Runs
  BY <1>1, Zenon DEF SameRun, SameLaunch
<1>3. SameRun(Goto(p), run') /\ run'.pc = Goto(p).pc
  BY <1>1, <1>2, SetHandlers, Zenon
<1> QED
  BY <1>1, <1>3, Zenon DEF SameRun, SameLaunch

LEMMA GotoObjects ==
    ASSUME Inv, NEW p \in AllStages, NEW planes \in SUBSET Planes,
           run' = [Goto(p) EXCEPT !.objects = planes]
    PROVE  SameRun(run, run') /\ run'.pc = p
BY GotoIs, SetObjects DEF SameRun, SameLaunch

LEMMA GotoWithout ==
    ASSUME Inv, NEW p \in AllStages, NEW option, option # "keep",
           run' = Without(Goto(p), option)
    PROVE  SameRun(run, run') /\ run'.pc = p
BY GotoIs, DropOption DEF SameRun, SameLaunch

(* A failure is added to those remembered.                                 *)
LEMMA NotedHistory ==
    ASSUME Inv, NEW fault, history' = Noted(fault)
    PROVE  Grows /\ (fault \in Remembered => fault \in history'.failed)
<1>0. history \in Histories
  BY Zenon DEF Inv, Types
<1>1. CASE fault = ""
  BY <1>0, <1>1, Zenon DEF Noted, Remembered, Grows
<1>2. CASE fault # ""
  <2>1. history' = [history EXCEPT !.failed = history.failed \cup ({fault} \cap Remembered),
                                  !.events = history.events + 1]
    BY <1>2, Zenon DEF Noted
  <2>2. history.failed \in SUBSET Remembered /\ history.events + 1 \in Nat
    BY <1>0 DEF Histories
  <2>3. history'.failed = history.failed \cup ({fault} \cap Remembered)
    BY <1>0, <2>1, Zenon DEF Histories
  <2>4. history' \in Histories
    BY <1>0, <2>1, <2>2, Zenon DEF Histories
  <2> QED
    BY <2>3, <2>4, Zenon DEF Grows
<1> QED
  BY <1>1, <1>2, Zenon

(* A step that may fail in one way.                                        *)
LEMMA FaultsOf ==
    ASSUME NEW stages, NEW fault \in MayFail(stages)
    PROVE  fault = "" \/ fault \in stages
BY Zenon DEF MayFail

(* A launcher that stays where it is, in a world that does, keeps all.     *)
LEMMA Stays ==
    ASSUME Inv, SameRun(run, run'), run'.pc = run.pc, UNCHANGED World, Grows
    PROVE  Inv'
<1>1. Types'
  BY Zenon DEF Inv, Types, ProgramStages, SameRun, SameLaunch, Grows, World
<1>2. Shapes'
  BY DEF Inv, Shapes, LeaseShape, OwnerShape, ChildShape, DisabledShape, ForceShape, EndShape,
         ChildUp, RestoreAndroid, SameRun, SameLaunch, Grows, World, Failed
<1> QED
  BY <1>1, <1>2, Zenon DEF Inv, Shapes

(* Closing a descriptor, inheriting one, and writing the force file.       *)
LEMMA DroppedIs ==
    ASSUME NEW l \in Leases, NEW p, NEW m, m = Dropped(l, p)
    PROVE  m \in Leases /\ m.holders = l.holders \ {p} /\ (m.live => l.live)
           /\ (m.holders = {} => ~m.live) /\ (m.holders # {} => m.live = l.live)
BY Zenon DEF Leases, Dropped, NoLease

LEMMA InheritedIs ==
    ASSUME NEW l \in Leases, l.live, NEW p \in Processes, NEW m, m = Inherited(l, p)
    PROVE  m \in Leases /\ m.live /\ m.holders = l.holders \cup {p}
BY Zenon DEF Leases, Inherited

LEMMA ForceWritten ==
    ASSUME Inv, NEW v \in {"detect", "off"}, NEW fault, kms' = write_connector_force(v, fault)
    PROVE  /\ kms' \in Kernels /\ kms'.scanout = kms.scanout
           /\ IF fault \in {"force", "clear"} THEN kms'.force = kms.force ELSE kms'.force = v
BY Zenon DEF Inv, Types, Kernels, write_connector_force

(* A launch, and the end of a launcher that keeps nothing.                 *)
Fresh ==
    /\ run' \in Runs /\ ~run'.owner /\ ~run'.disabled /\ run'.found = kms'.force
    /\ run'.pc \in {"start", "done", "dead"}

LEMMA EndedIs ==
    ASSUME Inv, NEW q \in {"done", "dead"}, run' = Ended(q), UNCHANGED kms
    PROVE  Fresh
<1>1. Launch(run.program, {}) \in Runs /\ Launch(run.program, {}).found = kms.force
      /\ ~Launch(run.program, {}).owner /\ ~Launch(run.program, {}).disabled
  BY Zenon DEF Inv, Types, Kernels, Runs, Launch, AllStages
<1>2. run' \in Runs /\ run'.pc = q
  BY <1>1, Zenon DEF Ended, Runs, AllStages, Leaving
<1>3. run'.found = kms.force /\ ~run'.owner /\ ~run'.disabled
  BY <1>1, Zenon DEF Ended, Runs
<1> QED
  BY <1>2, <1>3, Zenon DEF Fresh

LEMMA FreshStep ==
    ASSUME Inv, Fresh, UNCHANGED <<kms, android>>, lease' \in Leases, child' \in Children,
           history' \in Histories, LeaseShape', "launcher" \notin lease'.holders
    PROVE  Inv'
<1>1. Types'
  BY Zenon DEF Inv, Types, Runs, ProgramStages, Fresh
<1>2. Shapes'
  BY Zenon DEF Inv, Types, Shapes, OwnerShape, ChildShape, DisabledShape, ForceShape, EndShape, Fresh,
         Waiting, Using, Leaving
<1> QED
  BY <1>1, <1>2, Zenon DEF Inv, Shapes

(* The moves that ask for nothing but what holds at the stage they leave.  *)
Free(q) ==
    \/ run.pc \in {"quiesce", "select", "validate", "ready", "fork", "sink", "listen", "disable"}
       /\ q = "teardown"
    \/ run.pc = "create" /\ run.program # "manual" /\ q = "teardown"
    \/ run.pc = "wait" /\ ~ChildUp /\ q = "teardown"
    \/ run.pc = "start" /\ run.program = "manual" /\ q = "create"
    \/ <<run.pc, q>> \in
          {<<"start", "done">>, <<"observe", "done">>, <<"edid", "select">>,
           <<"select", "validate">>, <<"validate", "create">>, <<"wait_off", "restore">>,
           <<"wait_off", "create">>, <<"ready", "fork">>, <<"handlers", "wait">>,
           <<"disconnect", "revoke">>, <<"sink", "select">>, <<"hold_handlers", "hold">>,
           <<"hold", "close">>, <<"hold", "pausing">>, <<"pausing", "paused">>,
           <<"paused", "hold">>, <<"listen", "accept">>}

LEMMA Moves ==
    ASSUME Inv, SameRun(run, run'), Free(run'.pc), UNCHANGED World, Grows
    PROVE  Inv'
<1>1. Types'
  BY DEF Inv, Types, Runs, ProgramStages, SameRun, SameLaunch, Grows, World, Free
<1>2. (LeaseShape /\ OwnerShape /\ ChildShape)'
  BY DEF Inv, LeaseShape, OwnerShape, ChildShape, ChildUp, SameRun, SameLaunch, World, Waiting,
         Using, Leaving, Free
<1>3. (DisabledShape /\ EndShape)'
  BY Zenon DEF Inv, OwnerShape, DisabledShape, EndShape, SameRun, SameLaunch, World, Waiting, Using,
         Leaving, Free
<1>4. ForceShape'
  BY DEF Inv, Types, ProgramStages, ForceShape, SameRun, SameLaunch, World, Waiting, Using,
         Leaving, Free
<1> QED
  BY <1>1, <1>2, <1>3, <1>4, Zenon DEF Inv

-----------------------------------------------------------------------------
(* Before the lease.                                                       *)
LEMMA PrepareStep ==
    ASSUME Inv, NEW fault, NEW k, Prepare(fault, k)
    PROVE  Inv'
<1>1. Grows /\ UNCHANGED World /\ run.pc = "start" /\ run.program \in {"active", "guarded"}
  BY NotedHistory, Zenon DEF Prepare, World
<1>2. /\ SameLaunch(run, run')
      /\ run'.owner = run.owner /\ run'.disabled = run.disabled
      /\ run'.occupied = run.occupied /\ run'.forced = run.forced
      /\ \/ run'.pc = "done"
         \/ run'.pc = "observe" /\ run.program = "active"
         \/ run'.pc = "force_off" /\ run.program = "guarded"
  <2>1. {"done", "observe", "force_off"} \subseteq AllStages
    BY Zenon DEF AllStages, Leaving
  <2>2. Connected \in BOOLEAN /\ (Connected \/ PathActive) \in BOOLEAN
    BY Zenon DEF Connected, PathActive
  <2>3. CASE run' = Goto("done")
    BY <2>1, <2>3, GotoIs, Zenon DEF SameRun
  <2>4. CASE \E c \in BOOLEAN : /\ run.program = "active"
                                /\ run' = [Goto("observe") EXCEPT !.connected = c]
    BY <2>1, <2>4, GotoIs, SetConnected DEF SameRun, SameLaunch
  <2>5. CASE \E c \in BOOLEAN : /\ run.program = "guarded"
                                /\ run' = [Goto("force_off") EXCEPT !.connected = c]
    BY <2>1, <2>5, GotoIs, SetConnected DEF SameRun, SameLaunch
  <2> QED
    BY <1>1, <2>2, <2>3, <2>4, <2>5, Zenon DEF Prepare
<1>3. Types'
  BY <1>1, <1>2, Zenon DEF Inv, Types, ProgramStages, SameLaunch, Grows, World
<1>4. Shapes'
  BY <1>1, <1>2 DEF Inv, Types, Runs, Shapes, LeaseShape, OwnerShape, ChildShape, DisabledShape,
         ForceShape, EndShape, ChildUp, SameLaunch, World, Waiting, Using, Leaving
<1> QED
  BY <1>3, <1>4, Zenon DEF Inv, Shapes

LEMMA ObserveStep ==
    ASSUME Inv, NEW fault, observe_android_dp_ownership(fault)
    PROVE  Inv'
<1>1. Grows /\ UNCHANGED World /\ run.pc = "observe"
  BY NotedHistory, Zenon DEF observe_android_dp_ownership, World
<1>2. CASE run' = Goto("done")
  <2>1. "done" \in AllStages
    BY Zenon DEF AllStages, Leaving
  <2>2. SameRun(run, run') /\ run'.pc = "done"
    BY <1>2, <2>1, GotoIs, Zenon
  <2> QED
    BY <1>1, <2>2, Moves, Zenon DEF Free
<1>3. CASE \E n, g \in Nat : run' = [run EXCEPT !.polls = n, !.good = g]
  BY <1>1, <1>3, PollIs, Stays, Zenon
<1>4. CASE \E occupied \in BOOLEAN : run' = Observed(occupied)
  <2>1. PICK occupied \in BOOLEAN : run' = Observed(occupied)
    BY <1>4, Zenon
  <2> DEFINE p == IF occupied \/ run.connected THEN "edid" ELSE "restore"
             r == [Goto(p) EXCEPT !.occupied = occupied]
  <2>2. p \in AllStages
    BY Zenon DEF AllStages, Leaving
  <2>3. run' = Without(r, "display_id")
    BY <2>1, Zenon DEF Observed
  <2>4. SameRun(run, Goto(p)) /\ Goto(p).pc = p
    BY <2>2, GotoIs, Zenon
  <2>5. /\ SameLaunch(run, r) /\ r.pc = p /\ r.occupied = occupied
        /\ r.owner = run.owner /\ r.disabled = run.disabled
        /\ r.connected = run.connected /\ r.forced = run.forced
    <3> HIDE DEF p
    <3> QED
      BY <2>4, SetOccupied DEF SameRun, SameLaunch
  <2>6. /\ SameLaunch(run, run') /\ run'.pc = p /\ run'.occupied = occupied
        /\ run'.owner = run.owner /\ run'.disabled = run.disabled
        /\ run'.connected = run.connected /\ run'.forced = run.forced
    <3> HIDE DEF p, r
    <3> QED
      BY <2>3, <2>5, DropOption DEF SameRun, SameLaunch
  <2>7. Types'
    BY <1>1, <2>6, Zenon DEF Inv, Types, ProgramStages, SameLaunch, Grows, World
  <2>8. Shapes'
    BY <1>1, <2>6 DEF Inv, Types, Runs, ProgramStages, Shapes, LeaseShape, OwnerShape,
           ChildShape, DisabledShape, ForceShape, EndShape, ChildUp, SameLaunch,
           World, Waiting, Using, Leaving
  <2> QED
    BY <2>7, <2>8, Zenon DEF Inv, Shapes
<1>5. run.polls + 1 \in Nat /\ (IF kms.scanout # {} THEN 1 ELSE run.good) \in Nat
  BY DEF Inv, Types, Runs
<1>6. capture_external_display_ids(fault) \in {"failed", "many", "one", "none"}
  BY Zenon DEF capture_external_display_ids
<1> QED
  BY <1>2, <1>3, <1>4, <1>5, <1>6, Zenon DEF observe_android_dp_ownership

LEMMA EdidStep ==
    ASSUME Inv, NEW fault, wait_for_physical_edid(fault)
    PROVE  Inv'
<1>1. UNCHANGED <<android, lease, child>> /\ run.pc = "edid"
  BY Zenon DEF wait_for_physical_edid
<1>2. {"disable", "select", "restore"} \subseteq AllStages
  BY Zenon DEF AllStages, Leaving
<1>3. Grows
  BY NotedHistory, Zenon DEF wait_for_physical_edid, Grows, Inv, Types
<1>4. kms' \in Kernels /\ kms'.scanout = kms.scanout
      /\ (kms.force = "detect" => kms'.force = "detect")
  BY ForceWritten, Zenon DEF wait_for_physical_edid, Inv, Types
<1>5. /\ SameRun(run, run')
      /\ run'.pc \in {"edid", "select", "disable", "restore"}
      /\ run'.pc = "disable" => run.occupied
  <2>1. CASE run.occupied /\ run' = Goto("disable")
    BY <1>2, <2>1, GotoIs, Zenon
  <2>2. CASE run' = Goto("select")
    BY <1>2, <2>2, GotoIs, Zenon
  <2>3. CASE run' = Goto("restore")
    BY <1>2, <2>3, GotoIs, Zenon
  <2>4. CASE run' = [run EXCEPT !.polls = run.polls + 1]
    BY <1>1, <2>4 DEF Inv, Types, Runs, SameRun, SameLaunch
  <2> QED
    BY <2>1, <2>2, <2>3, <2>4, Zenon DEF wait_for_physical_edid
<1>6. Types'
  BY <1>1, <1>3, <1>4, <1>5, Zenon DEF Inv, Types, ProgramStages, SameRun, SameLaunch, Grows
<1>7. Shapes'
  BY <1>1, <1>4, <1>5 DEF Inv, Types, Runs, Kernels, ProgramStages, Shapes, LeaseShape,
         OwnerShape, ChildShape, DisabledShape, ForceShape, EndShape, ChildUp, SameRun,
         SameLaunch, Waiting, Using, Leaving
<1> QED
  BY <1>6, <1>7, Zenon DEF Inv, Shapes

LEMMA DisableStep ==
    ASSUME Inv, NEW fault, DisableDisplay(fault)
    PROVE  Inv'
<1>1. Grows /\ UNCHANGED <<kms, lease, child>> /\ run.pc = "disable"
  BY NotedHistory, Zenon DEF DisableDisplay
<1>2. {"quiesce", "teardown"} \subseteq AllStages
  BY Zenon DEF AllStages
<1>3. CASE run' = Goto("teardown") /\ UNCHANGED android
  BY <1>1, <1>2, <1>3, GotoIs, Moves, Zenon DEF Free, World
<1>4. CASE android' = "off" /\ run' = [Goto("quiesce") EXCEPT !.disabled = TRUE]
  <2>1. /\ SameLaunch(run, run') /\ run'.pc = "quiesce" /\ run'.disabled = TRUE
        /\ run'.owner = run.owner /\ run'.occupied = run.occupied
        /\ run'.connected = run.connected /\ run'.forced = run.forced
    BY <1>2, <1>4, GotoDisabled, Zenon
  <2>2. Types'
    BY <1>1, <1>4, <2>1, Zenon DEF Inv, Types, ProgramStages, SameLaunch, Grows
  <2>3. Shapes'
    BY <1>1, <1>4, <2>1, Zenon DEF Inv, Types, Runs, ProgramStages, Shapes, LeaseShape, OwnerShape,
           ChildShape, DisabledShape, ForceShape, EndShape, ChildUp, SameLaunch, Waiting, Using,
           Leaving
  <2> QED
    BY <2>2, <2>3, Zenon DEF Inv, Shapes
<1> QED
  BY <1>3, <1>4, Zenon DEF DisableDisplay

LEMMA QuiesceStep ==
    ASSUME Inv, NEW fault, wait_for_active_quiescence(fault)
    PROVE  Inv'
<1>1. Grows /\ UNCHANGED World /\ run.pc = "quiesce"
  BY NotedHistory, Zenon DEF wait_for_active_quiescence, World
<1>2. {"teardown", "select"} \subseteq AllStages
  BY Zenon DEF AllStages
<1>3. CASE run' = Goto("teardown")
  BY <1>1, <1>2, <1>3, GotoIs, Moves, Zenon DEF Free
<1>4. CASE \E n, g \in Nat : run' = [run EXCEPT !.polls = n, !.good = g]
  BY <1>1, <1>4, PollIs, Stays, Zenon
<1>5. CASE run' = Goto("select") /\ kms.scanout = {}
  <2>1. SameRun(run, run') /\ run'.pc = "select"
    BY <1>2, <1>5, GotoIs, Zenon
  <2>2. Types'
    BY <1>1, <2>1, Zenon DEF Inv, Types, Runs, ProgramStages, SameRun, SameLaunch, Grows, World
  <2>3. Shapes'
    BY <1>1, <1>5, <2>1 DEF Inv, Types, Runs, ProgramStages, Shapes, LeaseShape, OwnerShape,
           ChildShape, DisabledShape, ForceShape, EndShape, ChildUp, SameRun, SameLaunch, World,
           Waiting, Using, Leaving
  <2> QED
    BY <2>2, <2>3, Zenon DEF Inv, Shapes
<1> DEFINE quiet == IF run.polls < Settle \/ ~Quiescent THEN 0 ELSE run.good + 1
<1>6. quiet \in Nat /\ run.polls + 1 \in Nat
  BY DEF Inv, Types, Runs
<1>7. quiet >= Steady => kms.scanout = {}
  BY PollAssumption DEF Quiescent
<1> QED
  <2> HIDE DEF quiet
  <2>1. run' = IF fault = "state" THEN Goto("teardown")
               ELSE IF quiet >= Steady THEN Goto("select")
               ELSE IF run.polls + 1 < Polls
                    THEN [run EXCEPT !.polls = run.polls + 1, !.good = quiet]
                    ELSE Goto("teardown")
    BY Zenon DEF wait_for_active_quiescence, quiet
  <2> QED
    BY <1>3, <1>4, <1>5, <1>6, <1>7, <2>1, Zenon

LEMMA SelectStep ==
    ASSUME Inv, NEW fault, SelectPlanes(fault)
    PROVE  Inv'
<1>1. Grows /\ UNCHANGED World /\ run.pc = "select"
  BY NotedHistory, Zenon DEF SelectPlanes, World
<1>2. {"teardown", "validate"} \subseteq AllStages
  BY Zenon DEF AllStages
<1>3. CASE run' = Goto("teardown")
  BY <1>1, <1>2, <1>3, GotoIs, Moves, Zenon DEF Free
<1>4. CASE \E planes \in auto_select_atomic_plane(fault) :
             run' = [Goto("validate") EXCEPT !.objects = planes]
  <2>1. PICK planes \in auto_select_atomic_plane(fault) :
               run' = [Goto("validate") EXCEPT !.objects = planes]
    BY <1>4, Zenon
  <2>2. planes \in SUBSET Planes
    BY <2>1, PlaneAssumption, Zenon DEF auto_select_atomic_plane, Named, Tested, Candidates,
          ExtraPlanes
  <2>3. SameRun(run, run') /\ run'.pc = "validate"
    BY <1>2, <2>1, <2>2, GotoObjects, Zenon
  <2> QED
    BY <1>1, <2>3, Moves, Zenon DEF Free
<1> QED
  BY <1>3, <1>4, Zenon DEF SelectPlanes

LEMMA ValidateStep ==
    ASSUME Inv, ValidatePlanes
    PROVE  Inv'
<1>1. Grows /\ UNCHANGED World /\ run.pc = "validate"
  BY Zenon DEF ValidatePlanes, World, Grows, Inv, Types
<1>2. {"teardown", "create"} \subseteq AllStages
  BY Zenon DEF AllStages
<1>3. CASE run' = Goto("create")
  BY <1>1, <1>2, <1>3, GotoIs, Moves, Zenon DEF Free
<1>4. CASE run' = Without(Goto("teardown"), "preflight")
  BY <1>1, <1>2, <1>4, GotoWithout, Moves, Zenon DEF Free
<1> QED
  BY <1>3, <1>4, Zenon DEF ValidatePlanes

LEMMA ForceOffStep ==
    ASSUME Inv, NEW fault \in {"", "force"}, ForceOff(fault)
    PROVE  Inv'
<1>1. Grows /\ UNCHANGED <<android, lease, child>> /\ run.pc = "force_off"
  BY NotedHistory, Zenon DEF ForceOff
<1>2. {"wait_off", "restore"} \subseteq AllStages
  BY Zenon DEF AllStages, Leaving
<1>3. kms' \in Kernels /\ kms'.scanout = kms.scanout /\ (fault # "" => kms'.force = kms.force)
  BY ForceWritten, Zenon DEF ForceOff
<1>4. /\ SameLaunch(run, run') /\ run'.owner = run.owner /\ run'.disabled = run.disabled
      /\ \/ run'.pc = "wait_off" /\ run'.forced = TRUE
         \/ run'.pc = "restore" /\ run'.forced = run.forced /\ fault # ""
  <2>1. CASE fault # "" /\ run' = Goto("restore")
    BY <1>2, <2>1, GotoIs, Zenon DEF SameRun
  <2>2. CASE run' = [Goto("wait_off") EXCEPT !.forced = TRUE]
    BY <1>2, <2>2, GotoForced, Zenon
  <2> QED
    BY <2>1, <2>2, Zenon DEF ForceOff
<1>5. Types'
  BY <1>1, <1>3, <1>4, Zenon DEF Inv, Types, ProgramStages, SameLaunch, Grows
<1>6. Shapes'
  BY <1>1, <1>3, <1>4 DEF Inv, Types, Runs, ProgramStages, Shapes, LeaseShape, OwnerShape,
         ChildShape, DisabledShape, ForceShape, EndShape, ChildUp, SameLaunch, Waiting, Using,
         Leaving
<1> QED
  BY <1>5, <1>6, Zenon DEF Inv, Shapes

LEMMA ForcedOffStep ==
    ASSUME Inv, NEW fault, wait_for_forced_off(fault)
    PROVE  Inv'
<1>1. Grows /\ UNCHANGED World /\ run.pc = "wait_off"
  BY NotedHistory, Zenon DEF wait_for_forced_off, World
<1>2. {"restore", "create"} \subseteq AllStages /\ {Hint} \in SUBSET Planes
  BY PlaneAssumption, Zenon DEF AllStages, Leaving
<1>3. CASE run' = Goto("restore")
  BY <1>1, <1>2, <1>3, GotoIs, Moves, Zenon DEF Free
<1>4. CASE \E n, g \in Nat : run' = [run EXCEPT !.polls = n, !.good = g]
  BY <1>1, <1>4, PollIs, Stays, Zenon
<1>5. CASE run' = [Goto("create") EXCEPT !.objects = {Hint}]
  <2>1. SameRun(run, run') /\ run'.pc = "create"
    BY <1>2, <1>5, GotoObjects, Zenon
  <2> QED
    BY <1>1, <2>1, Moves, Zenon DEF Free
<1> DEFINE idle == IF Connected \/ PathActive THEN 0 ELSE run.good + 1
<1>6. idle \in Nat /\ run.polls + 1 \in Nat
  BY DEF Inv, Types, Runs
<1> QED
  BY <1>3, <1>4, <1>5, <1>6, Zenon DEF wait_for_forced_off

LEMMA ReadyStep ==
    ASSUME Inv, NEW fault, wait_for_lease_connector(fault)
    PROVE  Inv'
<1>1. Grows /\ UNCHANGED World /\ run.pc = "ready"
  BY NotedHistory, Zenon DEF wait_for_lease_connector, World
<1>2. {"teardown", "fork"} \subseteq AllStages
  BY Zenon DEF AllStages, Waiting
<1>3. CASE run' = Goto("teardown") \/ run' = Goto("fork")
  BY <1>1, <1>2, <1>3, GotoIs, Moves, Zenon DEF Free
<1>4. CASE \E n, g \in Nat : run' = [run EXCEPT !.polls = n, !.good = g]
  BY <1>1, <1>4, PollIs, Stays, Zenon
<1> DEFINE ready == IF Connected THEN run.good + 1 ELSE 0
<1>5. ready \in Nat /\ run.polls + 1 \in Nat
  BY DEF Inv, Types, Runs
<1> QED
  BY <1>3, <1>4, <1>5, Zenon DEF wait_for_lease_connector

LEMMA ActivateStep ==
    ASSUME Inv, NEW fault, Activate(fault)
    PROVE  Inv'
<1>1. Grows /\ UNCHANGED <<android, lease, child>> /\ run.pc = "activate"
  BY NotedHistory, Zenon DEF Activate
<1>2. {"ready", "teardown"} \subseteq AllStages
  BY Zenon DEF AllStages, Waiting
<1>3. kms' \in Kernels /\ kms'.scanout = kms.scanout
      /\ (kms.force = "detect" => kms'.force = "detect")
  BY ForceWritten, Zenon DEF Activate
<1>4. SameRun(run, run') /\ run'.pc \in {"ready", "teardown"}
  BY <1>2, GotoIs, Zenon DEF Activate
<1>5. Types'
  BY <1>1, <1>3, <1>4, Zenon DEF Inv, Types, ProgramStages, SameRun, SameLaunch, Grows
<1>6. Shapes'
  BY <1>1, <1>3, <1>4 DEF Inv, Types, Runs, ProgramStages, Shapes, LeaseShape, OwnerShape,
         ChildShape, DisabledShape, ForceShape, EndShape, ChildUp, SameRun, SameLaunch, Waiting,
         Using, Leaving
<1> QED
  BY <1>5, <1>6, Zenon DEF Inv, Shapes
-----------------------------------------------------------------------------
(* The lease and what is started with it.  CREATE_LEASE finds no lease, so *)
(* no child either, and leaves the launcher its only holder.               *)
LEMMA OwnedStep ==
    ASSUME Inv, run.pc = "create", ~lease.live, lease' \in Leases, lease'.live,
           lease'.holders = {"launcher"}, NEW p, run' = [Goto(p) EXCEPT !.owner = TRUE],
           \/ run.program = "active" /\ p = "fork"
           \/ run.program = "guarded" /\ p = "activate"
           \/ run.program = "broker" /\ p = "listen"
           \/ run.program = "manual" /\ p \in {"exec", "hold_handlers", "close"},
           Grows, UNCHANGED <<kms, android, child>>
    PROVE  Inv'
<1>1. p \in AllStages
  BY Zenon DEF AllStages, Waiting
<1>2. /\ SameLaunch(run, run') /\ run'.pc = p /\ run'.owner = TRUE
      /\ run'.disabled = run.disabled /\ run'.occupied = run.occupied
      /\ run'.connected = run.connected /\ run'.forced = run.forced
  BY <1>1, GotoOwner, Zenon
<1>3. Types'
  BY <1>2, Zenon DEF Inv, Types, ProgramStages, SameLaunch, Grows
<1>4. (LeaseShape /\ OwnerShape /\ ChildShape)'
  BY <1>2, Zenon DEF Inv, LeaseShape, OwnerShape, ChildShape, ChildUp, SameLaunch, Waiting, Using,
         Leaving
<1>5. (DisabledShape /\ ForceShape /\ EndShape)'
  BY <1>2 DEF Inv, Types, Runs, DisabledShape, ForceShape, EndShape, SameLaunch, Using, Leaving
<1> QED
  BY <1>3, <1>4, <1>5, Zenon DEF Inv

LEMMA CreatedIs ==
    ASSUME Inv, NEW fault, ~lease.live, fault # "create"
    PROVE  Created(fault) \in Leases /\ Created(fault).live
           /\ Created(fault).holders = {"launcher"}
BY Zenon DEF Inv, Types, Runs, Leases, Processes, Created

LEMMA CreateFdStep ==
    ASSUME Inv, NEW fault, create_lease_fd(fault)
    PROVE  Inv'
<1>1. Grows /\ UNCHANGED <<kms, android, child>> /\ run.pc = "create"
      /\ run.program \in {"active", "guarded", "broker"}
  BY NotedHistory, Zenon DEF create_lease_fd
<1>2. CASE ~Owned(fault)
  <2>1. run' = Goto("teardown") /\ UNCHANGED lease
    BY <1>2, Zenon DEF create_lease_fd
  <2>2. "teardown" \in AllStages
    BY Zenon DEF AllStages
  <2>3. SameRun(run, run') /\ run'.pc = "teardown"
    BY <2>1, <2>2, GotoIs, Zenon
  <2> QED
    BY <1>1, <2>1, <2>3, Moves, Zenon DEF Free, World
<1>3. CASE Owned(fault)
  <2>1. ~lease.live /\ fault # "create" /\ lease' = Created(fault)
    BY <1>3, Zenon DEF create_lease_fd, Owned
  <2>2. lease' \in Leases /\ lease'.live /\ lease'.holders = {"launcher"}
    BY <2>1, CreatedIs, Zenon
  <2>3. PICK p : /\ run' = [Goto(p) EXCEPT !.owner = TRUE]
                 /\ \/ run.program = "active" /\ p = "fork"
                    \/ run.program = "guarded" /\ p = "activate"
                    \/ run.program = "broker" /\ p = "listen"
    BY <1>1, <1>3, Zenon DEF create_lease_fd
  <2> QED
    BY <1>1, <2>1, <2>2, <2>3, OwnedStep, Zenon
<1> QED
  BY <1>2, <1>3, Zenon

LEMMA CreateStep ==
    ASSUME Inv, NEW fault, create_lease(fault)
    PROVE  Inv'
<1>1. Grows /\ UNCHANGED <<kms, android, child>> /\ run.pc = "create" /\ run.program = "manual"
  BY NotedHistory, Zenon DEF create_lease
<1>2. CASE lease.live \/ fault = "create"
  <2>1. run' = Ended("done") /\ UNCHANGED lease
    BY <1>2, Zenon DEF create_lease, Created
  <2>2. Fresh
    BY <1>1, <2>1, EndedIs, Zenon
  <2>3. LeaseShape' /\ "launcher" \notin lease'.holders
    BY <1>1, <2>1, Zenon DEF Inv, LeaseShape, OwnerShape, ChildUp, Waiting, Using
  <2> QED
    BY <1>1, <2>1, <2>2, <2>3, FreshStep, Zenon DEF Inv, Types, Grows
<1>3. CASE ~lease.live /\ fault # "create"
  <2>1. lease' = Created(fault)
    BY Zenon DEF create_lease
  <2>2. lease' \in Leases /\ lease'.live /\ lease'.holders = {"launcher"}
    BY <1>3, <2>1, CreatedIs, Zenon
  <2>3. PICK p \in {"exec", "hold_handlers", "close"} : run' = [Goto(p) EXCEPT !.owner = TRUE]
    BY <1>3, Zenon DEF create_lease
  <2> QED
    BY <1>1, <1>3, <2>2, <2>3, OwnedStep, Zenon
<1> QED
  BY <1>2, <1>3, Zenon

LEMMA PreflightStep ==
    ASSUME Inv, NEW fault, PreflightManual(fault)
    PROVE  Inv'
<1>1. Grows /\ UNCHANGED World /\ run.pc = "start" /\ run.program = "manual"
  BY NotedHistory, Zenon DEF PreflightManual, World
<1>2. CASE run' = Ended("done")
  <2>1. Fresh
    BY <1>1, <1>2, EndedIs, Zenon DEF World
  <2>2. LeaseShape' /\ "launcher" \notin lease'.holders
    BY <1>1, Zenon DEF Inv, LeaseShape, OwnerShape, ChildUp, Waiting, Using, World
  <2> QED
    BY <1>1, <2>1, <2>2, FreshStep, Zenon DEF Inv, Types, Grows, World
<1>3. CASE run' = [Goto("create") EXCEPT !.objects = {Hint}]
  <2>1. "create" \in AllStages /\ {Hint} \in SUBSET Planes
    BY PlaneAssumption, Zenon DEF AllStages
  <2>2. SameRun(run, run') /\ run'.pc = "create"
    BY <1>3, <2>1, GotoObjects, Zenon
  <2> QED
    BY <1>1, <2>2, Moves, Zenon DEF Free
<1> QED
  BY <1>2, <1>3, Zenon DEF PreflightManual

(* A process that has just been given the lease.                           *)
LEMMA StartedIs ==
    ASSUME Inv, NEW c, c = [NoChild EXCEPT !.state = "running", !.objects = run.objects]
    PROVE  c \in Children /\ c.state = "running" /\ ~c.opened
BY Zenon DEF Inv, Types, Runs, Children, NoChild

LEMMA ExecStep ==
    ASSUME Inv, NEW fault, Exec(fault)
    PROVE  Inv'
<1>1. Grows /\ UNCHANGED <<kms, android>> /\ run.pc = "exec" /\ Fresh
  BY NotedHistory, EndedIs, Zenon DEF Exec
<1>2. /\ lease \in Leases /\ lease.live /\ lease.holders = {"launcher"} /\ ~ChildUp
      /\ child \in Children
  BY <1>1 DEF Inv, Types, LeaseShape, OwnerShape, Waiting
<1>3. CASE lease' = Dropped(lease, "launcher") /\ UNCHANGED child
  <2>1. lease' \in Leases /\ lease'.holders = {} /\ ~lease'.live
    BY <1>2, <1>3, DroppedIs
  <2>2. LeaseShape'
    BY <1>2, <1>3, <2>1, Zenon DEF Inv, LeaseShape, ChildUp
  <2> QED
    BY <1>1, <1>2, <1>3, <2>1, <2>2, FreshStep, Zenon DEF Grows
<1>4. CASE /\ lease' = Dropped(Inherited(lease, "child"), "launcher")
           /\ child' = [NoChild EXCEPT !.state = "running", !.objects = run.objects]
  <2> DEFINE l == Inherited(lease, "child")
  <2>1. l \in Leases /\ l.live /\ l.holders = {"launcher", "child"}
    BY <1>2, InheritedIs DEF Processes
  <2>2. lease' \in Leases /\ lease'.holders = {"child"} /\ lease'.live
    <3> HIDE DEF l
    <3>1. lease' = Dropped(l, "launcher")
      BY <1>4, Zenon DEF l
    <3> QED
      BY <2>1, <3>1, DroppedIs
  <2>3. child' \in Children /\ child'.state = "running" /\ ~child'.opened
    BY <1>4, StartedIs, Zenon
  <2>4. LeaseShape'
    BY <2>2, <2>3, Zenon DEF LeaseShape, ChildUp
  <2> QED
    BY <1>1, <2>2, <2>3, <2>4, FreshStep, Zenon DEF Grows
<1> QED
  BY <1>3, <1>4, Zenon DEF Exec

LEMMA HoldStep ==
    ASSUME Inv, Hold
    PROVE  Inv'
<1>1. Grows /\ UNCHANGED World
  BY Zenon DEF Hold, World, Grows, Inv, Types
<1>2. {"hold", "close", "pausing", "paused"} \subseteq AllStages
  BY Zenon DEF AllStages, Waiting
<1>3. CASE run.pc = "hold_handlers" /\ run' = [Goto("hold") EXCEPT !.handlers = TRUE]
  <2>1. SameRun(run, run') /\ run'.pc = "hold"
    BY <1>2, <1>3, GotoHandlers, Zenon
  <2> QED
    BY <1>1, <1>3, <2>1, Moves, Zenon DEF Free
<1>4. CASE run.pc = "hold" /\ (run' = Goto("close") \/ run' = Goto("pausing"))
  BY <1>1, <1>2, <1>4, GotoIs, Moves, Zenon DEF Free
<1>5. CASE run.pc = "pausing" /\ run' = Goto("paused")
  BY <1>1, <1>2, <1>5, GotoIs, Moves, Zenon DEF Free
<1> QED
  BY <1>3, <1>4, <1>5, Zenon DEF Hold

LEMMA CloseStep ==
    ASSUME Inv, CloseLease
    PROVE  Inv'
<1>1. UNCHANGED <<kms, android, child, history>> /\ run.pc = "close" /\ Fresh
  BY EndedIs, Zenon DEF CloseLease
<1>2. lease \in Leases /\ lease.holders = {"launcher"} /\ ~ChildUp
  BY <1>1 DEF Inv, Types, LeaseShape, OwnerShape, Waiting
<1>3. lease' \in Leases /\ lease'.holders = {} /\ ~lease'.live
  BY <1>2, DroppedIs DEF CloseLease
<1>4. LeaseShape'
  BY <1>1, <1>2, <1>3, Zenon DEF Inv, LeaseShape, ChildUp
<1> QED
  BY <1>1, <1>3, <1>4, FreshStep, Zenon DEF Inv, Types

LEMMA ForkStep ==
    ASSUME Inv, NEW fault, Fork(fault)
    PROVE  Inv'
<1>1. Grows /\ UNCHANGED <<kms, android>> /\ run.pc = "fork"
  BY NotedHistory, Zenon DEF Fork
<1>2. {"teardown", "handlers"} \subseteq AllStages
  BY Zenon DEF AllStages, Using
<1>3. CASE run' = Goto("teardown") /\ UNCHANGED <<lease, child>>
  BY <1>1, <1>2, <1>3, GotoIs, Moves, Zenon DEF Free, World
<1>4. CASE /\ run' = Goto("handlers")
           /\ lease' = Inherited(lease, "child")
           /\ child' = [NoChild EXCEPT !.state = "running", !.objects = run.objects]
  <2>1. SameRun(run, run') /\ run'.pc = "handlers"
    BY <1>2, <1>4, GotoIs, Zenon
  <2>2. lease \in Leases /\ lease.live /\ lease.holders = {"launcher"} /\ run.owner
    BY <1>1, Zenon DEF Inv, Types, LeaseShape, OwnerShape, Waiting
  <2>3. lease' \in Leases /\ lease'.holders = {"launcher", "child"} /\ lease'.live
    BY <1>4, <2>2, InheritedIs DEF Processes
  <2>4. child' \in Children /\ child'.state = "running" /\ ~child'.opened
    BY <1>4, StartedIs, Zenon
  <2>5. Types'
    BY <1>1, <2>1, <2>3, <2>4, Zenon DEF Inv, Types, Runs, ProgramStages, SameRun, SameLaunch, Grows
  <2>6. (LeaseShape /\ OwnerShape /\ ChildShape)'
    BY <2>1, <2>2, <2>3, <2>4, Zenon DEF LeaseShape, OwnerShape, ChildShape, ChildUp, SameRun,
           SameLaunch, Waiting, Using, Leaving
  <2>7. (DisabledShape /\ ForceShape /\ EndShape)'
    BY <1>1, <2>1, Zenon DEF Inv, Types, Runs, DisabledShape, ForceShape, EndShape, SameRun,
           SameLaunch, Using, Leaving
  <2> QED
    BY <2>5, <2>6, <2>7, Zenon DEF Inv
<1> QED
  BY <1>3, <1>4, Zenon DEF Fork, prepare_lease_environment

LEMMA HandlersStep ==
    ASSUME Inv, InstallHandlers
    PROVE  Inv'
<1>1. Grows /\ UNCHANGED World /\ run.pc = "handlers"
  BY Zenon DEF InstallHandlers, World, Grows, Inv, Types
<1>2. "wait" \in AllStages
  BY Zenon DEF AllStages, Using
<1>3. SameRun(run, run') /\ run'.pc = "wait"
  BY <1>2, GotoHandlers, Zenon DEF InstallHandlers
<1> QED
  BY <1>1, <1>3, Moves, Zenon DEF Free

LEMMA ReapStep ==
    ASSUME Inv, run.pc = "wait", child.state = "gone", run' = Goto("teardown"),
           UNCHANGED <<kms, android, lease, child, history>>
    PROVE  Inv'
<1>1. Grows /\ UNCHANGED World /\ ~ChildUp
  BY Zenon DEF World, Grows, Inv, Types, ChildUp
<1>2. "teardown" \in AllStages
  BY Zenon DEF AllStages
<1>3. SameRun(run, run') /\ run'.pc = "teardown"
  BY <1>2, GotoIs, Zenon
<1> QED
  BY <1>1, <1>3, Moves, Zenon DEF Free

LEMMA HotplugStep ==
    ASSUME Inv, run_inherited_child_with_hotplug_monitor
    PROVE  Inv'
<1>1. /\ UNCHANGED <<kms, android, lease, history>>
      /\ run.pc = "wait" /\ run.program = "active"
  BY Zenon DEF run_inherited_child_with_hotplug_monitor
<1>2. CASE child.state = "gone" /\ run' = Goto("teardown") /\ UNCHANGED child
  BY <1>1, <1>2, ReapStep, Zenon
<1>3. CASE /\ child.state # "gone"
           /\ \/ \E n \in Nat, u \in BOOLEAN : run' = [run EXCEPT !.unplugged = u, !.good = n]
              \/ \E n \in Nat : run' = [run EXCEPT !.good = n] \/ run' = [run EXCEPT !.polls = n]
           /\ \/ UNCHANGED child
              \/ child' = [child EXCEPT !.state = "asked"]
              \/ child' = [child EXCEPT !.state = "killed"]
  <2>1. /\ run' \in Runs /\ run'.program = run.program /\ run'.pc = "wait"
        /\ "keep" \in run'.options <=> "keep" \in run.options
        /\ run'.found = run.found /\ run'.owner = run.owner /\ run'.disabled = run.disabled
        /\ run'.occupied = run.occupied /\ run'.connected = run.connected
    <3>1. CASE \E n \in Nat, u \in BOOLEAN : run' = [run EXCEPT !.unplugged = u, !.good = n]
      BY <1>1, <3>1, Zenon DEF Inv, Types, Runs
    <3>2. CASE \E n \in Nat : run' = [run EXCEPT !.good = n] \/ run' = [run EXCEPT !.polls = n]
      BY <1>1, <3>2, Zenon DEF Inv, Types, Runs
    <3> QED
      BY <1>3, <3>1, <3>2, Zenon
  <2>2. run.owner
    BY <1>1, Zenon DEF Inv, OwnerShape, Using
  <2>3. ChildUp
    BY <1>1, <1>3, <2>2, Zenon DEF Inv, Types, Children, ChildShape, ChildUp
  <2>4. /\ child' \in Children /\ child'.opened = child.opened
        /\ child'.sealed = child.sealed /\ child'.early = child.early
        /\ child'.state \in {"running", "asked", "killed"}
    BY <1>3, <2>3 DEF Inv, Types, Children, ChildUp
  <2>5. Types'
    BY <1>1, <2>1, <2>4, Zenon DEF Inv, Types, ProgramStages
  <2>6. (LeaseShape /\ OwnerShape /\ ChildShape)'
    BY <1>1, <2>1, <2>3, <2>4, Zenon DEF Inv, LeaseShape, OwnerShape, ChildShape, ChildUp, Waiting,
           Using, Leaving
  <2>7. (DisabledShape /\ ForceShape /\ EndShape)'
    BY <1>1, <2>1, Zenon DEF Inv, DisabledShape, ForceShape, EndShape, Using, Leaving
  <2> QED
    BY <2>5, <2>6, <2>7, Zenon DEF Inv
<1>4. run.good + 1 \in Nat /\ run.polls + 1 \in Nat /\ 0 \in Nat /\ run.polls \in Nat
  BY DEF Inv, Types, Runs
<1>5. CASE child.state # "gone" /\ ~run.unplugged
  <2>1. /\ \/ run' = [run EXCEPT !.unplugged = TRUE, !.good = 0]
           \/ \E n \in {0, run.good + 1} : run' = [run EXCEPT !.good = n]
        /\ UNCHANGED child \/ child' = [child EXCEPT !.state = "asked"]
    BY <1>5, Zenon DEF run_inherited_child_with_hotplug_monitor
  <2> QED
    BY <1>3, <1>4, <1>5, <2>1, Zenon
<1>6. CASE child.state # "gone" /\ run.unplugged
  <2>1. /\ \E n \in {run.polls, run.polls + 1} : run' = [run EXCEPT !.polls = n]
        /\ UNCHANGED child \/ child' = [child EXCEPT !.state = "killed"]
    BY <1>6, Zenon DEF run_inherited_child_with_hotplug_monitor
  <2> QED
    BY <1>3, <1>4, <1>6, <2>1, Zenon
<1> QED
  BY <1>2, <1>5, <1>6, Zenon DEF run_inherited_child_with_hotplug_monitor
-----------------------------------------------------------------------------
(* The way back.                                                           *)
LEMMA TeardownStep ==
    ASSUME Inv, NEW fault \in {"", "force"}, Teardown(fault)
    PROVE  Inv'
<1>1. UNCHANGED <<android, lease, child>> /\ run.pc = "teardown" /\ Grows
      /\ run.program \in {"active", "guarded"}
  BY NotedHistory, Zenon DEF Teardown, Grows, Inv, Types
<1>2. {"disconnect", "revoke", "restore"} \subseteq AllStages
  BY Zenon DEF AllStages, Using, Leaving
<1>3. kms' \in Kernels /\ kms'.scanout = kms.scanout
  BY ForceWritten, Zenon DEF Teardown, Inv, Types
<1>4. CASE "launcher" \in lease.holders
  <2>1. SameRun(run, run') /\ run'.pc \in {"disconnect", "revoke"}
    BY <1>2, <1>4, GotoIs, Zenon DEF Teardown
  <2>2. kms'.force = "off" \/ kms'.force = kms.force
    BY <1>4, ForceWritten, Zenon DEF Teardown
  <2>3. Types'
    BY <1>1, <1>3, <2>1, Zenon DEF Inv, Types, ProgramStages, SameRun, SameLaunch, Grows
  <2>4. Shapes'
    BY <1>1, <1>3, <1>4, <2>1, ZenonT(40) DEF Inv, Types, Runs, Shapes, LeaseShape, OwnerShape, ChildShape,
           DisabledShape, ForceShape, EndShape, ChildUp, SameRun, SameLaunch, Waiting, Using,
           Leaving
  <2> QED
    BY <2>3, <2>4, Zenon DEF Inv, Shapes
<1>5. CASE "launcher" \notin lease.holders
  <2>1. SameRun(run, run') /\ run'.pc = "restore"
    BY <1>2, <1>5, GotoIs, Zenon DEF Teardown
  <2>2. ~run.owner /\ (run.disabled \/ kms' = kms)
    BY <1>1, <1>5, Zenon DEF Inv, OwnerShape, Teardown
  <2>3. Types'
    BY <1>1, <1>3, <2>1, Zenon DEF Inv, Types, ProgramStages, SameRun, SameLaunch, Grows
  <2>4. (LeaseShape /\ OwnerShape /\ ChildShape /\ EndShape)'
    BY <1>1, <1>5, <2>1, <2>2, Zenon DEF Inv, LeaseShape, OwnerShape, ChildShape, EndShape, ChildUp,
           SameRun, SameLaunch, Waiting, Using, Leaving
  <2>5. (DisabledShape /\ ForceShape)'
    BY <1>1, <1>3, <2>1, <2>2, Zenon DEF Inv, Types, Runs, DisabledShape, ForceShape, SameRun,
           SameLaunch, Using, Leaving
  <2> QED
    BY <2>3, <2>4, <2>5, Zenon DEF Inv
<1> QED
  BY <1>4, <1>5, Zenon

LEMMA DisconnectStep ==
    ASSUME Inv, wait_for_lease_disconnect
    PROVE  Inv'
<1>1. Grows /\ UNCHANGED World /\ run.pc = "disconnect"
  BY Zenon DEF wait_for_lease_disconnect, World, Grows, Inv, Types
<1>2. "revoke" \in AllStages
  BY Zenon DEF AllStages, Using
<1>3. SameRun(run, run') /\ run'.pc = "revoke"
  BY <1>2, GotoIs, Zenon DEF wait_for_lease_disconnect
<1> QED
  BY <1>1, <1>3, Moves, Zenon DEF Free

LEMMA RevokeStep ==
    ASSUME Inv, NEW fault \in {"", "revoke"}, Revoke(fault)
    PROVE  Inv'
<1>1. Grows /\ UNCHANGED <<kms, android, child>> /\ run.pc = "revoke"
      /\ (fault = "revoke" => "revoke" \in history'.failed)
  BY NotedHistory, Zenon DEF Revoke, Remembered
<1>2. "restore" \in AllStages
  BY Zenon DEF AllStages, Leaving
<1>3. SameRun(run, run') /\ run'.pc = "restore"
  BY <1>2, GotoIs, Zenon DEF Revoke
<1>4. run.owner /\ run.program \in {"active", "guarded"} /\ ~ChildUp
  BY <1>1, Zenon DEF Inv, Types, Runs, ProgramStages, OwnerShape, ChildShape, Using
<1>5. /\ lease' \in Leases /\ lease'.holders \subseteq lease.holders \ {"launcher"}
      /\ (lease'.live <=> lease'.holders # {})
      /\ run.program = "active" => ~lease'.live \/ fault = "revoke"
  <2>1. lease \in Leases /\ NoLease \in Leases /\ NoLease.holders = {} /\ ~NoLease.live
        /\ (lease.live <=> lease.holders # {})
    BY Zenon DEF Inv, Types, LeaseShape, Leases, NoLease
  <2>2. CASE lease' = Dropped(lease, "launcher") /\ (run.program # "active" \/ fault = "revoke")
    <3>1. /\ lease' \in Leases /\ lease'.holders = lease.holders \ {"launcher"}
          /\ lease'.holders = {} => ~lease'.live
          /\ lease'.holders # {} => lease'.live = lease.live
      BY <2>1, <2>2, DroppedIs, ZenonT(40)
    <3> QED
      BY <2>1, <2>2, <3>1, Zenon
  <2>3. CASE lease' = Dropped(NoLease, "launcher")
    <3>1. Dropped(NoLease, "launcher") = NoLease
      BY <2>1, Zenon DEF Dropped
    <3> QED
      BY <2>1, <2>3, <3>1, Zenon
  <2> QED
    BY <2>2, <2>3, Zenon DEF Revoke, ah_revoke_lessee
<1>6. Types'
  BY <1>1, <1>3, <1>5, Zenon DEF Inv, Types, ProgramStages, SameRun, SameLaunch, Grows
<1>7. (LeaseShape /\ OwnerShape /\ ChildShape)'
  BY <1>1, <1>3, <1>4, <1>5, Zenon DEF Inv, LeaseShape, OwnerShape, ChildShape, ChildUp, SameRun,
         SameLaunch, Waiting, Using, Leaving
<1>8. (DisabledShape /\ ForceShape)'
  BY <1>1, <1>3, <1>4, Zenon DEF Inv, Types, Runs, DisabledShape, ForceShape, SameRun, SameLaunch,
         Using, Leaving
<1>9. EndShape'
  BY <1>1, <1>3, <1>5, Zenon DEF EndShape, SameRun, SameLaunch, Failed
<1> QED
  BY <1>6, <1>7, <1>8, <1>9, Zenon DEF Inv

LEMMA RestoreStep ==
    ASSUME Inv, NEW fault \in {"", "clear"}, Restore(fault)
    PROVE  Inv'
<1>1. UNCHANGED <<android, lease, child>> /\ run.pc = "restore" /\ Grows
      /\ run.program \in {"active", "guarded"}
  BY NotedHistory, Zenon DEF Restore, Grows, Inv, Types
<1>2. {"settle", "done"} \subseteq AllStages
  BY Zenon DEF AllStages, Leaving
<1>3. /\ SameRun(run, run') /\ run'.pc \in {"settle", "done"}
      /\ run'.pc = "settle" <=>
            run.program = "active" /\ (RestoreAndroid \/ RestoreIdle) /\ fault = ""
  BY <1>2, GotoIs, Zenon DEF Restore
<1>4. kms' \in Kernels /\ kms'.scanout = kms.scanout
  BY ForceWritten, Zenon DEF Restore, Inv, Types
<1>5. kms'.force = "detect" \/ kms'.force = kms.force
  BY ForceWritten, Zenon DEF Restore
<1>6. RestoreAndroid \/ RestoreIdle \/ ForceTouched =>
         kms'.force = "detect" \/ "clear" \in history'.failed
  BY NotedHistory, ForceWritten, Zenon DEF Restore, Remembered
<1>7. RestoreAndroid /\ fault # "" => "clear" \in history'.failed
  BY NotedHistory, Zenon DEF Restore, Remembered
<1>8. Types'
  BY <1>1, <1>3, <1>4, Zenon DEF Inv, Types, ProgramStages, SameRun, SameLaunch, Grows
<1>9. (LeaseShape /\ OwnerShape /\ ChildShape /\ EndShape)'
  BY <1>1, <1>3, Zenon DEF Inv, LeaseShape, OwnerShape, ChildShape, EndShape, ChildUp, SameRun,
         SameLaunch, Grows, Failed, Waiting, Using, Leaving
<1>10. DisabledShape'
  BY <1>1, <1>3, <1>4, <1>7, Zenon DEF Inv, Types, Runs, DisabledShape, RestoreAndroid, RestoreIdle,
         SameRun, SameLaunch, Failed, Using, Leaving
<1>11. ForceShape'
  <2>1. CASE run.program = "active"
    BY <1>1, <1>3, <1>5, <1>6, <2>1, Zenon DEF Inv, ForceShape, ForceTouched, RestoreAndroid,
           RestoreIdle, SameRun, SameLaunch, Failed, Using, Leaving
  <2>2. CASE run.program = "guarded"
    BY <1>1, <1>3, <1>5, <1>6, <2>2, Zenon DEF Inv, ForceShape, ForceTouched, SameRun, SameLaunch,
           Failed, Using, Leaving
  <2> QED
    BY <1>1, <2>1, <2>2, Zenon
<1> QED
  BY <1>8, <1>9, <1>10, <1>11, Zenon DEF Inv

LEMMA SettleStep ==
    ASSUME Inv, wait_for_restore
    PROVE  Inv'
<1>1. UNCHANGED <<kms, android, lease, child, history>> /\ run.pc = "settle"
  BY Zenon DEF wait_for_restore
<1>2. {"enable", "done"} \subseteq AllStages
  BY Zenon DEF AllStages, Leaving
<1>3. /\ SameRun(run, run') /\ run'.pc \in {"enable", "done"}
      /\ run'.pc = "enable" <=> RestoreAndroid /\ run.disabled
  BY <1>2, GotoIs, Zenon DEF wait_for_restore
<1>4. Types'
  BY <1>1, <1>3, Zenon DEF Inv, Types, Runs, ProgramStages, SameRun, SameLaunch
<1>5. (LeaseShape /\ OwnerShape /\ ChildShape /\ EndShape)'
  BY <1>1, <1>3, Zenon DEF Inv, LeaseShape, OwnerShape, ChildShape, EndShape, ChildUp, SameRun,
         SameLaunch, Failed, Waiting, Using, Leaving
<1>6. DisabledShape'
  BY <1>1, <1>3, Zenon DEF Inv, Types, Runs, DisabledShape, SameRun, SameLaunch, Using, Leaving
<1>7. ForceShape'
  BY <1>1, <1>3, Zenon DEF Inv, Types, Runs, ProgramStages, ForceShape, SameRun, SameLaunch, Failed,
         Using, Leaving
<1> QED
  BY <1>4, <1>5, <1>6, <1>7, Zenon DEF Inv

LEMMA EnableStep ==
    ASSUME Inv, NEW fault \in {"", "display"}, EnableDisplay(fault)
    PROVE  Inv'
<1>1. UNCHANGED <<kms, lease, child>> /\ run.pc = "enable" /\ Grows
      /\ (fault = "display" => "display" \in history'.failed)
  BY NotedHistory, Zenon DEF EnableDisplay, Remembered
<1>2. "done" \in AllStages
  BY Zenon DEF AllStages, Leaving
<1>3. SameRun(run, run') /\ run'.pc = "done"
  BY <1>2, GotoIs, Zenon DEF EnableDisplay
<1>4. /\ android' \in {"unmanaged", "absent", "on", "off"}
      /\ android = "off" => android' = "on" \/ fault = "display"
      /\ android # "off" => android' # "off"
  BY Zenon DEF EnableDisplay, run_display_action, Inv, Types
<1>5. Types'
  BY <1>1, <1>3, <1>4, Zenon DEF Inv, Types, ProgramStages, SameRun, SameLaunch, Grows
<1>6. (LeaseShape /\ OwnerShape /\ ChildShape /\ EndShape)'
  BY <1>1, <1>3, Zenon DEF Inv, LeaseShape, OwnerShape, ChildShape, EndShape, ChildUp, SameRun,
         SameLaunch, Grows, Failed, Waiting, Using, Leaving
<1>7. DisabledShape'
  BY <1>1, <1>3, <1>4, Zenon DEF Inv, DisabledShape, SameRun, SameLaunch, Failed, Using, Leaving
<1>8. ForceShape'
  BY <1>1, <1>3, Zenon DEF Inv, Types, Runs, ProgramStages, ForceShape, SameRun, SameLaunch, Grows,
         Failed, Using, Leaving
<1> QED
  BY <1>5, <1>6, <1>7, <1>8, Zenon DEF Inv
-----------------------------------------------------------------------------
(* The rest of the world.                                                  *)
LEMMA ShimStep ==
    ASSUME Inv, UNCHANGED <<kms, android, lease, run>>, Grows, child' \in Children,
           child'.state = child.state, child'.early = child.early,
           child'.opened => child'.sealed
    PROVE  Inv'
<1>1. Types'
  BY Zenon DEF Inv, Types, ProgramStages, Grows
<1>2. (LeaseShape /\ OwnerShape /\ ChildShape /\ EndShape)'
  BY Zenon DEF Inv, LeaseShape, OwnerShape, ChildShape, EndShape, ChildUp, Grows, Failed
<1>3. (DisabledShape /\ ForceShape)'
  BY Zenon DEF Inv, DisabledShape, ForceShape, RestoreAndroid, Grows, Failed
<1> QED
  BY <1>1, <1>2, <1>3, Zenon DEF Inv

LEMMA OpenStep ==
    ASSUME Inv, NEW fault, libseat_open_device(fault)
    PROVE  Inv'
<1>1. Grows /\ UNCHANGED <<kms, android, lease, run>>
  BY NotedHistory, Zenon DEF libseat_open_device
<1>2. child \in Children /\ (child.opened => child.sealed)
  BY Zenon DEF Inv, Types, LeaseShape
<1>3. CASE UNCHANGED child
  BY <1>1, <1>2, <1>3, ShimStep, Zenon
<1>4. /\ Sealed(child) \in Children /\ Sealed(child).state = child.state
      /\ Sealed(child).early = child.early /\ Sealed(child).sealed
      /\ Sealed(child).table = child.table
  BY <1>2, Zenon DEF Sealed, Children
<1>5. CASE child' = Sealed(child)
  BY <1>1, <1>4, <1>5, ShimStep, Zenon
<1>6. CASE \E slot \in Slots :
             child' = [Sealed(child) EXCEPT !.table = @ \cup {slot}, !.opened = TRUE]
  <2> DEFINE c == Sealed(child)
  <2>1. PICK slot \in Slots : child' = [c EXCEPT !.table = c.table \cup {slot}, !.opened = TRUE]
    BY <1>6, Zenon
  <2>2. c \in Children /\ c.state = child.state /\ c.early = child.early /\ c.sealed
    BY <1>4, Zenon
  <2> HIDE DEF c
  <2>3. /\ child' \in Children /\ child'.state = child.state /\ child'.early = child.early
        /\ child'.sealed
    BY <2>1, <2>2, Zenon DEF Children
  <2> QED
    BY <1>1, <2>3, ShimStep, Zenon
<1> QED
  BY <1>3, <1>5, <1>6, Zenon DEF libseat_open_device

LEMMA SlotStep ==
    ASSUME Inv, libseat_close_device
    PROVE  Inv'
<1>1. UNCHANGED <<kms, android, lease, run>> /\ Grows
  BY Zenon DEF libseat_close_device, Grows, Inv, Types
<1>2. PICK slot : child' = [child EXCEPT !.table = child.table \ {slot}]
  BY Zenon DEF libseat_close_device
<1>3. /\ child' \in Children /\ child'.state = child.state /\ child'.early = child.early
      /\ child'.opened => child'.sealed
  BY <1>2, Zenon DEF Inv, Types, LeaseShape, Children
<1> QED
  BY <1>1, <1>3, ShimStep, Zenon

LEMMA SpawnStep ==
    ASSUME Inv, ChildSpawns
    PROVE  Inv'
<1>1. UNCHANGED <<kms, android, run, history>> /\ Alive /\ lease.live /\ ~child.sealed
  BY Zenon DEF ChildSpawns
<1>2. lease' \in Leases /\ lease'.live /\ lease'.holders = lease.holders \cup {"orphan"}
  BY <1>1, InheritedIs, Zenon DEF ChildSpawns, Inv, Types, Processes
<1>3. /\ child' \in Children /\ child'.state = child.state /\ child'.opened = child.opened
      /\ child'.sealed = child.sealed /\ child'.early
  <2>1. ~child.opened /\ child \in Children
    BY <1>1, Zenon DEF Inv, Types, LeaseShape
  <2>2. PICK early \in BOOLEAN : early /\ child' = [child EXCEPT !.early = early]
    BY <2>1, Zenon DEF ChildSpawns
  <2> QED
    BY <2>1, <2>2, Zenon DEF Children
<1>4. "child" \in lease.holders
  BY <1>1, Zenon DEF Alive, Inv, LeaseShape, ChildUp
<1>5. Types'
  BY <1>1, <1>2, <1>3, Zenon DEF Inv, Types, ProgramStages
<1>6. (LeaseShape /\ OwnerShape /\ ChildShape /\ EndShape)'
  BY <1>1, <1>2, <1>3, <1>4 DEF Inv, LeaseShape, OwnerShape, ChildShape, EndShape, ChildUp,
         Failed
<1>7. (DisabledShape /\ ForceShape)'
  BY <1>1, Zenon DEF Inv, DisabledShape, ForceShape, RestoreAndroid, Failed
<1> QED
  BY <1>5, <1>6, <1>7, Zenon DEF Inv

LEMMA ChildExitStep ==
    ASSUME Inv, ChildExits
    PROVE  Inv'
<1>1. UNCHANGED <<kms, android, run, history>> /\ ChildUp
  BY Zenon DEF ChildExits, Alive, ChildUp
<1>2. /\ lease' \in Leases /\ lease'.holders = lease.holders \ {"child"}
      /\ lease'.live => lease.live
      /\ lease'.holders = {} => ~lease'.live
      /\ lease'.holders # {} => lease'.live = lease.live
  BY DroppedIs DEF ChildExits, Inv, Types
<1>3. /\ child' \in Children /\ child'.state = "gone" /\ child'.opened = child.opened
      /\ child'.sealed = child.sealed /\ child'.early = child.early
  BY Zenon DEF ChildExits, Inv, Types, Children
<1>4. Types'
  BY <1>1, <1>2, <1>3, Zenon DEF Inv, Types, ProgramStages
<1>5. (LeaseShape /\ OwnerShape /\ ChildShape /\ EndShape)'
  BY <1>1, <1>2, <1>3, Zenon DEF Inv, LeaseShape, OwnerShape, ChildShape, EndShape, ChildUp, Failed
<1>6. (DisabledShape /\ ForceShape)'
  BY <1>1, Zenon DEF Inv, DisabledShape, ForceShape, RestoreAndroid, Failed
<1> QED
  BY <1>4, <1>5, <1>6, Zenon DEF Inv

LEMMA OrphanExitStep ==
    ASSUME Inv, OrphanExits
    PROVE  Inv'
<1>1. UNCHANGED <<kms, android, run, history>> /\ "orphan" \in lease.holders
  BY Zenon DEF OrphanExits
<1>2. /\ lease' \in Leases /\ lease'.holders = lease.holders \ {"orphan"}
      /\ lease'.live => lease.live
      /\ lease'.holders = {} => ~lease'.live
      /\ lease'.holders # {} => lease'.live = lease.live
  BY DroppedIs DEF OrphanExits, Inv, Types
<1>3. /\ child' \in Children /\ child'.state = child.state /\ child'.opened = child.opened
      /\ child'.sealed = child.sealed
  BY Zenon DEF OrphanExits, Inv, Types, Children
<1>4. Types'
  BY <1>1, <1>2, <1>3, Zenon DEF Inv, Types, ProgramStages
<1>5. (LeaseShape /\ OwnerShape /\ ChildShape /\ EndShape)'
  BY <1>1, <1>2, <1>3, Zenon DEF Inv, LeaseShape, OwnerShape, ChildShape, EndShape, ChildUp, Failed
<1>6. (DisabledShape /\ ForceShape)'
  BY <1>1, Zenon DEF Inv, DisabledShape, ForceShape, RestoreAndroid, Failed
<1> QED
  BY <1>4, <1>5, <1>6, Zenon DEF Inv

LEMMA SignalStep ==
    ASSUME Inv, Signal
    PROVE  Inv'
<1>1. UNCHANGED <<kms, android>> /\ run.pc \notin {"done", "dead"} /\ Grows
  BY DEF Signal, Grows, Inv, Types, Histories
<1>2. CASE ~run.handlers
  <2>1. run' = Ended("dead") /\ lease' = Dropped(lease, "launcher") /\ UNCHANGED child
    BY <1>2, Zenon DEF Signal
  <2>2. Fresh
    BY <1>1, <2>1, EndedIs, Zenon
  <2>3. /\ lease' \in Leases /\ lease'.holders = lease.holders \ {"launcher"}
        /\ lease'.holders = {} => ~lease'.live
        /\ lease'.holders # {} => lease'.live = lease.live
    BY <2>1, DroppedIs DEF Inv, Types
  <2>4. LeaseShape'
    BY <2>1, <2>3, Zenon DEF Inv, LeaseShape, ChildUp
  <2> QED
    BY <1>1, <2>1, <2>2, <2>3, <2>4, FreshStep, Zenon DEF Inv, Types, Grows
<1>3. CASE run.handlers /\ run.program # "manual"
  <2>1. UNCHANGED <<run, lease>>
        /\ (UNCHANGED child \/ (child.state = "running" /\ child' = [child EXCEPT !.state = "asked"]))
    BY <1>3, Zenon DEF Signal
  <2>2. /\ child' \in Children /\ child'.opened = child.opened /\ child'.sealed = child.sealed
        /\ child'.early = child.early /\ (child'.state = "none" <=> child.state = "none")
        /\ ChildUp' <=> ChildUp
    BY <2>1, Zenon DEF Inv, Types, Children, ChildUp
  <2>3. Types'
    BY <1>1, <2>1, <2>2, Zenon DEF Inv, Types, ProgramStages, Grows
  <2>4. (LeaseShape /\ OwnerShape /\ ChildShape /\ EndShape)'
    BY <1>1, <2>1, <2>2, Zenon DEF Inv, LeaseShape, OwnerShape, ChildShape, EndShape, Grows, Failed
  <2>5. (DisabledShape /\ ForceShape)'
    BY <1>1, <2>1, Zenon DEF Inv, DisabledShape, ForceShape, RestoreAndroid, Grows, Failed
  <2> QED
    BY <2>3, <2>4, <2>5, Zenon DEF Inv
<1>4. CASE run.handlers /\ run.program = "manual"
  <2>1. UNCHANGED <<lease, child>>
    BY <1>4, Zenon DEF Signal, Inv, Types, ProgramStages
  <2>2. PICK p \in {run.pc, "hold"} : /\ p = run.pc \/ run.pc = "paused"
                                     /\ run' = [run EXCEPT !.stop = TRUE, !.pc = p]
    BY <1>4, Zenon DEF Signal
  <2>3. SameRun(run, run') /\ run'.pc = p
    BY <2>2, Zenon DEF Inv, Types, Runs, SameRun, SameLaunch, AllStages, Waiting
  <2>4. CASE p = run.pc
    BY <1>1, <2>1, <2>3, <2>4, Stays, Zenon DEF World
  <2>5. CASE p = "hold" /\ run.pc = "paused"
    BY <1>1, <2>1, <2>3, <2>5, Moves, Zenon DEF World, Free
  <2> QED
    BY <2>2, <2>4, <2>5, Zenon
<1> QED
  BY <1>2, <1>3, <1>4, Zenon

LEMMA AgainStep ==
    ASSUME Inv, Again
    PROVE  Inv'
<1>1. UNCHANGED <<kms, android, lease>> /\ run.pc \in {"done", "dead"}
  BY Zenon DEF Again
<1>2. history' \in Histories
  <2>1. history \in Histories /\ history.runs + 1 \in Nat /\ {} \in SUBSET Remembered
    BY DEF Inv, Types, Histories
  <2>2. history' = [history EXCEPT !.runs = history.runs + 1, !.failed = {}]
    BY Zenon DEF Again
  <2> QED
    BY <2>1, <2>2, Zenon DEF Histories
<1>3. child' \in Children /\ (ChildUp' <=> ChildUp) /\ (child'.opened => child'.sealed)
  BY Zenon DEF Again, Inv, Types, LeaseShape, Children, ChildUp, NoChild
<1>4. Fresh
  <2>1. PICK p \in Programs : \E o \in Options(p) : run' = Launch(p, o)
    BY Zenon DEF Again
  <2>2. PICK o \in Options(p) : run' = Launch(p, o)
    BY <2>1, Zenon
  <2>3. o \in SUBSET Flags /\ p \in {"active", "guarded", "manual", "broker"}
    BY <2>2, ProgramAssumption, Zenon DEF Options, Flags
  <2> QED
    BY <1>1, <2>2, <2>3, Zenon DEF Inv, Types, Kernels, Runs, Launch, AllStages, Fresh
<1>5. LeaseShape' /\ "launcher" \notin lease'.holders
  BY <1>1, <1>3, Zenon DEF Inv, LeaseShape, OwnerShape, Waiting, Using
<1> QED
  BY <1>1, <1>2, <1>3, <1>4, <1>5, FreshStep, Zenon DEF Inv, Types

LEMMA KernelStep ==
    ASSUME Inv, UNCHANGED <<android, lease, run, child>>, Grows, kms' \in Kernels,
           kms'.force = kms.force,
           kms.scanout = {} /\ android # "on" => kms'.scanout = {}
    PROVE  Inv'
<1>1. Types'
  BY Zenon DEF Inv, Types, ProgramStages, Grows
<1>2. (LeaseShape /\ OwnerShape /\ ChildShape /\ EndShape)'
  BY Zenon DEF Inv, LeaseShape, OwnerShape, ChildShape, EndShape, ChildUp, Grows, Failed
<1>3. (DisabledShape /\ ForceShape)'
  BY Zenon DEF Inv, DisabledShape, ForceShape, RestoreAndroid, Grows, Failed
<1> QED
  BY <1>1, <1>2, <1>3, Zenon DEF Inv

LEMMA ReplugStep ==
    ASSUME Inv, Replug
    PROVE  Inv'
<1>1. Grows /\ UNCHANGED <<android, lease, run, child>>
  BY DEF Replug, Grows, Inv, Types, Histories
<1>2. kms' \in Kernels /\ kms'.force = kms.force /\ kms'.scanout = kms.scanout
  <2>1. PICK b \in BOOLEAN : kms' = [kms EXCEPT !.plugged = b]
    BY Zenon DEF Replug
  <2> QED
    BY <2>1, Zenon DEF Inv, Types, Kernels
<1> QED
  BY <1>1, <1>2, KernelStep, Zenon

LEMMA FollowStep ==
    ASSUME Inv, AndroidFollows
    PROVE  Inv'
<1>1. UNCHANGED <<kms, lease, run, child, history>>
  BY Zenon DEF AndroidFollows
<1>2. android # "off" /\ android' \in {"on", "absent"}
  BY Zenon DEF AndroidFollows
<1>3. Types'
  BY <1>1, <1>2, Zenon DEF Inv, Types, ProgramStages
<1>4. (LeaseShape /\ OwnerShape /\ ChildShape /\ EndShape)'
  BY <1>1, Zenon DEF Inv, LeaseShape, OwnerShape, ChildShape, EndShape, ChildUp, Failed
<1>5. (DisabledShape /\ ForceShape)'
  BY <1>1, <1>2, Zenon DEF Inv, DisabledShape, ForceShape, RestoreAndroid, Failed
<1> QED
  BY <1>3, <1>4, <1>5, Zenon DEF Inv

LEMMA ComposeStep ==
    ASSUME Inv, Compose
    PROVE  Inv'
<1>1. Grows /\ UNCHANGED <<android, lease, run, child>>
  BY Zenon DEF Compose, Grows, Inv, Types
<1>2. CASE android = "on" /\ \E p \in Planes : kms' = [kms EXCEPT !.scanout = {p}, !.timing = TRUE]
  <2>1. PICK planes \in SUBSET Planes, timing \in BOOLEAN :
               kms' = [kms EXCEPT !.scanout = planes, !.timing = timing]
    BY <1>2, Zenon
  <2>2. kms' \in Kernels /\ kms'.force = kms.force
    BY <2>1, Zenon DEF Inv, Types, Kernels
  <2> QED
    BY <1>1, <1>2, <2>2, KernelStep, Zenon
<1>3. CASE kms' = [kms EXCEPT !.scanout = {}]
  <2>1. kms' \in Kernels /\ kms'.force = kms.force /\ kms'.scanout = {}
    BY <1>3, Zenon DEF Inv, Types, Kernels
  <2> QED
    BY <1>1, <2>1, KernelStep, Zenon
<1>4. CASE kms' = [kms EXCEPT !.timing = FALSE]
  <2>1. kms' \in Kernels /\ kms'.force = kms.force /\ kms'.scanout = kms.scanout
    BY <1>4, Zenon DEF Inv, Types, Kernels
  <2> QED
    BY <1>1, <2>1, KernelStep, Zenon
<1> QED
  BY <1>2, <1>3, <1>4, Zenon DEF Compose
-----------------------------------------------------------------------------
(* The broker.                                                             *)
LEMMA ProbeStep ==
    ASSUME Inv, NEW fault, BrokerProbe(fault)
    PROVE  Inv'
<1>1. Grows /\ UNCHANGED <<android, lease, child>> /\ run.pc = "start" /\ run.program = "broker"
  BY NotedHistory, Zenon DEF BrokerProbe
<1>2. {"sink", "teardown"} \subseteq AllStages
  BY Zenon DEF AllStages
<1>3. kms' \in Kernels /\ kms'.scanout = kms.scanout
  BY ForceWritten, Zenon DEF BrokerProbe, Inv, Types
<1>4. SameRun(run, run') /\ run'.pc \in {"sink", "teardown"}
  <2>1. PICK p \in {"sink", "teardown"} : run' = Without(Goto(p), "allow_active")
    BY Zenon DEF BrokerProbe
  <2> QED
    BY <1>2, <2>1, GotoWithout, Zenon
<1>5. Types'
  BY <1>1, <1>3, <1>4, Zenon DEF Inv, Types, ProgramStages, SameRun, SameLaunch, Grows
<1>6. Shapes'
  BY <1>1, <1>4, Zenon DEF Inv, Shapes, LeaseShape, OwnerShape, ChildShape, DisabledShape, ForceShape,
         EndShape, ChildUp, SameRun, SameLaunch, Waiting, Using, Leaving
<1> QED
  BY <1>5, <1>6, Zenon DEF Inv, Shapes

LEMMA SinkStep ==
    ASSUME Inv, BrokerSink
    PROVE  Inv'
<1>1. Grows /\ UNCHANGED World /\ run.pc = "sink"
  BY Zenon DEF BrokerSink, World, Grows, Inv, Types
<1>2. {"select", "teardown"} \subseteq AllStages
  BY Zenon DEF AllStages
<1>3. SameRun(run, run') /\ run'.pc \in {"select", "teardown"}
  BY <1>2, GotoIs, Zenon DEF BrokerSink
<1> QED
  BY <1>1, <1>3, Moves, Zenon DEF Free

LEMMA ListenStep ==
    ASSUME Inv, NEW fault, BrokerListen(fault)
    PROVE  Inv'
<1>1. Grows /\ UNCHANGED World /\ run.pc = "listen"
  BY NotedHistory, Zenon DEF BrokerListen, World
<1>2. {"accept", "teardown"} \subseteq AllStages
  BY Zenon DEF AllStages, Waiting
<1>3. SameRun(run, run') /\ run'.pc \in {"accept", "teardown"}
  BY <1>2, GotoIs, Zenon DEF BrokerListen
<1> QED
  BY <1>1, <1>3, Moves, Zenon DEF Free

LEMMA ServeStep ==
    ASSUME Inv, NEW fault, BrokerServe(fault)
    PROVE  Inv'
<1>1. Grows /\ UNCHANGED <<kms, android>> /\ run.pc = "accept"
  BY NotedHistory, Zenon DEF BrokerServe
<1>2. "teardown" \in AllStages
  BY Zenon DEF AllStages
<1>3. SameRun(run, run') /\ run'.pc = "teardown"
  BY <1>2, GotoIs, Zenon DEF BrokerServe
<1>4. /\ lease \in Leases /\ lease.live /\ lease.holders = {"launcher"} /\ run.owner
      /\ child \in Children /\ ~ChildUp /\ run.program = "broker"
  BY <1>1 DEF Inv, Types, Runs, ProgramStages, LeaseShape, OwnerShape, Waiting
<1>5. /\ lease' \in Leases /\ lease'.live /\ child' \in Children
      /\ child'.opened => child'.sealed
      /\ "launcher" \in lease'.holders
      /\ ChildUp' <=> "child" \in lease'.holders
  <2>1. CASE fault = ""
    <3>1. lease' \in Leases /\ lease'.live /\ lease'.holders = {"launcher", "child"}
      <4>1. lease' = Inherited(lease, "child")
        BY <2>1, Zenon DEF BrokerServe, send_lease_fd
      <4> QED
        BY <1>4, <4>1, InheritedIs DEF Processes
    <3>2. child' \in Children /\ child'.state = "running" /\ ~child'.opened
      BY <2>1, StartedIs, Zenon DEF BrokerServe, Received
    <3> QED
      BY <3>1, <3>2, Zenon DEF ChildUp
  <2>2. CASE fault # ""
    <3>1. UNCHANGED <<lease, child>>
      BY <2>2, Zenon DEF BrokerServe, send_lease_fd, Received
    <3> QED
      BY <1>4, <3>1, Zenon DEF Inv, LeaseShape, ChildUp
  <2> QED
    BY <2>1, <2>2, Zenon
<1>6. Types'
  BY <1>1, <1>3, <1>4, <1>5, Zenon DEF Inv, Types, ProgramStages, SameRun, SameLaunch, Grows
<1>7. Shapes'
  BY <1>1, <1>3, <1>4, <1>5, Zenon DEF Inv, Shapes, LeaseShape, OwnerShape, ChildShape, DisabledShape,
         ForceShape, EndShape, SameRun, SameLaunch, Waiting, Using, Leaving
<1> QED
  BY <1>6, <1>7, Zenon DEF Inv, Shapes

LEMMA BrokerDoneStep ==
    ASSUME Inv, BrokerDone
    PROVE  Inv'
<1>1. UNCHANGED <<kms, android, child, history>> /\ Fresh
  BY EndedIs, Zenon DEF BrokerDone
<1>2. /\ lease' \in Leases /\ lease'.holders = lease.holders \ {"launcher"}
      /\ lease'.holders = {} => ~lease'.live
      /\ lease'.holders # {} => lease'.live = lease.live
  BY DroppedIs, Zenon DEF BrokerDone, Inv, Types
<1>3. LeaseShape'
  BY <1>1, <1>2, Zenon DEF Inv, LeaseShape, ChildUp
<1> QED
  BY <1>1, <1>2, <1>3, FreshStep, Zenon DEF Inv, Types
-----------------------------------------------------------------------------
LEMMA InvInit == BrokerInit => Inv
<1> SUFFICES ASSUME BrokerInit
             PROVE  Inv
  BY Zenon
<1>1. kms \in Kernels /\ kms.force = "detect"
  <2>1. PICK timing \in BOOLEAN : kms = [plugged |-> TRUE, force |-> "detect", scanout |-> {},
                                         timing |-> timing]
    BY Zenon DEF BrokerInit, Init
  <2> QED
    BY <2>1, Zenon DEF Kernels
<1>2. /\ lease \in Leases /\ ~lease.live /\ lease.holders = {}
      /\ child \in Children /\ ~ChildUp /\ ~child.opened
  BY Zenon DEF BrokerInit, Init, NoLease, NoChild, Leases, Children, ChildUp
<1>3. history \in Histories /\ android \in {"unmanaged", "absent", "on", "off"}
  BY Zenon DEF BrokerInit, Init, Histories
<1>4. /\ run \in Runs /\ run.pc = "start" /\ ~run.owner /\ ~run.disabled
      /\ run.found = kms.force
  <2>1. PICK p \in Programs : \E o \in Options(p) : run = Launch(p, o)
    BY Zenon DEF BrokerInit, Init
  <2>2. PICK o \in Options(p) : run = Launch(p, o)
    BY <2>1, Zenon
  <2>3. o \in SUBSET Flags /\ p \in {"active", "guarded", "manual", "broker"}
    BY <2>2, ProgramAssumption, Zenon DEF Options, Flags
  <2> QED
    BY <1>1, <2>2, <2>3, Zenon DEF Kernels, Runs, Launch, AllStages
<1>5. Types
  BY <1>1, <1>2, <1>3, <1>4, Zenon DEF Types, Runs, ProgramStages
<1>6. Shapes
  BY <1>1, <1>2, <1>4, Zenon DEF Shapes, LeaseShape, OwnerShape, ChildShape, DisabledShape, ForceShape,
         EndShape, Waiting, Using, Leaving
<1> QED
  BY <1>5, <1>6, Zenon DEF Inv, Shapes

LEMMA LauncherStep == Inv /\ Launcher => Inv'
<1> SUFFICES ASSUME Inv, Launcher
             PROVE  Inv'
  BY Zenon
<1>1. CASE \E fault \in MayFail(PrepareStages), k \in 0..Mounts : Prepare(fault, k)
  BY <1>1, PrepareStep, Zenon
<1>2. CASE \E fault \in MayFail({"state", "ambiguous"}) : observe_android_dp_ownership(fault)
  BY <1>2, ObserveStep, Zenon
<1>3. CASE \E fault \in MayFail({"force"}) :
             \/ wait_for_physical_edid(fault) \/ ForceOff(fault) \/ Activate(fault)
             \/ Teardown(fault)
  <2>1. PICK fault \in {"", "force"} :
               \/ wait_for_physical_edid(fault) \/ ForceOff(fault) \/ Activate(fault)
               \/ Teardown(fault)
    BY <1>3, FaultsOf, Zenon
  <2> QED
    BY <2>1, EdidStep, ForceOffStep, ActivateStep, TeardownStep, Zenon
<1>4. CASE \E fault \in MayFail({"display"}) : DisableDisplay(fault) \/ EnableDisplay(fault)
  <2>1. PICK fault \in {"", "display"} : DisableDisplay(fault) \/ EnableDisplay(fault)
    BY <1>4, FaultsOf, Zenon
  <2> QED
    BY <2>1, DisableStep, EnableStep, Zenon
<1>5. CASE \E fault \in MayFail({"state"}) :
             \/ wait_for_active_quiescence(fault) \/ wait_for_forced_off(fault)
             \/ wait_for_lease_connector(fault)
  BY <1>5, QuiesceStep, ForcedOffStep, ReadyStep, Zenon
<1>6. CASE (\E fault \in MayFail({"test"}) : SelectPlanes(fault)) \/ ValidatePlanes
  BY <1>6, SelectStep, ValidateStep, Zenon
<1>7. CASE \E fault \in MayFail({"create", "verify"}) :
             create_lease_fd(fault) \/ create_lease(fault)
  BY <1>7, CreateFdStep, CreateStep, Zenon
<1>8. CASE \E fault \in MayFail({"master", "resources"}) : PreflightManual(fault)
  BY <1>8, PreflightStep, Zenon
<1>9. CASE (\E fault \in MayFail({"exec"}) : Exec(fault)) \/ Hold \/ CloseLease
  BY <1>9, ExecStep, HoldStep, CloseStep, Zenon
<1>10. CASE (\E fault \in MayFail({"fork"}) : Fork(fault)) \/ InstallHandlers
  BY <1>10, ForkStep, HandlersStep, Zenon
<1>11. CASE run_inherited_child
  BY <1>11, ReapStep, Zenon DEF run_inherited_child
<1>12. CASE run_inherited_child_with_hotplug_monitor
  BY <1>12, HotplugStep, Zenon
<1>13. CASE wait_for_lease_disconnect \/ wait_for_restore
  BY <1>13, DisconnectStep, SettleStep, Zenon
<1>14. CASE \E fault \in MayFail({"revoke"}) : Revoke(fault)
  <2>1. PICK fault \in {"", "revoke"} : Revoke(fault)
    BY <1>14, FaultsOf, Zenon
  <2> QED
    BY <2>1, RevokeStep, Zenon
<1>15. CASE \E fault \in MayFail({"clear"}) : Restore(fault)
  <2>1. PICK fault \in {"", "clear"} : Restore(fault)
    BY <1>15, FaultsOf, Zenon
  <2> QED
    BY <2>1, RestoreStep, Zenon
<1> QED
  BY <1>1, <1>2, <1>3, <1>4, <1>5, <1>6, <1>7, <1>8, <1>9, <1>10, <1>11, <1>12, <1>13, <1>14, <1>15,
     Zenon DEF Launcher

LEMMA InvStep == Inv /\ [Next]_vars => Inv'
<1> SUFFICES ASSUME Inv, [Next]_vars
             PROVE  Inv'
  BY Zenon
<1>1. CASE Launcher
  BY <1>1, LauncherStep, Zenon
<1>2. CASE Environment
  BY <1>2, OpenStep, SlotStep, SpawnStep, ChildExitStep, OrphanExitStep, SignalStep, AgainStep,
     ReplugStep, FollowStep, ComposeStep, Zenon DEF Environment
<1>3. CASE Broker
  BY <1>3, ProbeStep, SinkStep, ListenStep, ServeStep, BrokerDoneStep, Zenon DEF Broker
<1>4. CASE UNCHANGED <<run, kms, android, lease, child, history>>
  <2>1. SameRun(run, run') /\ run'.pc = run.pc /\ UNCHANGED World /\ Grows
    BY <1>4, Zenon DEF Inv, Types, SameRun, SameLaunch, World, Grows
  <2> QED
    BY <2>1, Stays, Zenon
<1> QED
  BY <1>1, <1>2, <1>3, <1>4, Zenon DEF Next, Rival, vars

LEMMA InvCorrect == Spec => []Inv
BY InvInit, InvStep, PTL DEF Spec

(* While the active handoff's lease is out, the display it disabled shows  *)
(* nothing: wait_for_active_quiescence returned with no plane on the CRTC, *)
(* and the composer gives a display that is off none.                      *)
THEOREM QuietCorrect == Spec => []QuietWhileLeased
<1>1. Inv => QuietWhileLeased
  BY Zenon DEF Inv, DisabledShape, QuietWhileLeased
<1> QED
  BY <1>1, InvCorrect, PTL

(* A handoff gives the connector back only when nobody can use its lease:  *)
(* the active one has revoked it, and of the guarded one's holders only a  *)
(* descendant started before the shim sealed the descriptor can be left.   *)
THEOREM LeaseEndCorrect == Spec => []LeaseEndsWithHandoff
<1>1. Inv => LeaseEndsWithHandoff
  <2> SUFFICES ASSUME Inv, run.owner
               PROVE  /\ run.program = "active" /\ run.pc \in Leaving
                         => ~lease.live \/ Failed("revoke")
                      /\ run.program = "guarded" /\ run.pc \in {"restore", "done"}
                         => ~lease.live \/ child.early
    BY Zenon DEF LeaseEndsWithHandoff, Leaving
  <2>1. run.program = "active" /\ run.pc \in Leaving => ~lease.live \/ Failed("revoke")
    BY Zenon DEF Inv, EndShape
  <2>2. ASSUME run.program = "guarded", run.pc \in {"restore", "done"}, lease.live
        PROVE  child.early
    <3>1. lease.holders \in SUBSET Processes /\ lease.holders # {}
      BY <2>2, Zenon DEF Inv, Types, Leases, LeaseShape
    <3>2. "launcher" \notin lease.holders
      BY <2>2, Zenon DEF Inv, OwnerShape, Waiting, Using
    <3>3. "child" \notin lease.holders
      BY <2>2, Zenon DEF Inv, LeaseShape, ChildShape, Leaving
    <3>4. "orphan" \in lease.holders
      BY <3>1, <3>2, <3>3, Zenon DEF Processes
    <3> QED
      BY <2>2, <3>4, Zenon DEF Inv, ChildShape
  <2> QED
    BY <2>1, <2>2, Zenon
<1> QED
  BY <1>1, InvCorrect, PTL

(* Whichever step failed, a handoff that runs to its end has enabled       *)
(* Android's display again and cleared the force it wrote, but for the     *)
(* cases that AndroidPutBack names.                                        *)
THEOREM PutBackCorrect == Spec => []AndroidPutBack
<1>1. Inv => AndroidPutBack
  BY Zenon DEF Inv, Types, Runs, Kernels, DisabledShape, ForceShape, AndroidPutBack, Leaving
<1> QED
  BY <1>1, InvCorrect, PTL
=============================================================================
