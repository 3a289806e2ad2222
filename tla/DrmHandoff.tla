----------------------------- MODULE DrmHandoff -----------------------------
(***************************************************************************)
(* The programs that take a display from Android and lease it to Debian:   *)
(* active_drm_handoff ("active"), which detaches Android's logical display *)
(* and keeps the link's timing, drm_handoff ("guarded"), which forces the  *)
(* connector off first, and create_drm_lease ("manual").  The lease broker *)
(* is in LeaseBroker, which extends this module as its source includes     *)
(* these.                                                                  *)
(*                                                                         *)
(* One launcher runs at a time, step by step, while the rest moves on its  *)
(* own: the cable, the kernel's connector and CRTC, Android's composer,    *)
(* the process that was given the lease and its descendants, and whoever   *)
(* sends the launcher a signal.  A wait is a loop of polls; a poll is one  *)
(* step, so anything can happen between two of them.                       *)
(*                                                                         *)
(* A call that can fail is given the name of its failure in fault ("" when *)
(* it succeeds); history bounds how many fail in a behaviour.              *)
(***************************************************************************)
EXTENDS Integers, FiniteSets

CONSTANTS
    Programs,    \* the programs started in this instance
    Planes,      \* the planes that can show the CRTC
    Hint,        \* the plane named on the command line, first or alone
    Extras,      \* cursor planes and overlays exclusive to the CRTC
    Passing,     \* the planes an atomic TEST_ONLY commit accepts
    Slots,       \* MAX_LEASE_DUPLICATES entries of the seat shim's table
    Faults,      \* the failures of this instance
    MaxEvents,   \* bounds of the model: failures, signals and cable changes
    MaxRuns,     \* together, and launches
    Polls,       \* iterations before a wait gives up (20, 40 or 80)
    Settle,      \* of which the quiescence wait does not judge (20)
    Steady,      \* consecutive good samples a wait asks for (12, 8 or 4)
    Reprobe,     \* the iteration at which the EDID wait reprobes (8)
    Absent,      \* samples without a sink that make an unplug (4)
    Patience     \* samples between SIGTERM and SIGKILL (20)

ASSUME PollAssumption ==
    /\ {Polls, Settle, Steady, Reprobe, Absent, Patience} \subseteq Nat
    /\ 0 < Steady /\ Settle + Steady <= Polls
    /\ 0 < Absent /\ 0 < Patience

ASSUME PlaneAssumption ==
    /\ Hint \in Planes
    /\ Extras \subseteq Planes \ {Hint}
    /\ Passing \subseteq Planes

ASSUME ProgramAssumption == Programs \subseteq {"active", "guarded", "manual", "broker"}

VARIABLES
    kms,      \* cable, connector force, CRTC timing, planes Android scans out
    android,  \* Android's display: "unmanaged", "absent", "on" or "off"
    lease,    \* the kernel's lease: its planes and the processes that hold it
    run,      \* the launcher
    child,    \* the process the launcher gave the lease to
    mounted,  \* how many of the rootfs mounts exist
    history   \* what this behaviour has used of its bounds

NoLease == [live |-> FALSE, planes |-> {}, holders |-> {}]
NoChild ==
    [state |-> "none", opened |-> FALSE, sealed |-> FALSE, early |-> FALSE, table |-> {},
     objects |-> {}]

Mounts == 5     \* /dev, /sys, /proc, /dev/shm, /run, in this order

Options(program) ==
    CASE program = "active"  -> {{}, {"keep"}, {"display_id"}, {"several"}}
      [] program = "guarded" -> {{}, {"keep"}}
      [] program = "manual"  -> {{}, {"create"}, {"create", "hold"}, {"create", "exec"}}
      [] program = "broker"  -> {{}, {"preflight"}, {"allow_active"}, {"explicit"},
                                  {"explicit", "several"}}

Launch(program, options) ==
    [program |-> program, options |-> options, pc |-> "start", polls |-> 0, good |-> 0,
     connected |-> FALSE, occupied |-> FALSE, disabled |-> FALSE, forced |-> FALSE,
     unplugged |-> FALSE, handlers |-> FALSE, stop |-> FALSE, objects |-> {},
     owner |-> FALSE, found |-> kms.force]

Init ==
    /\ \E managed \in {"unmanaged", "absent", "on"}, timing \in BOOLEAN :
         /\ android = managed
         /\ kms = [plugged |-> TRUE, force |-> "detect", scanout |-> {},
                   timing |-> timing \/ managed = "on"]
    /\ lease = NoLease
    /\ \E p \in Programs : \E o \in Options(p) : run = Launch(p, o)
    /\ child = NoChild
    /\ mounted = 0
    /\ history = [failed |-> {}, events |-> 0, runs |-> 1]
-----------------------------------------------------------------------------
(* Failures.  A step picks one of the failures it can meet, or none.       *)
MayFail(stages) ==
    {""} \cup (IF history.events < MaxEvents THEN stages \cap Faults ELSE {})

(* The failures that a later step or a property asks about.                *)
Remembered == {"query", "clear", "display", "revoke"}

Noted(fault) ==
    IF fault = "" THEN history
    ELSE [history EXCEPT !.failed = @ \cup ({fault} \cap Remembered), !.events = @ + 1]

Failed(fault) == fault \in history.failed

Goto(pc) == [run EXCEPT !.pc = pc, !.polls = 0, !.good = 0]

(* An option that is not read again is dropped; a launcher that restores   *)
(* nothing keeps nothing when it ends.                                     *)
Without(state, option) == [state EXCEPT !.options = @ \ {option}]

Ended(pc) == [Launch(run.program, {}) EXCEPT !.pc = pc]
-----------------------------------------------------------------------------
(* The kernel.  The connector is connected when a sink is there and it is  *)
(* not forced off; a lease dies with its last descriptor.                  *)
Connected == kms.plugged /\ kms.force # "off"

(* read_path_state: active when an encoder, a mode or a plane is attached. *)
PathActive == kms.timing \/ kms.scanout # {}

Dropped(l, process) ==
    LET left == l.holders \ {process} IN
    IF left = {} THEN NoLease ELSE [l EXCEPT !.holders = left]

Inherited(l, process) ==
    IF l.live THEN [l EXCEPT !.holders = @ \cup {process}] ELSE l

(* A write of the connector's status file; the failure of one at the end   *)
(* of a handoff, which clears the force, is told apart from the others.    *)
write_connector_force(value, fault) ==
    IF fault \in {"force", "clear"} THEN kms ELSE [kms EXCEPT !.force = value]

(* The status file says connected and the EDID has its header: both are    *)
(* what the driver read from the sink.                                     *)
physical_sink_present_now == Connected
-----------------------------------------------------------------------------
(* Preparation.  Nothing but the rootfs mounts is changed, and a mount     *)
(* that failed leaves those before it.                                     *)
ensure_rootfs_mounts(fault, k) ==
    IF fault = "mount" THEN k >= mounted /\ k < Mounts ELSE k = Mounts

(* A duplicate of a descriptor that is the current DRM master; of several, *)
(* the one that shows most objects, and none when its resources cannot be  *)
(* loaded (they changed between the two passes).                           *)
find_master(fault) == fault # "master"
load_resources(fault) == fault # "resources"
auto_find_master(fault) == find_master(fault) /\ load_resources(fault)

(* One connector and one CRTC among the objects given, and the connector's *)
(* status file.                                                            *)
select_path_ids(fault) == fault # "objects"
resolve_connector_status_path(fault) == fault # "path"

PathFound(fault) ==
    /\ auto_find_master(fault)
    /\ select_path_ids(fault)
    /\ resolve_connector_status_path(fault)

PrepareStages == {"mount", "master", "resources", "objects", "path", "query"}

(* main of both handoffs, up to its first change of the display.  A query  *)
(* of Android's displays that does not work is found out here, and stays   *)
(* so.                                                                     *)
Prepare(fault, k) ==
    /\ run.pc = "start"
    /\ run.program \in {"active", "guarded"}
    /\ ensure_rootfs_mounts(fault, k)
    /\ mounted' = k
    /\ run' = IF fault = "mount" \/ ~PathFound(fault) THEN Goto("done")
              ELSE IF run.program = "active"
                   THEN [Goto("observe") EXCEPT !.connected = Connected]
                   ELSE [Goto("force_off") EXCEPT !.connected = Connected \/ PathActive]
    /\ history' = Noted(fault)
    /\ UNCHANGED <<kms, android, lease, child>>
-----------------------------------------------------------------------------
(* active: is Android showing something here?  One display id settles it;  *)
(* planes seen without one need the id from the command line.              *)
capture_external_display_ids(fault) ==
    IF Failed("query") THEN "failed"
    ELSE IF fault = "ambiguous" THEN "many"
    ELSE IF android = "on" THEN "one" ELSE "none"

Observed(occupied) ==
    Without([Goto(IF occupied \/ run.connected THEN "edid" ELSE "restore")
               EXCEPT !.occupied = occupied], "display_id")

observe_android_dp_ownership(fault) ==
    /\ run.pc = "observe"
    /\ LET ids == capture_external_display_ids(fault)
           saw == IF kms.scanout # {} THEN 1 ELSE run.good
       IN run' = CASE fault = "state" \/ ids = "many" -> Goto("done")
                   [] fault # "state" /\ ids = "one" -> Observed(TRUE)
                   [] fault # "state" /\ ids \in {"none", "failed"} ->
                        IF run.polls + 1 < Polls
                        THEN [run EXCEPT !.polls = @ + 1, !.good = saw]
                        ELSE IF saw = 0 THEN Observed(FALSE)
                        ELSE IF "display_id" \in run.options /\ ids # "failed"
                             THEN Observed(TRUE)
                             ELSE Goto("done")
    /\ history' = Noted(fault)
    /\ UNCHANGED <<kms, android, lease, child, mounted>>

(* A sink whose EDID can be read; halfway a detect reprobe is requested.   *)
wait_for_physical_edid(fault) ==
    /\ run.pc = "edid"
    /\ IF Connected
       THEN /\ run' = Goto(IF run.occupied THEN "disable" ELSE "select")
            /\ UNCHANGED <<kms, history>>
       ELSE /\ kms' = IF run.polls = Reprobe THEN write_connector_force("detect", fault) ELSE kms
            /\ run' = IF run.polls + 1 < Polls THEN [run EXCEPT !.polls = @ + 1]
                      ELSE Goto("restore")
            /\ history' = IF run.polls = Reprobe THEN Noted(fault) ELSE history
    /\ UNCHANGED <<android, lease, child, mounted>>

(* cmd display, under the shell's identity: it can fail, and an id that    *)
(* Android dropped makes it fail.                                          *)
run_display_action(fault) == fault # "display" /\ android \in {"on", "off"}

DisableDisplay(fault) ==
    /\ run.pc = "disable"
    /\ IF run_display_action(fault)
       THEN /\ android' = "off"
            /\ run' = [Goto("quiesce") EXCEPT !.disabled = TRUE]
       ELSE /\ run' = Goto("teardown")
            /\ UNCHANGED android
    /\ history' = Noted(fault)
    /\ UNCHANGED <<kms, lease, child, mounted>>

(* Mutant: planes still on the CRTC are not looked at.                     *)
Quiescent_notPlanes == Connected /\ kms.timing

(* Timing still running, no plane on the CRTC.                             *)
Quiescent == Connected /\ kms.timing /\ kms.scanout = {}

wait_for_active_quiescence(fault) ==
    /\ run.pc = "quiesce"
    /\ LET quiet == IF run.polls < Settle \/ ~Quiescent THEN 0 ELSE run.good + 1 IN
       run' = IF fault = "state" THEN Goto("teardown")
              ELSE IF quiet >= Steady THEN Goto("select")
              ELSE IF run.polls + 1 < Polls
                   THEN [run EXCEPT !.polls = @ + 1, !.good = quiet]
                   ELSE Goto("teardown")
    /\ history' = Noted(fault)
    /\ UNCHANGED <<kms, android, lease, child, mounted>>
-----------------------------------------------------------------------------
(* The planes to lease: the hinted one when it is idle and passes the      *)
(* atomic test, else another that does, with every idle extra; nothing     *)
(* without timing to test with.  Several planes named on the command line  *)
(* are taken as they are, untested.  The broker with --auto hints at some  *)
(* idle plane.                                                             *)
Idle(planes) == planes \cap kms.scanout = {}

Named == IF "several" \in run.options THEN Planes ELSE {Hint}

ah_atomic_test_plane(p, fault) == p \in Passing /\ fault # "test"

Candidates(fault) == {p \in Planes : Idle({p}) /\ ah_atomic_test_plane(p, fault)}

HintKnown == run.program = "active" \/ "explicit" \in run.options

Tested(fault) ==
    IF ~kms.timing THEN {}
    ELSE IF HintKnown /\ Hint \in Candidates(fault) THEN {Hint}
    ELSE Candidates(fault)

ExtraPlanes == {p \in Extras : Idle({p})}

auto_select_atomic_plane(fault) ==
    IF Named # {Hint} THEN {Named}
    ELSE {{p} \cup ExtraPlanes : p \in Tested(fault)}

(* Every plane to lease is idle, and there is one.                         *)
validate_disconnected_lease_path(planes) == planes # {} /\ Idle(planes)

SelectPlanes(fault) ==
    /\ run.pc = "select"
    /\ \/ /\ auto_select_atomic_plane(fault) = {}
          /\ run' = Goto("teardown")
       \/ \E planes \in auto_select_atomic_plane(fault) :
            run' = [Goto("validate") EXCEPT !.objects = planes]
    /\ history' = Noted(fault)
    /\ UNCHANGED <<kms, android, lease, child, mounted>>

ValidatePlanes ==
    /\ run.pc = "validate"
    /\ run' = IF validate_disconnected_lease_path(run.objects) /\ "preflight" \notin run.options
              THEN Goto("create") ELSE Without(Goto("teardown"), "preflight")
    /\ UNCHANGED <<kms, android, lease, child, mounted, history>>

(* guarded: the connector is forced off, stays off and idle for a while,   *)
(* and only then are the planes looked at.                                 *)
ForceOff(fault) ==
    /\ run.pc = "force_off"
    /\ kms' = write_connector_force("off", fault)
    /\ run' = IF fault = "" THEN [Goto("wait_off") EXCEPT !.forced = TRUE]
              ELSE Goto("restore")
    /\ history' = Noted(fault)
    /\ UNCHANGED <<android, lease, child, mounted>>

wait_for_forced_off(fault) ==
    /\ run.pc = "wait_off"
    /\ LET idle == IF Connected \/ PathActive THEN 0 ELSE run.good + 1 IN
       run' = IF fault = "state" THEN Goto("restore")
              ELSE IF idle >= Steady
                   THEN IF validate_disconnected_lease_path({Hint})
                        THEN [Goto("create") EXCEPT !.objects = {Hint}]
                        ELSE Goto("restore")
              ELSE IF run.polls + 1 < Polls
                   THEN [run EXCEPT !.polls = @ + 1, !.good = idle]
                   ELSE Goto("restore")
    /\ history' = Noted(fault)
    /\ UNCHANGED <<kms, android, lease, child, mounted>>

(* CREATE_LEASE, refused while another lease holds the objects.  The       *)
(* handoffs close a lease that does not list what they asked for.          *)
verify_lease_fd(fault) == fault # "verify"

Created(fault) ==
    IF lease.live \/ fault = "create" THEN lease
    ELSE [live |-> TRUE, planes |-> IF verify_lease_fd(fault) THEN run.objects ELSE {},
          holders |-> {"launcher"}]

Owned(fault) == ~lease.live /\ fault # "create" /\ verify_lease_fd(fault)

create_lease_fd(fault) ==
    /\ run.pc = "create"
    /\ run.program \in {"active", "guarded", "broker"}
    /\ lease' = IF Owned(fault) THEN Created(fault) ELSE lease
    /\ run' = IF ~Owned(fault) THEN Goto("teardown")
              ELSE [Goto(CASE run.program = "active" -> "fork"
                           [] run.program = "guarded" -> "activate"
                           [] run.program = "broker" -> "listen") EXCEPT !.owner = TRUE]
    /\ history' = Noted(fault)
    /\ UNCHANGED <<kms, android, child, mounted>>

(* guarded: only now that it is leased may the connector come back.        *)
Activate(fault) ==
    /\ run.pc = "activate"
    /\ kms' = write_connector_force("detect", fault)
    /\ run' = Goto(IF fault = "" THEN "ready" ELSE "teardown")
    /\ history' = Noted(fault)
    /\ UNCHANGED <<android, lease, child, mounted>>

wait_for_lease_connector(fault) ==
    /\ run.pc = "ready"
    /\ LET ready == IF Connected THEN run.good + 1 ELSE 0 IN
       run' = IF fault = "state" THEN Goto("teardown")
              ELSE IF ready >= Steady THEN Goto("fork")
              ELSE IF run.polls + 1 < Polls
                   THEN [run EXCEPT !.polls = @ + 1, !.good = ready]
                   ELSE Goto("teardown")
    /\ history' = Noted(fault)
    /\ UNCHANGED <<kms, android, lease, child, mounted>>
-----------------------------------------------------------------------------
(* manual: refused unless the path is connected and entirely unused.       *)
preflight == Connected /\ ~kms.timing /\ Idle({Hint})

PreflightManual(fault) ==
    /\ run.pc = "start"
    /\ run.program = "manual"
    /\ run' = IF find_master(fault) /\ load_resources(fault) /\ preflight /\ "create" \in run.options
              THEN [Goto("create") EXCEPT !.objects = {Hint}] ELSE Ended("done")
    /\ history' = Noted(fault)
    /\ UNCHANGED <<kms, android, lease, child, mounted>>

(* A lease that does not list what was asked for is kept, with a warning.  *)
create_lease(fault) ==
    /\ run.pc = "create"
    /\ run.program = "manual"
    /\ lease' = Created(fault)
    /\ run' = IF lease.live \/ fault = "create" THEN Ended("done")
              ELSE [Goto(IF "exec" \in run.options THEN "exec"
                         ELSE IF "hold" \in run.options THEN "hold_handlers" ELSE "close")
                      EXCEPT !.owner = TRUE]
    /\ history' = Noted(fault)
    /\ UNCHANGED <<kms, android, child, mounted>>

(* execvp: the launcher turns into the lease's user, or closes the lease.  *)
Exec(fault) ==
    /\ run.pc = "exec"
    /\ run' = Ended("done")
    /\ IF fault = "exec" THEN lease' = Dropped(lease, "launcher") /\ UNCHANGED child
       ELSE /\ lease' = Dropped(Inherited(lease, "child"), "launcher")
            /\ child' = [NoChild EXCEPT !.state = "running", !.objects = run.objects]
    /\ history' = Noted(fault)
    /\ UNCHANGED <<kms, android, mounted>>

(* while (!stop_holding) pause(): the test, the call and the sleep are     *)
(* three moments, and a signal can come at each.                           *)
Hold ==
    /\ \/ /\ run.pc = "hold_handlers"
          /\ run' = [Goto("hold") EXCEPT !.handlers = TRUE]
       \/ /\ run.pc = "hold"
          /\ run' = Goto(IF run.stop THEN "close" ELSE "pausing")
       \/ /\ run.pc = "pausing"
          /\ run' = Goto("paused")
    /\ UNCHANGED <<kms, android, lease, child, mounted, history>>

CloseLease ==
    /\ run.pc = "close"
    /\ lease' = Dropped(lease, "launcher")
    /\ run' = Ended("done")
    /\ UNCHANGED <<kms, android, child, mounted, history>>
-----------------------------------------------------------------------------
(* The child.  It inherits the lease when it is forked; the handlers that  *)
(* forward a signal to its group are installed after that.                 *)
prepare_lease_environment(l) == Inherited(l, "child")

Fork(fault) ==
    /\ run.pc = "fork"
    /\ IF fault = "fork"
       THEN run' = Goto("teardown") /\ UNCHANGED <<lease, child>>
       ELSE /\ run' = Goto("handlers")
            /\ lease' = prepare_lease_environment(lease)
            /\ child' = [NoChild EXCEPT !.state = "running", !.objects = run.objects]
    /\ history' = Noted(fault)
    /\ UNCHANGED <<kms, android, mounted>>

InstallHandlers ==
    /\ run.pc = "handlers"
    /\ run' = [Goto("wait") EXCEPT !.handlers = TRUE]
    /\ UNCHANGED <<kms, android, lease, child, mounted, history>>

(* guarded: a blocking waitpid.                                            *)
run_inherited_child ==
    /\ run.pc = "wait"
    /\ run.program = "guarded"
    /\ child.state = "gone"
    /\ run' = Goto("teardown")
    /\ UNCHANGED <<kms, android, lease, child, mounted, history>>

(* Mutant: a child that ignores SIGTERM is waited for without end.         *)
Killed_never(terminating, samples) == FALSE

Killed(terminating, samples) == terminating /\ samples >= Patience

(* active: one turn of the loop: reap the child, else look for the sink.   *)
(* good counts the samples without one, polls those since SIGTERM.         *)
run_inherited_child_with_hotplug_monitor ==
    /\ run.pc = "wait"
    /\ run.program = "active"
    /\ LET absent == IF physical_sink_present_now THEN 0 ELSE run.good + 1 IN
       IF child.state = "gone" THEN run' = Goto("teardown") /\ UNCHANGED child
       ELSE IF ~run.unplugged
            THEN /\ run' = IF absent >= Absent
                           THEN [run EXCEPT !.unplugged = TRUE, !.good = 0]
                           ELSE [run EXCEPT !.good = absent]
                 /\ child' = IF absent >= Absent THEN [child EXCEPT !.state = "asked"]
                             ELSE child
            ELSE /\ run' = [run EXCEPT !.polls = IF @ < Patience THEN @ + 1 ELSE @]
                 /\ child' = IF Killed(run.unplugged, run.polls + 1)
                             THEN [child EXCEPT !.state = "killed"] ELSE child
    /\ UNCHANGED <<kms, android, lease, mounted, history>>
-----------------------------------------------------------------------------
(* Teardown.  With a lease the connector is forced off, the lessee given   *)
(* time to see it, then (active) the lease is revoked through its lessor   *)
(* and the launcher's descriptor closed.                                   *)
Teardown(fault) ==
    /\ run.pc = "teardown"
    /\ run.program \in {"active", "guarded"}
    /\ IF "launcher" \in lease.holders
       THEN /\ kms' = write_connector_force("off", fault)
            /\ run' = Goto(IF fault = "" THEN "disconnect" ELSE "revoke")
            /\ history' = Noted(fault)
       ELSE /\ run' = Goto("restore")
            /\ kms' = IF run.disabled THEN write_connector_force("off", fault) ELSE kms
            /\ history' = IF run.disabled THEN Noted(fault) ELSE history
    /\ UNCHANGED <<android, lease, child, mounted>>

(* Whether the lessee saw it or the wait gave up, the teardown goes on.    *)
wait_for_lease_disconnect ==
    /\ run.pc = "disconnect"
    /\ run' = Goto("revoke")
    /\ UNCHANGED <<kms, android, lease, child, mounted, history>>

(* The master that controls the lessee is looked for anew.                 *)
ah_revoke_lessee(l, fault) == IF fault = "revoke" THEN l ELSE NoLease

Revoke(fault) ==
    /\ run.pc = "revoke"
    /\ lease' = Dropped(IF run.program = "active" THEN ah_revoke_lessee(lease, fault)
                        ELSE lease, "launcher")
    /\ run' = Goto("restore")
    /\ history' = Noted(fault)
    /\ UNCHANGED <<kms, android, child, mounted>>

(* What main clears at its end: the last two branches for active           *)
(* (connector_touched is never set there), the last for guarded.           *)
ForceTouched == IF run.program = "active" THEN run.unplugged \/ run.disabled ELSE run.forced

(* Mutant: only a handoff that got its lease restores.                     *)
RestoreAndroid_leased ==
    /\ "keep" \notin run.options /\ run.owner
    /\ IF run.program = "active" THEN run.occupied /\ ~run.unplugged ELSE run.connected

RestoreAndroid ==
    /\ "keep" \notin run.options
    /\ IF run.program = "active" THEN run.occupied /\ ~run.unplugged ELSE run.connected

RestoreIdle ==
    /\ run.program = "active"
    /\ ~run.occupied /\ run.connected /\ ~run.unplugged
    /\ "keep" \notin run.options

Restore(fault) ==
    /\ run.pc = "restore"
    /\ run.program \in {"active", "guarded"}
    /\ IF RestoreAndroid \/ RestoreIdle \/ ForceTouched
       THEN kms' = write_connector_force("detect", fault) /\ history' = Noted(fault)
       ELSE UNCHANGED <<kms, history>>
    /\ run' = IF run.program = "active" /\ (RestoreAndroid \/ RestoreIdle) /\ fault = ""
              THEN Goto("settle") ELSE Goto("done")
    /\ UNCHANGED <<android, lease, child, mounted>>

(* wait_for_restore and the EDID wait after it: the restore goes on when a *)
(* sink is there and when they give up.                                    *)
wait_for_restore ==
    /\ run.pc = "settle"
    /\ run' = Goto(IF RestoreAndroid /\ run.disabled THEN "enable" ELSE "done")
    /\ UNCHANGED <<kms, android, lease, child, mounted, history>>

EnableDisplay(fault) ==
    /\ run.pc = "enable"
    /\ android' = IF run_display_action(fault) THEN "on" ELSE android
    /\ run' = Goto("done")
    /\ history' = Noted(fault)
    /\ UNCHANGED <<kms, lease, child, mounted>>
-----------------------------------------------------------------------------
(* The process that was given the lease, with the seat shim loaded.  The   *)
(* shim duplicates the inherited descriptor for the compositor and marks   *)
(* the inherited one close-on-exec; until then, whatever the child starts  *)
(* inherits the lease too.                                                 *)
Alive == child.state \in {"running", "asked"}

(* Mutant: the inherited descriptor stays inheritable.                     *)
Sealed_not(c) == c

Sealed(c) == [c EXCEPT !.sealed = TRUE]

(* The environment names a descriptor of the device to be opened.          *)
target_identity_matches(fault) == fault # "seat"

(* Only a live lease of exactly the objects announced is duplicated.       *)
adbr_lease_dup_validate_v1 == lease.live /\ lease.planes = child.objects

(* Refused with the table full, too, after the descriptor was sealed.      *)
libseat_open_device(fault) ==
    /\ Alive
    /\ IF ~target_identity_matches(fault) \/ ~adbr_lease_dup_validate_v1 THEN UNCHANGED child
       ELSE IF child.table = Slots THEN child' = Sealed(child)
       ELSE \E slot \in Slots \ child.table :
              child' = [Sealed(child) EXCEPT !.table = @ \cup {slot}, !.opened = TRUE]
    /\ history' = Noted(fault)
    /\ UNCHANGED <<kms, android, lease, run, mounted>>

(* The slot is freed; its descriptor belongs to the application.           *)
libseat_close_device ==
    /\ Alive
    /\ \E slot \in child.table : child' = [child EXCEPT !.table = @ \ {slot}]
    /\ UNCHANGED <<kms, android, lease, run, mounted, history>>

(* fork and exec of another program; early: of those that have the lease,  *)
(* one was started before the device was opened.                           *)
ChildSpawns ==
    /\ Alive
    /\ "orphan" \notin lease.holders
    /\ lease.live /\ ~child.sealed
    /\ child' = [child EXCEPT !.early = ~child.opened]
    /\ lease' = Inherited(lease, "orphan")
    /\ UNCHANGED <<kms, android, run, mounted, history>>

ChildExits ==
    /\ Alive \/ child.state = "killed"
    /\ child' = [child EXCEPT !.state = "gone", !.table = {}]
    /\ lease' = Dropped(lease, "child")
    /\ UNCHANGED <<kms, android, run, mounted, history>>

OrphanExits ==
    /\ "orphan" \in lease.holders
    /\ lease' = Dropped(lease, "orphan")
    /\ child' = [child EXCEPT !.early = FALSE]
    /\ UNCHANGED <<kms, android, run, mounted, history>>
-----------------------------------------------------------------------------
(* SIGINT or SIGTERM.  It ends a launcher that has no handler yet, and the *)
(* kernel closes its descriptors; later it is passed on to the child's     *)
(* group, or ends the hold of a manual lease.                              *)
Signal ==
    /\ run.pc \notin {"done", "dead"}
    /\ history.events < MaxEvents
    /\ history' = [history EXCEPT !.events = @ + 1]
    /\ IF ~run.handlers
       THEN /\ run' = Ended("dead")
            /\ lease' = Dropped(lease, "launcher")
            /\ UNCHANGED child
       ELSE /\ run' = IF run.program # "manual" THEN run
                      ELSE [run EXCEPT !.stop = TRUE,
                                       !.pc = IF @ = "paused" THEN "hold" ELSE @]
            /\ child' = IF run.pc = "wait" /\ child.state = "running"
                        THEN [child EXCEPT !.state = "asked"] ELSE child
            /\ UNCHANGED lease
    /\ UNCHANGED <<kms, android, mounted>>

(* The next launch, whatever the last one left behind.                     *)
Again ==
    /\ run.pc \in {"done", "dead"}
    /\ history.runs < MaxRuns
    /\ history' = [history EXCEPT !.runs = @ + 1, !.failed = {}]
    /\ \E p \in Programs : \E o \in Options(p) : run' = Launch(p, o)
    /\ child' = IF child.state = "gone" THEN NoChild ELSE child
    /\ UNCHANGED <<kms, android, lease, mounted>>

(* The cable.                                                              *)
Replug ==
    /\ history.events < MaxEvents
    /\ history' = [history EXCEPT !.events = @ + 1]
    /\ kms' = [kms EXCEPT !.plugged = ~@]
    /\ UNCHANGED <<android, lease, run, child, mounted>>

(* Android follows the connector at its own pace; a display that was       *)
(* disabled stays so until it is enabled again.                            *)
AndroidFollows ==
    /\ \/ /\ android = "absent" /\ Connected
          /\ android' = "on"
       \/ /\ android = "on" /\ ~Connected
          /\ android' = "absent"
    /\ UNCHANGED <<kms, lease, run, child, mounted, history>>

(* The composer shows an enabled display on some plane, takes the plane    *)
(* off one that is disabled or gone, and stops the timing of a connector   *)
(* that is disconnected.                                                   *)
Compose ==
    /\ \/ /\ android = "on" /\ Connected /\ kms.scanout = {}
          /\ \E p \in Planes : kms' = [kms EXCEPT !.scanout = {p}, !.timing = TRUE]
       \/ /\ kms.scanout # {} /\ (android # "on" \/ ~Connected)
          /\ kms' = [kms EXCEPT !.scanout = {}]
       \/ /\ kms.timing /\ kms.scanout = {} /\ ~Connected
          /\ kms' = [kms EXCEPT !.timing = FALSE]
    /\ UNCHANGED <<android, lease, run, child, mounted, history>>
-----------------------------------------------------------------------------
Launcher ==
    /\ run.pc \notin {"done", "dead"}
    /\ \/ \E fault \in MayFail(PrepareStages), k \in 0..Mounts : Prepare(fault, k)
       \/ \E fault \in MayFail({"state", "ambiguous"}) : observe_android_dp_ownership(fault)
       \/ \E fault \in MayFail({"force"}) :
            \/ wait_for_physical_edid(fault)
            \/ ForceOff(fault)
            \/ Activate(fault)
            \/ Teardown(fault)
       \/ \E fault \in MayFail({"clear"}) : Restore(fault)
       \/ \E fault \in MayFail({"display"}) : DisableDisplay(fault) \/ EnableDisplay(fault)
       \/ \E fault \in MayFail({"state"}) :
            \/ wait_for_active_quiescence(fault)
            \/ wait_for_forced_off(fault)
            \/ wait_for_lease_connector(fault)
       \/ \E fault \in MayFail({"test"}) : SelectPlanes(fault)
       \/ ValidatePlanes
       \/ \E fault \in MayFail({"create", "verify"}) : create_lease_fd(fault) \/ create_lease(fault)
       \/ \E fault \in MayFail({"master", "resources"}) : PreflightManual(fault)
       \/ \E fault \in MayFail({"exec"}) : Exec(fault)
       \/ Hold
       \/ CloseLease
       \/ \E fault \in MayFail({"fork"}) : Fork(fault)
       \/ InstallHandlers
       \/ run_inherited_child
       \/ run_inherited_child_with_hotplug_monitor
       \/ wait_for_lease_disconnect
       \/ \E fault \in MayFail({"revoke"}) : Revoke(fault)
       \/ wait_for_restore

Environment ==
    \/ \E fault \in MayFail({"seat"}) : libseat_open_device(fault)
    \/ libseat_close_device
    \/ ChildSpawns
    \/ ChildExits
    \/ OrphanExits
    \/ Signal
    \/ Again
    \/ Replug
    \/ AndroidFollows
    \/ Compose
=============================================================================
