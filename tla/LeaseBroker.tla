---------------------------- MODULE LeaseBroker ----------------------------
(***************************************************************************)
(* The root lease broker beside the launchers of DrmHandoff: it creates    *)
(* the lease, waits on a named socket for one client, sends it the         *)
(* descriptor and ends; the client execs the program that uses it.  The    *)
(* broker is one of the programs a launch may start; Rival stands for any  *)
(* other broker run on the same path, of which only the unlink at its end  *)
(* matters here.                                                           *)
(***************************************************************************)
EXTENDS DrmHandoff

VARIABLE socket     \* the path names: nothing, or the broker's socket

vars == <<kms, android, lease, run, child, mounted, history, socket>>

BrokerInit == Init /\ socket = "none"
-----------------------------------------------------------------------------
(* Only a run that will create needs the identity of root.                 *)
broker_has_root_equivalent_identity(fault) ==
    fault # "identity" \/ "preflight" \in run.options

(* The one connected DisplayPort, with a current encoder, CRTC and mode,   *)
(* and an idle plane for it.                                               *)
broker_auto_select_objects(fault) ==
    /\ fault # "objects"
    /\ Connected /\ kms.timing
    /\ \E p \in Planes : Idle({p})

(* main up to the reprobe.  The objects are looked for (--auto) or named   *)
(* on the command line; those must be of a connected connector, too.       *)
BrokerAdmitted(fault) ==
    /\ broker_has_root_equivalent_identity(fault)
    /\ auto_find_master(fault)
    /\ IF "explicit" \in run.options THEN select_path_ids(fault)
       ELSE broker_auto_select_objects(fault)
    /\ kms.scanout = {} \/ "allow_active" \in run.options
    /\ Connected
    /\ resolve_connector_status_path(fault)

BrokerProbe(fault) ==
    /\ run.pc = "start"
    /\ run.program = "broker"
    /\ IF BrokerAdmitted(fault)
       THEN /\ kms' = write_connector_force("detect", fault)
            /\ run' = Without(Goto(IF fault = "force" THEN "teardown" ELSE "sink"), "allow_active")
       ELSE /\ run' = Without(Goto("teardown"), "allow_active")
            /\ UNCHANGED kms
    /\ history' = Noted(fault)
    /\ UNCHANGED <<android, lease, child, mounted, socket>>

(* The sink must still be there 750 ms after the reprobe.                  *)
BrokerSink ==
    /\ run.pc = "sink"
    /\ run' = Goto(IF physical_sink_present_now THEN "select" ELSE "teardown")
    /\ UNCHANGED <<kms, android, lease, child, mounted, history, socket>>

(* unlink, bind, chmod, listen: whatever the path named, it names this     *)
(* broker's socket now.                                                    *)
BrokerListen(fault) ==
    /\ run.pc = "listen"
    /\ socket' = IF fault = "socket" THEN "none" ELSE "ours"
    /\ run' = Goto(IF fault = "socket" THEN "teardown" ELSE "accept")
    /\ history' = Noted(fault)
    /\ UNCHANGED <<kms, android, lease, child, mounted>>

(* A client connects through the path; it is served when it has the        *)
(* broker's own uid and context.                                           *)
send_lease_fd(fault) == IF fault = "" THEN Inherited(lease, "child") ELSE lease

(* The client takes the one descriptor of the reply and execs.             *)
Received(fault) ==
    IF fault # "" THEN child
    ELSE [NoChild EXCEPT !.state = "running", !.objects = run.objects]

BrokerServe(fault) ==
    /\ run.pc = "accept"
    /\ socket = "ours"
    /\ lease' = send_lease_fd(fault)
    /\ child' = Received(fault)
    /\ run' = Goto("teardown")
    /\ history' = Noted(fault)
    /\ UNCHANGED <<kms, android, mounted, socket>>

(* done: the broker's copy is closed and the path unlinked, on every way   *)
(* out, whoever's socket it names.                                         *)
BrokerDone ==
    /\ run.pc = "teardown"
    /\ run.program = "broker"
    /\ lease' = Dropped(lease, "launcher")
    /\ socket' = "none"
    /\ run' = Ended("done")
    /\ UNCHANGED <<kms, android, child, mounted, history>>

(* Another broker, refused or --preflight-only, ends.                      *)
Rival ==
    /\ socket = "ours"
    /\ socket' = "none"
    /\ UNCHANGED <<kms, android, lease, run, child, mounted, history>>
-----------------------------------------------------------------------------
Broker ==
    \/ \E fault \in MayFail({"identity", "master", "resources", "objects", "path", "force"}) :
         BrokerProbe(fault)
    \/ BrokerSink
    \/ \E fault \in MayFail({"socket"}) : BrokerListen(fault)
    \/ \E fault \in MayFail({"peer", "send"}) : BrokerServe(fault)
    \/ BrokerDone

Next ==
    \/ Launcher /\ UNCHANGED socket
    \/ Environment /\ UNCHANGED socket
    \/ Broker
    \/ Rival

Spec == BrokerInit /\ [][Next]_vars

(* The launcher is scheduled, and SIGKILL ends a process.                  *)
FairSpec ==
    /\ Spec
    /\ WF_vars((Launcher /\ UNCHANGED socket) \/ BrokerProbe("") \/ BrokerSink \/ BrokerDone)
    /\ WF_vars(child.state = "killed" /\ ChildExits /\ UNCHANGED socket)
-----------------------------------------------------------------------------
(* While the active handoff's lease is out, the display it disabled shows  *)
(* nothing: the quiescence wait saw Android off the CRTC for good before   *)
(* CREATE_LEASE, whatever the composer was doing meanwhile.                *)
QuietWhileLeased ==
    run.program = "active" /\ run.disabled /\ run.owner
        /\ run.pc \in {"fork", "handlers", "wait", "teardown", "disconnect", "revoke"}
    => kms.scanout = {}

(* A handoff gives the connector back only when nobody can use its lease   *)
(* any more.  The active one revokes it, which reaches even a descendant   *)
(* that outlived the child with an inherited descriptor, unless the        *)
(* revocation itself failed.  The guarded one does not revoke: its lease   *)
(* ends with the child because the seat shim sealed the descriptor, so     *)
(* that only a program started before the compositor opened the device     *)
(* can keep it.                                                            *)
LeaseEndsWithHandoff ==
    run.owner =>
        /\ run.program = "active" /\ run.pc \in {"restore", "settle", "enable", "done"}
           => ~lease.live \/ Failed("revoke")
        /\ run.program = "guarded" /\ run.pc \in {"restore", "done"}
           => ~lease.live \/ child.early

(* Whichever step failed after disable-display, a handoff that runs to its *)
(* end has enabled Android's display again, unless told to keep it off,    *)
(* unless the sink was unplugged, and unless the enabling or the clearing  *)
(* write before it failed.  Nor does it leave a connector forced off that  *)
(* it did not find so, unless the write that clears it failed: a failed    *)
(* reprobe, forcing off or activation is no excuse.  Except that the       *)
(* active one with --keep-display-disabled on an idle path never sets      *)
(* connector_touched, which asks for the clearing.                         *)
AndroidPutBack ==
    /\ run.program = "active" /\ run.disabled /\ run.pc = "done"
       => \/ android # "off"
          \/ "keep" \in run.options
          \/ run.unplugged
          \/ Failed("clear") \/ Failed("display")
    /\ run.program \in {"active", "guarded"} /\ run.pc = "done" /\ run.found = "detect"
       => \/ kms.force = "detect"
          \/ Failed("clear")
          \/ run.program = "active" /\ "keep" \in run.options /\ ~run.disabled

(* A sink pulled out for good takes the lease with it, even from a child   *)
(* that ignores SIGTERM: the hotplug monitor of the active handoff         *)
(* terminates, kills, and the teardown revokes.                            *)
UnplugEndsLease ==
    [](run.program = "active" /\ run.pc = "wait" /\ []~kms.plugged
       => <>(~lease.live \/ Failed("revoke")))

=============================================================================
