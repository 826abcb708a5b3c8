---------------------------- MODULE DockerRuntime ----------------------------
(***************************************************************************)
(* Runtime.Create and Runtime.Remove of internal/runtime/docker: the three *)
(* resources of a sandbox with egress (its internal network, its proxy,    *)
(* its container) are made one call of the daemon at a time, taken back    *)
(* when a later call fails, and found again by label when the sandbox is   *)
(* removed.  Operations on different sandboxes interleave.                 *)
(***************************************************************************)
EXTENDS Naturals, FiniteSets

CONSTANTS
    Sandboxes,   \* values of the label kotakpasir.sandbox-id
    MaxFaults,   \* bound: daemon calls that fail with the context alive
    MaxCancels   \* bound: operations whose context is cancelled

ASSUME BoundsAssumption == MaxFaults \in Nat /\ MaxCancels \in Nat

VARIABLES
    net,       \* sandboxes whose network exists
    proxy,     \* state of each sandbox's proxy container
    bridged,   \* sandboxes whose proxy is connected to "bridge"
    box,       \* state of each sandbox's own container
    image,     \* the sandboxes' image is present in the daemon
    egress,    \* sandboxes with egress mode allowlist
    pc,        \* where the operation on each sandbox is
    cancelled, \* sandboxes whose operation has lost its context
    hurt,      \* sandboxes for which a call that undoes or cleans up failed, or
               \* whose context was cancelled in the middle of a call
    faults

daemon == <<net, proxy, bridged, box, image>>
vars == <<daemon, egress, pc, cancelled, hurt, faults>>

Making   == {"network", "proxyCreate", "proxyStart", "connect", "boxCreate", "pull",
             "boxRecreate", "boxStart"}
Undoing  == {"undoBox", "undoProxy", "undoNet"}
Removing == {"inspect", "rmOnly", "rmBox", "listGroup", "rmAgain", "rmProxy", "listNets",
             "rmNet"}
Steps    == {"new", "up", "failed", "removed"} \cup Making \cup Undoing \cup Removing

Init ==
    /\ net = {} /\ bridged = {} /\ image \in BOOLEAN
    /\ proxy = [s \in Sandboxes |-> "none"] /\ box = [s \in Sandboxes |-> "none"]
    /\ egress \in SUBSET Sandboxes
    /\ pc = [s \in Sandboxes |-> "new"]
    /\ cancelled = {} /\ hurt = {} /\ faults = 0

-----------------------------------------------------------------------------
Goto(s, label) == pc' = [pc EXCEPT ![s] = label]

(* A call of the daemon on behalf of s: it works, it fails, as it always   *)
(* does with a cancelled context, or the context is cancelled while the    *)
(* daemon works on it, and the answer is lost.                             *)
Works(s) == s \notin cancelled /\ UNCHANGED <<faults, cancelled>>
Fails(s) ==
    /\ \/ s \in cancelled /\ faults' = faults
       \/ s \notin cancelled /\ faults < MaxFaults /\ faults' = faults + 1
    /\ UNCHANGED cancelled
CancelOf(s) ==
    /\ s \notin cancelled /\ Cardinality(cancelled) < MaxCancels
    /\ cancelled' = cancelled \cup {s}
    /\ UNCHANGED faults

(* One call in the course of Create: the effect and the next step, or the  *)
(* step its error leads to.                                                *)
Try(s, label, effect, next, onError) ==
    /\ pc[s] = label
    /\ \/ Works(s) /\ effect /\ Goto(s, next) /\ hurt' = hurt
       \/ Fails(s) /\ UNCHANGED daemon /\ Goto(s, onError) /\ hurt' = hurt
       \/ CancelOf(s) /\ effect /\ Goto(s, onError) /\ hurt' = hurt \cup {s}
    /\ UNCHANGED egress

(* One call that undoes or cleans up; its error is ignored and recorded.   *)
Attempt(s, label, effect, next, onError) ==
    /\ pc[s] = label
    /\ \/ Works(s) /\ effect /\ Goto(s, next) /\ hurt' = hurt
       \/ Fails(s) /\ UNCHANGED daemon /\ Goto(s, onError) /\ hurt' = hurt \cup {s}
       \/ CancelOf(s) /\ effect /\ Goto(s, onError) /\ hurt' = hurt \cup {s}
    /\ UNCHANGED egress

(* Create, up to maybeProvisionEgress: nothing to do without an allowlist. *)
CreateCall(s) ==
    /\ pc[s] = "new"
    /\ Goto(s, IF s \in egress THEN "network" ELSE "boxCreate")
    /\ UNCHANGED <<daemon, egress, cancelled, hurt, faults>>

NetworkCreate(s) ==
    Try(s, "network",
        net' = net \cup {s} /\ UNCHANGED <<proxy, bridged, box, image>>,
        "proxyCreate", "failed")

ProxyCreate(s) ==
    Try(s, "proxyCreate",
        proxy' = [proxy EXCEPT ![s] = "created"] /\ UNCHANGED <<net, bridged, box, image>>,
        "proxyStart", "undoNet")

ProxyStart(s) ==
    Try(s, "proxyStart",
        proxy' = [proxy EXCEPT ![s] = "running"] /\ UNCHANGED <<net, bridged, box, image>>,
        "connect", "undoProxy")

(* Mutant of ProxyConnect: a proxy that cannot reach bridge is left.       *)
ProxyConnectNoUndo(s) ==
    Try(s, "connect",
        bridged' = bridged \cup {s} /\ UNCHANGED <<net, proxy, box, image>>,
        "boxCreate", "failed")

ProxyConnect(s) ==
    Try(s, "connect",
        bridged' = bridged \cup {s} /\ UNCHANGED <<net, proxy, box, image>>,
        "boxCreate", "undoProxy")

BoxMade(s) ==
    box' = [box EXCEPT ![s] = "created"] /\ UNCHANGED <<net, proxy, bridged, image>>

(* The closure rollback has something to undo only with an allowlist.      *)
Rollback(s) == IF s \in egress THEN "undoProxy" ELSE "failed"

(* ContainerCreate answers NotFound when the image is missing; Create then *)
(* pulls it and asks once more.                                            *)
BoxCreate(s) ==
    \/ image /\ Try(s, "boxCreate", BoxMade(s), "boxStart", Rollback(s))
    \/ ~image /\ Try(s, "boxCreate", UNCHANGED daemon, "pull", Rollback(s))

PullImage(s) ==
    Try(s, "pull", image' = TRUE /\ UNCHANGED <<net, proxy, bridged, box>>,
        "boxRecreate", Rollback(s))

BoxRecreate(s) == Try(s, "boxRecreate", BoxMade(s), "boxStart", Rollback(s))

BoxStart(s) ==
    Try(s, "boxStart",
        box' = [box EXCEPT ![s] = "running"] /\ UNCHANGED <<net, proxy, bridged, image>>,
        "up", "undoBox")

-----------------------------------------------------------------------------
(* Forced removal of a container ends its connection to bridge as well.    *)
RemoveBox(s) ==
    box' = [box EXCEPT ![s] = "none"] /\ UNCHANGED <<net, proxy, bridged, image>>

RemoveProxy(s) ==
    /\ proxy' = [proxy EXCEPT ![s] = "none"]
    /\ bridged' = bridged \ {s}
    /\ UNCHANGED <<net, box, image>>

(* The daemon refuses to remove a network with running containers on it.   *)
InUse(s) == proxy[s] = "running" \/ box[s] = "running"
RemoveNet(s) ==
    /\ net' = IF InUse(s) THEN net ELSE net \ {s}
    /\ UNCHANGED <<proxy, bridged, box, image>>

(* The failure paths of Create, each call best effort and all with the     *)
(* context of the request: the container, the proxy, the network.          *)
UndoBox(s)   == Attempt(s, "undoBox", RemoveBox(s), Rollback(s), Rollback(s))
UndoProxy(s) == Attempt(s, "undoProxy", RemoveProxy(s), "undoNet", "undoNet")
UndoNet(s)   == Attempt(s, "undoNet", RemoveNet(s), "failed", "failed")

-----------------------------------------------------------------------------
RemoveCall(s) ==
    /\ pc[s] = "up"
    /\ Goto(s, "inspect")
    /\ cancelled' = cancelled \ {s} \* a request of its own
    /\ UNCHANGED <<daemon, egress, hurt, faults>>

(* Without the label, Remove only removes the container: the rest of the   *)
(* sandbox cannot be found any more.                                       *)
Inspect(s) == Attempt(s, "inspect", UNCHANGED daemon, "rmBox", "rmOnly")
RemoveUnlabelled(s) == Try(s, "rmOnly", RemoveBox(s), "removed", "removed")

(* An error of this call is only logged: the group below includes the      *)
(* container.                                                              *)
ContainerRemove(s) == Try(s, "rmBox", RemoveBox(s), "listGroup", "listGroup")

(* cleanupSandboxGroup: every container with the sandbox's label is listed *)
(* and removed, the newest first: the sandbox itself, should the first     *)
(* attempt have failed, and its proxy.                                     *)
AfterBox(s) == IF proxy[s] # "none" THEN "rmProxy" ELSE "listNets"
ListContainers(s) ==
    Attempt(s, "listGroup", UNCHANGED daemon,
            IF box[s] # "none" THEN "rmAgain" ELSE AfterBox(s), "listNets")
CleanupBox(s) == Attempt(s, "rmAgain", RemoveBox(s), AfterBox(s), AfterBox(s))

(* Mutant of CleanupProxy: the list was filtered by the managed label.     *)
CleanupProxyManaged(s) ==
    Attempt(s, "rmProxy",
            proxy' = [t \in Sandboxes |-> "none"] /\ bridged' = {} /\ UNCHANGED <<net, box, image>>,
            "listNets", "listNets")

(* Mutant of CleanupProxy: the proxy is not one of the listed containers.  *)
CleanupProxyForgotten(s) ==
    Attempt(s, "rmProxy", UNCHANGED daemon, "listNets", "listNets")

CleanupProxy(s) == Attempt(s, "rmProxy", RemoveProxy(s), "listNets", "listNets")

(* Then the networks with the label.                                       *)
ListNetworks(s) ==
    Attempt(s, "listNets", UNCHANGED daemon, IF s \in net THEN "rmNet" ELSE "removed",
            "removed")
CleanupNet(s) == Attempt(s, "rmNet", RemoveNet(s), "removed", "removed")

(* The request that runs the operation is over (kpd is shutting down).     *)
Cancel(s) ==
    /\ pc[s] \in Making \cup Undoing \cup Removing
    /\ CancelOf(s)
    /\ UNCHANGED <<daemon, egress, pc, hurt>>

-----------------------------------------------------------------------------
Create(s) ==
    \/ CreateCall(s) \/ NetworkCreate(s) \/ ProxyCreate(s) \/ ProxyStart(s)
    \/ ProxyConnect(s) \/ BoxCreate(s) \/ PullImage(s) \/ BoxRecreate(s)
    \/ BoxStart(s) \/ UndoBox(s) \/ UndoProxy(s) \/ UndoNet(s)

Remove(s) ==
    \/ RemoveCall(s) \/ Inspect(s) \/ RemoveUnlabelled(s) \/ ContainerRemove(s)
    \/ ListContainers(s) \/ CleanupBox(s) \/ CleanupProxy(s)
    \/ ListNetworks(s) \/ CleanupNet(s)

Next == \E s \in Sandboxes : Create(s) \/ Remove(s) \/ Cancel(s)

Spec == Init /\ [][Next]_vars

-----------------------------------------------------------------------------
Left(s) == s \in net \/ proxy[s] # "none" \/ box[s] # "none"

(* The variables keep their types; a proxy is on bridge only if it runs.   *)
TypeOK ==
    /\ net \subseteq Sandboxes /\ bridged \subseteq Sandboxes /\ image \in BOOLEAN
    /\ proxy \in [Sandboxes -> {"none", "created", "running"}]
    /\ box \in [Sandboxes -> {"none", "created", "running"}]
    /\ egress \subseteq Sandboxes /\ pc \in [Sandboxes -> Steps]
    /\ cancelled \subseteq Sandboxes /\ hurt \subseteq Sandboxes
    /\ faults \in 0..MaxFaults
    /\ \A s \in bridged : proxy[s] = "running"

(* Whichever of its calls failed, a Create that returned an error has left *)
(* nothing in the daemon, unless one of its undo calls failed as well or   *)
(* its context was cancelled while the daemon worked on a call.            *)
FailedCreateLeavesNothing ==
    \A s \in Sandboxes \ hurt : pc[s] = "failed" => ~Left(s)

(* "On any error inside, it rolls back partially-created resources before  *)
(* returning" (maybeProvisionEgress): the same without the exception.      *)
RollsBackOnAnyError == \A s \in Sandboxes : pc[s] = "failed" => ~Left(s)

(* A sandbox is complete until its own Remove, whatever happens to the     *)
(* others: with an allowlist it never runs before its proxy runs and has   *)
(* its way out, and keeps both, also if the answer to its start is lost;   *)
(* once Create has succeeded, it runs.                                     *)
SandboxIsComplete ==
    \A s \in Sandboxes : pc[s] \notin Removing \cup {"removed"} =>
        /\ pc[s] = "up" => box[s] = "running"
        /\ s \in egress /\ box[s] = "running"
              => s \in net /\ proxy[s] = "running" /\ s \in bridged

(* A Remove that could search by label leaves nothing of the sandbox       *)
(* behind, even if its first ContainerRemove failed: the group is found    *)
(* by its label, and the network is free by then.                          *)
RemoveLeavesNothing ==
    \A s \in Sandboxes \ hurt : pc[s] = "removed" => ~Left(s)
=============================================================================
