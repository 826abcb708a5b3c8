---------------------------- MODULE DockerProofs -----------------------------
(***************************************************************************)
(* What Runtime.Create and Runtime.Remove leave in the daemon, for every   *)
(* set of sandboxes and every number of failed calls and lost contexts.    *)
(* The proof has one step per call of the daemon.                          *)
(***************************************************************************)
EXTENDS DockerRuntime, TLAPS

(* The network and the proxy of a sandbox with an allowlist are complete.  *)
GroupUp(s) ==
    s \in egress => s \in net /\ proxy[s] = "running" /\ s \in bridged

(* What exists at each step of Create.                                     *)
MadeSoFar(s) ==
    /\ pc[s] \in {"new", "network"} => ~Left(s)
    /\ pc[s] \in {"proxyCreate", "proxyStart", "connect"} => s \in net
    /\ pc[s] = "proxyCreate" => proxy[s] = "none"
    /\ pc[s] = "proxyStart" => proxy[s] = "created"
    /\ pc[s] = "connect" => proxy[s] = "running"
    /\ pc[s] \in {"proxyCreate", "proxyStart", "connect", "boxCreate", "pull",
                  "boxRecreate"} => box[s] = "none"
    /\ pc[s] = "boxStart" => box[s] = "created"
    /\ pc[s] \in {"boxCreate", "pull", "boxRecreate", "boxStart", "up"} => GroupUp(s)
    /\ pc[s] = "up" => box[s] = "running"

(* What is left at each step of an undo: the container only runs when its  *)
(* context is gone, and then no undo call takes anything away from it; and *)
(* without a failed undo call each resource is gone once its step is over. *)
UndoneSoFar(s) ==
    /\ pc[s] \in {"undoBox", "undoProxy", "undoNet", "failed"} /\ box[s] = "running"
          => s \in cancelled /\ GroupUp(s)
    /\ s \notin hurt =>
          /\ pc[s] \in {"undoProxy", "undoNet"} => box[s] = "none"
          /\ pc[s] = "undoNet" => proxy[s] = "none"
          /\ pc[s] = "failed" => ~Left(s)

(* The same for Remove.                                                    *)
RemovedSoFar(s) ==
    s \notin hurt =>
        /\ pc[s] # "rmOnly"
        /\ pc[s] \in {"rmProxy", "listNets", "rmNet"} => box[s] = "none"
        /\ pc[s] \in {"listNets", "rmNet"} => proxy[s] = "none"
        /\ pc[s] = "removed" => ~Left(s)

(* A sandbox without an allowlist never gets a network or a proxy.         *)
NoGroup(s) ==
    s \notin egress =>
        /\ s \notin net /\ proxy[s] = "none"
        /\ pc[s] \notin {"network", "proxyCreate", "proxyStart", "connect",
                         "undoProxy", "undoNet"}

(* The inductive invariant: where the operation on a sandbox is says what  *)
(* of it exists.                                                           *)
Stage(s) == MadeSoFar(s) /\ UndoneSoFar(s) /\ RemovedSoFar(s) /\ NoGroup(s)
IInv == TypeOK /\ \A s \in Sandboxes : Stage(s)

-----------------------------------------------------------------------------
(* An empty daemon satisfies the invariant.                                *)
LEMMA InitIInv == Init => IInv
BY BoundsAssumption DEF Init, IInv, TypeOK, Stage, MadeSoFar, UndoneSoFar,
   RemovedSoFar, NoGroup, GroupUp, Left, Steps

(* Every call of the daemon preserves the invariant.                       *)
LEMMA NextIInv == IInv /\ [Next]_vars => IInv'
<1> SUFFICES ASSUME IInv, [Next]_vars PROVE IInv'
  OBVIOUS
<1> USE BoundsAssumption DEF IInv, TypeOK, Stage, MadeSoFar, UndoneSoFar,
      RemovedSoFar, NoGroup, GroupUp, Left, daemon, Goto, Works, Fails, CancelOf, Try,
      Attempt, Steps, Making, Undoing, Removing
<1>1. ASSUME NEW s \in Sandboxes, CreateCall(s) PROVE IInv'
  BY <1>1 DEF CreateCall
<1>2. ASSUME NEW s \in Sandboxes, NetworkCreate(s) PROVE IInv'
  BY <1>2 DEF NetworkCreate
<1>3. ASSUME NEW s \in Sandboxes, ProxyCreate(s) PROVE IInv'
  BY <1>3 DEF ProxyCreate
<1>4. ASSUME NEW s \in Sandboxes, ProxyStart(s) PROVE IInv'
  BY <1>4 DEF ProxyStart
<1>5. ASSUME NEW s \in Sandboxes, ProxyConnect(s) PROVE IInv'
  BY <1>5 DEF ProxyConnect
<1>6. ASSUME NEW s \in Sandboxes, BoxCreate(s) PROVE IInv'
  BY <1>6 DEF BoxCreate, BoxMade, Rollback
<1>7. ASSUME NEW s \in Sandboxes, PullImage(s) PROVE IInv'
  <2>1. CASE Works(s) /\ image' = TRUE /\ UNCHANGED <<net, proxy, bridged, box>>
                /\ Goto(s, "boxRecreate") /\ hurt' = hurt
    <3>1. image' \in BOOLEAN
      BY <2>1
    <3> QED
      BY <1>7, <2>1, <3>1 DEF PullImage
  <2>2. CASE Fails(s) /\ UNCHANGED daemon /\ Goto(s, Rollback(s)) /\ hurt' = hurt
    BY <1>7, <2>2 DEF PullImage, Rollback
  <2>3. CASE CancelOf(s) /\ image' = TRUE /\ UNCHANGED <<net, proxy, bridged, box>>
                /\ Goto(s, Rollback(s)) /\ hurt' = hurt \cup {s}
    <3>1. image' \in BOOLEAN
      BY <2>3
    <3> QED
      BY <1>7, <2>3, <3>1 DEF PullImage, Rollback
  <2> QED
    BY <1>7, <2>1, <2>2, <2>3 DEF PullImage
<1>8. ASSUME NEW s \in Sandboxes, BoxRecreate(s) PROVE IInv'
  BY <1>8 DEF BoxRecreate, BoxMade, Rollback
<1>9. ASSUME NEW s \in Sandboxes, BoxStart(s) PROVE IInv'
  BY <1>9 DEF BoxStart
<1>10. ASSUME NEW s \in Sandboxes, UndoBox(s) PROVE IInv'
  BY <1>10 DEF UndoBox, RemoveBox, Rollback
<1>11. ASSUME NEW s \in Sandboxes, UndoProxy(s) PROVE IInv'
  BY <1>11 DEF UndoProxy, RemoveProxy
<1>12. ASSUME NEW s \in Sandboxes, UndoNet(s) PROVE IInv'
  BY <1>12 DEF UndoNet, RemoveNet, InUse
<1>13. ASSUME NEW s \in Sandboxes, RemoveCall(s) PROVE IInv'
  BY <1>13 DEF RemoveCall
<1>14. ASSUME NEW s \in Sandboxes, Inspect(s) PROVE IInv'
  BY <1>14 DEF Inspect
<1>15. ASSUME NEW s \in Sandboxes, RemoveUnlabelled(s) PROVE IInv'
  BY <1>15 DEF RemoveUnlabelled, RemoveBox
<1>16. ASSUME NEW s \in Sandboxes, ContainerRemove(s) PROVE IInv'
  BY <1>16 DEF ContainerRemove, RemoveBox
<1>17. ASSUME NEW s \in Sandboxes, ListContainers(s) PROVE IInv'
  BY <1>17 DEF ListContainers, AfterBox
<1>18. ASSUME NEW s \in Sandboxes, CleanupBox(s) PROVE IInv'
  BY <1>18 DEF CleanupBox, RemoveBox, AfterBox
<1>19. ASSUME NEW s \in Sandboxes, CleanupProxy(s) PROVE IInv'
  BY <1>19 DEF CleanupProxy, RemoveProxy
<1>20. ASSUME NEW s \in Sandboxes, ListNetworks(s) PROVE IInv'
  BY <1>20 DEF ListNetworks
<1>21. ASSUME NEW s \in Sandboxes, CleanupNet(s) PROVE IInv'
  BY <1>21 DEF CleanupNet, RemoveNet, InUse
<1>22. ASSUME NEW s \in Sandboxes, Cancel(s) PROVE IInv'
  BY <1>22 DEF Cancel
<1>23. CASE UNCHANGED vars
  BY <1>23 DEF vars
<1> QED
  BY <1>1, <1>2, <1>3, <1>4, <1>5, <1>6, <1>7, <1>8, <1>9, <1>10, <1>11, <1>12, <1>13,
     <1>14, <1>15, <1>16, <1>17, <1>18, <1>19, <1>20, <1>21, <1>22, <1>23
     DEF Next, Create, Remove

-----------------------------------------------------------------------------
(* The stages of Create and Remove hold in every reachable state.          *)
THEOREM DockerInductive == Spec => []IInv
<1>1. Init => IInv
  BY InitIInv
<1>2. IInv /\ [Next]_vars => IInv'
  BY NextIInv
<1> QED
  BY <1>1, <1>2, PTL DEF Spec

(* Type correctness; a proxy is on bridge only while it runs.              *)
THEOREM DockerTypeCorrect == Spec => []TypeOK
<1>1. IInv => TypeOK
  BY DEF IInv
<1> QED
  BY <1>1, DockerInductive, PTL

(* Whichever call of Create failed, and in whatever order with the calls   *)
(* for other sandboxes, nothing of it is left unless an undo call failed.  *)
THEOREM DockerFailedCreateLeavesNothing == Spec => []FailedCreateLeavesNothing
<1>1. IInv => FailedCreateLeavesNothing
  BY DEF IInv, Stage, UndoneSoFar, FailedCreateLeavesNothing
<1> QED
  BY <1>1, DockerInductive, PTL

(* No sandbox with an allowlist runs without its network, its proxy and    *)
(* the proxy's way out, and nothing but its own Remove takes them away.    *)
THEOREM DockerSandboxIsComplete == Spec => []SandboxIsComplete
<1>1. IInv => SandboxIsComplete
  BY DEF IInv, TypeOK, Stage, MadeSoFar, UndoneSoFar, NoGroup, GroupUp, Left,
     SandboxIsComplete, Steps, Making, Undoing, Removing
<1> QED
  BY <1>1, DockerInductive, PTL

(* A Remove that found the label and whose cleanup calls worked leaves     *)
(* neither container nor network.                                          *)
THEOREM DockerRemoveLeavesNothing == Spec => []RemoveLeavesNothing
<1>1. IInv => RemoveLeavesNothing
  BY DEF IInv, Stage, RemovedSoFar, RemoveLeavesNothing
<1> QED
  BY <1>1, DockerInductive, PTL
=============================================================================
