------------------------------- MODULE Reload -------------------------------
(***************************************************************************)
(* The manager's current policy and its set of warm pools: Manager.Start,  *)
(* ReplacePolicy on SIGHUP, Manager.Shutdown, and the part of Create that  *)
(* works on a snapshot of both (internal/sandbox/manager.go, cmd/kpd).     *)
(*                                                                         *)
(* A pool is an object that is built, started, served and closed; what     *)
(* happens inside it is module Pool.  What a policy says about an image is *)
(* reduced to the spec its pool would be warmed with.  A pool object is    *)
(* <<g, i>>: built for image i by buildPools' g-th call.                   *)
(***************************************************************************)
EXTENDS Naturals, FiniteSets

CONSTANTS
    Images,
    Specs,       \* what a pool is warmed with (limits, user, target, ...)
    NoPool,      \* the image has no pool
    Policies,
    PoolSpecFor, \* PoolSpecFor[policy][image]: a spec, or NoPool
    Workers,     \* goroutines that serve Create
    MaxReloads,  \* bound: SIGHUPs with a valid policy file
    MaxClaims    \* bound: claims from pools

ASSUME SpecAssumption ==
    /\ NoPool \notin Specs \cup Nat /\ MaxReloads \in Nat /\ MaxClaims \in Nat
    /\ PoolSpecFor \in [Policies -> [Images -> Specs \cup {NoPool}]]

Gens == 0..MaxReloads

VARIABLES
    policy,    \* m.policy
    pools,     \* m.pools: for each image the generation of its pool, or NoPool
    polOf,     \* the policy each generation was built from
    state,     \* the state of each pool object
    kpd,       \* "starting", "aborted", "serving", "draining" or "exited"
    reload,    \* the ReplacePolicy in progress
    retiring,  \* pool objects a retirement goroutine has yet to shut down
    draining,  \* pool objects Manager.Shutdown has yet to shut down
    create,    \* each worker's Create
    claims,    \* the claims made so far
    gen,       \* generations built so far
    taken      \* history: the pool objects Manager.Shutdown found in m.pools

managerVars == <<policy, pools>>
histVars == <<claims, gen, taken>>
vars == <<managerVars, polOf, state, kpd, reload, retiring, draining, create, histVars>>

None     == [i \in Images |-> NoPool]
Objects(m) == {<<m[i], i>> : i \in {j \in Images : m[j] # NoPool}}
Quiet    == [pc |-> "idle", merged |-> None, toStart |-> {}, warmed |-> {},
             toShutdown |-> {}]
NoCreate == [pc |-> "idle", policy |-> NoPool, pools |-> None]

SpecOf(g, i) == PoolSpecFor[polOf[g]][i]
Move(objs, s) ==
    state' = [g \in Gens |-> [i \in Images |-> IF <<g, i>> \in objs THEN s ELSE state[g][i]]]

(* buildPools: a pool object for every image of the policy that has a pool.*)
buildPools(p, g) == [i \in Images |-> IF PoolSpecFor[p][i] = NoPool THEN NoPool ELSE g]

(* NewManager.                                                             *)
Init ==
    /\ policy \in Policies
    /\ pools = buildPools(policy, 0)
    /\ polOf = [g \in Gens |-> policy] /\ gen = 0
    /\ state = [g \in Gens |-> [i \in Images |-> "new"]]
    /\ kpd = "starting" /\ reload = Quiet /\ retiring = {} /\ draining = {}
    /\ create = [w \in Workers |-> NoCreate] /\ claims = {}
    /\ taken = {}

-----------------------------------------------------------------------------
(* Manager.Start warms one pool after the other; a failure ends kpd before *)
(* it serves.                                                              *)
StartPool ==
    /\ kpd = "starting"
    /\ \E o \in Objects(pools) :
          /\ state[o[1]][o[2]] = "new"
          /\ \/ Move({o}, "open") /\ kpd' = kpd
             \/ Move({o}, "partial") /\ kpd' = "aborted"
    /\ UNCHANGED <<managerVars, polOf, reload, retiring, draining, create, histVars>>

Serve ==
    /\ kpd = "starting"
    /\ \A o \in Objects(pools) : state[o[1]][o[2]] = "open"
    /\ kpd' = "serving"
    /\ UNCHANGED <<managerVars, polOf, state, reload, retiring, draining, create, histVars>>

-----------------------------------------------------------------------------
Alive == kpd \in {"serving", "draining"}

(* Mutant of samePoolSpec: only the image is compared.                     *)
sameImage(i, p) == pools[i] # NoPool /\ PoolSpecFor[p][i] # NoPool

(* samePoolSpec: the pool that serves the image is what policy p wants.    *)
samePoolSpec(i, p) ==
    /\ pools[i] # NoPool /\ PoolSpecFor[p][i] # NoPool
    /\ SpecOf(pools[i], i) = PoolSpecFor[p][i]

(* ReplacePolicy, up to the pools it keeps, starts and retires.            *)
ReloadBegin(p) ==
    /\ Alive /\ reload.pc = "idle" /\ gen < MaxReloads
    /\ gen' = gen + 1
    /\ polOf' = [polOf EXCEPT ![gen + 1] = p]
    /\ LET desired == buildPools(p, gen + 1)
           merged  == [i \in Images |-> IF samePoolSpec(i, p) THEN pools[i] ELSE desired[i]]
       IN  reload' = [pc |-> "start", merged |-> merged, warmed |-> {},
                      toStart    |-> Objects(merged) \ Objects(pools),
                      toShutdown |-> Objects(pools) \ Objects(merged)]
    /\ UNCHANGED <<managerVars, state, kpd, retiring, draining, create, claims, taken>>

(* p.Start of one new pool.  On an error the reload is given up; what the  *)
(* failing pool had warmed by then stays in that pool.                     *)
ReloadStart ==
    /\ Alive /\ reload.pc = "start"
    /\ \E o \in reload.toStart :
          \/ /\ Move({o}, "open")
             /\ reload' = [reload EXCEPT !.toStart = @ \ {o}, !.warmed = @ \cup {o}]
          \/ /\ Move({o}, "partial")
             /\ reload' = [reload EXCEPT !.pc = "rollback"]
    /\ UNCHANGED <<managerVars, polOf, kpd, retiring, draining, create, histVars>>

(* The rollback, one pool after the other; policy and pools stay as they   *)
(* were.                                                                   *)
ReloadRollback ==
    /\ Alive /\ reload.pc = "rollback"
    /\ IF reload.warmed = {}
       THEN reload' = Quiet /\ state' = state
       ELSE \E o \in reload.warmed :
               /\ Move({o}, "closed")
               /\ reload' = [reload EXCEPT !.warmed = @ \ {o}]
    /\ UNCHANGED <<managerVars, polOf, kpd, retiring, draining, create, histVars>>

(* Mutant of ReloadSwap: every pool of the old policy is retired.          *)
ReloadSwapRetiresAll ==
    /\ Alive /\ reload.pc = "start" /\ reload.toStart = {}
    /\ policy' = polOf[gen] /\ pools' = reload.merged
    /\ retiring' = retiring \cup Objects(pools)
    /\ reload' = Quiet
    /\ UNCHANGED <<polOf, state, kpd, draining, create, histVars>>

(* The swap under m.mu, and the goroutine that retires the old pools.      *)
ReloadSwap ==
    /\ Alive /\ reload.pc = "start" /\ reload.toStart = {}
    /\ policy' = polOf[gen] /\ pools' = reload.merged
    /\ retiring' = retiring \cup reload.toShutdown
    /\ reload' = Quiet
    /\ UNCHANGED <<polOf, state, kpd, draining, create, histVars>>

(* Mutant of Retire: the pools are given up without a Shutdown.            *)
RetireForgets ==
    /\ Alive
    /\ \E o \in retiring : retiring' = retiring \ {o}
    /\ UNCHANGED <<managerVars, polOf, state, kpd, reload, draining, create, histVars>>

Retire ==
    /\ Alive
    /\ \E o \in retiring :
          /\ Move({o}, "closed")
          /\ retiring' = retiring \ {o}
    /\ UNCHANGED <<managerVars, polOf, kpd, reload, draining, create, histVars>>

-----------------------------------------------------------------------------
(* Create takes its snapshot of (policy, pools).                           *)
CreateSnapshot(w) ==
    /\ Alive /\ create[w].pc = "idle"
    /\ create' = [create EXCEPT ![w] = [pc |-> "claim", policy |-> policy, pools |-> pools]]
    /\ UNCHANGED <<managerVars, polOf, state, kpd, reload, retiring, draining, histVars>>

(* Mutant of poolMatchesResolved: any request for the image matches.       *)
matchesImage(limits, env) == TRUE

(* poolMatchesResolved: egress, cpus and memory are compared; the rest of  *)
(* the request, env and cmd, is not.                                       *)
poolMatchesResolved(limits, env) == limits = "policy"

(* tryClaim, on the snapshot, for a request with the policy's limits or    *)
(* its own, with or without env and cmd of its own; a warm container has   *)
(* neither.  The pool may be empty, and a closed one gives nothing.        *)
CreateClaim(w) ==
    /\ Alive /\ create[w].pc = "claim" /\ Cardinality(claims) < MaxClaims
    /\ \E i \in Images, limits \in {"policy", "own"}, env \in {"none", "own"} :
          LET c == create[w]
          IN  /\ c.pools[i] # NoPool
              /\ poolMatchesResolved(limits, env)
              /\ state[c.pools[i]][i] = "open"
              /\ claims' = claims \cup {[limits |-> limits, env |-> env,
                                         wanted |-> PoolSpecFor[c.policy][i],
                                         got |-> SpecOf(c.pools[i], i)]}
    /\ create' = [create EXCEPT ![w] = NoCreate]
    /\ UNCHANGED <<managerVars, polOf, state, kpd, reload, retiring, draining, gen, taken>>

CreateColdStart(w) ==
    /\ Alive /\ create[w].pc = "claim"
    /\ create' = [create EXCEPT ![w] = NoCreate]
    /\ UNCHANGED <<managerVars, polOf, state, kpd, reload, retiring, draining, histVars>>

-----------------------------------------------------------------------------
(* serve after its signal: Manager.Shutdown on the pools of the moment;    *)
(* then the process ends, and its goroutines with it.                      *)
ShutdownBegin ==
    /\ kpd = "serving"
    /\ kpd' = "draining"
    /\ draining' = Objects(pools) /\ taken' = Objects(pools)
    /\ UNCHANGED <<managerVars, polOf, state, reload, retiring, create, claims, gen>>

(* Mutant of ShutdownPool: the loop ends after the first pool.             *)
ShutdownFirst ==
    /\ kpd = "draining"
    /\ \E o \in draining : Move({o}, "closed")
    /\ draining' = {}
    /\ UNCHANGED <<managerVars, polOf, kpd, reload, retiring, create, histVars>>

ShutdownPool ==
    /\ kpd = "draining"
    /\ \E o \in draining :
          /\ Move({o}, "closed")
          /\ draining' = draining \ {o}
    /\ UNCHANGED <<managerVars, polOf, kpd, reload, retiring, create, histVars>>

ShutdownExit ==
    /\ kpd = "draining" /\ draining = {}
    /\ kpd' = "exited"
    /\ UNCHANGED <<managerVars, polOf, state, reload, retiring, draining, create, histVars>>

Reloading == ReloadStart \/ ReloadRollback \/ ReloadSwap

Next ==
    \/ StartPool \/ Serve
    \/ \E p \in Policies : ReloadBegin(p)
    \/ Reloading \/ Retire
    \/ \E w \in Workers : CreateSnapshot(w) \/ CreateClaim(w) \/ CreateColdStart(w)
    \/ ShutdownBegin \/ ShutdownPool \/ ShutdownExit

(* The reload and the retirement goroutines are scheduled.                 *)
Spec == Init /\ [][Next]_vars /\ WF_vars(Reloading) /\ WF_vars(Retire)

-----------------------------------------------------------------------------
Generation == Gens \cup {NoPool}
Object == Gens \X Images

(* The variables keep their types.                                         *)
TypeOK ==
    /\ policy \in Policies /\ pools \in [Images -> Generation]
    /\ polOf \in [Gens -> Policies] /\ gen \in Gens
    /\ state \in [Gens -> [Images -> {"new", "open", "partial", "closed"}]]
    /\ kpd \in {"starting", "aborted", "serving", "draining", "exited"}
    /\ reload \in [pc : {"idle", "start", "rollback"}, merged : [Images -> Generation],
                   toStart : SUBSET Object, warmed : SUBSET Object,
                   toShutdown : SUBSET Object]
    /\ retiring \subseteq Object /\ draining \subseteq Object /\ taken \subseteq Object
    /\ create \in [Workers -> [pc : {"idle", "claim"}, policy : Policies \cup {NoPool},
                               pools : [Images -> Generation]]]
    /\ claims \subseteq [limits : {"policy", "own"}, env : {"none", "own"},
                         wanted : Specs \cup {NoPool}, got : Specs \cup {NoPool}]

(* m.policy and m.pools belong together: an image has a pool exactly if    *)
(* the policy wants one, and that pool, even one kept over several         *)
(* reloads, was warmed with the spec of the current policy.                *)
PoolsMatchPolicy ==
    \A i \in Images : IF PoolSpecFor[policy][i] = NoPool THEN pools[i] = NoPool
                      ELSE pools[i] \in Gens /\ SpecOf(pools[i], i) = PoolSpecFor[policy][i]

(* A Create that claims from its snapshot gets a container with the limits *)
(* of the policy it resolved its request with, whatever was reloaded       *)
(* since.                                                                  *)
ClaimHasPolicyLimits == \A c \in claims : c.limits = "policy" /\ c.got = c.wanted

(* "returns a warm container id if the resolved spec exactly matches what  *)
(* the pool was warmed for" (tryClaim): the request has no env or cmd of   *)
(* its own either.                                                         *)
ClaimIsExact == \A c \in claims : c.limits = "policy" /\ c.got = c.wanted /\ c.env = "none"

Known == Objects(pools) \cup retiring \cup reload.warmed

(* While kpd serves, every pool that is served is open (no retirement or   *)
(* rollback closes one that a later reload has kept), and every open pool, *)
(* whose refiller goes on making containers, is served, about to be        *)
(* retired, or in the hands of the reload that started it.  A reload only  *)
(* starts pools that are new: none gets a second refiller.                 *)
PoolsAccountedFor ==
    kpd = "serving" =>
        /\ reload.pc = "start" => \A o \in reload.toStart : state[o[1]][o[2]] = "new"
        /\ \A o \in Objects(pools) : state[o[1]][o[2]] = "open"
        /\ \A o \in Object : state[o[1]][o[2]] = "open" => o \in Known

(* "Roll back: shut down anything we already warmed for the new policy"    *)
(* (ReplacePolicy): the same for every pool with warm containers, once the *)
(* reload is over.                                                         *)
NoStrayContainers ==
    kpd = "serving" /\ reload.pc = "idle" =>
        \A o \in Object : state[o[1]][o[2]] \in {"open", "partial"} => o \in Known

(* "Manager.Shutdown(ctx) drains every pool" (docs/warm-pool.md): when kpd *)
(* is gone after serving, no pool has warm containers left.                *)
ShutdownDrainsAll ==
    kpd = "exited" => \A o \in Object : state[o[1]][o[2]] \notin {"open", "partial"}

(* What the shutdown leaves behind, whatever reloads came before it or     *)
(* overlap it.  Every pool it found is closed, the ones too that a reload  *)
(* keeps or retires in the meantime.  A pool that is still open is one it  *)
(* could not find: a reload has put it in force since, or had it in its    *)
(* hands, or a retirement goroutine, when the process ended.  And of the   *)
(* pools of one reload at most one is half warmed, the one whose Start     *)
(* failed: the rollback has reached the others.                            *)
ShutdownLeavesOnly ==
    kpd = "exited" =>
        /\ \A o \in taken : state[o[1]][o[2]] = "closed"
        /\ \A o \in Object : state[o[1]][o[2]] = "open" => o \in Known \ taken
        /\ \A o, q \in Object :
              /\ o[1] = q[1] /\ state[o[1]][o[2]] = "partial" /\ state[q[1]][q[2]] = "partial"
              => o = q

(* Every pool that is no longer wanted is eventually shut down, as long as *)
(* kpd goes on.                                                            *)
RetiredIsClosed ==
    \A o \in Object : o \in retiring ~> state[o[1]][o[2]] = "closed" \/ kpd = "exited"
=============================================================================
