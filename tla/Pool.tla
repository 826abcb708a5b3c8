-------------------------------- MODULE Pool --------------------------------
(***************************************************************************)
(* One warm pool (internal/pool/pool.go): a mutex-protected LIFO stack of  *)
(* ids of pre-started containers, consumed by Get, closed by Shutdown, and *)
(* kept at Target by a filler, first the eager loop of Start and then, in  *)
(* a goroutine of its own, refillLoop.  Start launches the goroutine as    *)
(* its last step, so the two never run at once and share one program       *)
(* counter here; `mode` says which of them is running.                     *)
(*                                                                         *)
(* A step is one critical section of p.mu, one operation on a channel or   *)
(* one call of the container runtime.  Get, Shutdown and the cancellation  *)
(* of the context given to Start may come at any time.                     *)
(***************************************************************************)
EXTENDS Naturals, Sequences, FiniteSets

CONSTANTS
    Target,      \* cfg.Target, the size the pool is kept at
    Containers,  \* the container ids the runtime may hand out
    MaxClaims,   \* bound: successful calls of Get
    MaxFailures  \* bound: failures of rt.Create not caused by a cancelled context

(* buildPools makes a pool only for an image with prewarm > 0.             *)
ASSUME TargetAssumption == Target \in Nat \ {0}
ASSUME BoundsAssumption == MaxClaims \in Nat /\ MaxFailures \in Nat

VARIABLES
    avail,     \* p.avail: ids ready to be claimed, the last one is claimed first
    closed,    \* p.closed
    refillCh,  \* tokens in p.refillCh, a channel of capacity 1
    mode,      \* "start": Start is running, "refill": refillLoop is
    pc,        \* where the filler is
    spawned,   \* iterations of Start's loop that are done
    hand,      \* the id spawn holds between rt.Create and its critical section
    ctxDone,   \* the context given to Start is cancelled
    draining,  \* ids Shutdown took from avail and has not removed yet
    live,      \* containers that exist in the runtime
    seen,      \* every id the runtime ever handed out
    claimed,   \* ids Get returned
    lost,      \* ids whose rt.Remove failed
    failures,  \* failures of rt.Create so far
    gaveUp     \* the last pass of refillLoop ended on an error

poolVars   == <<avail, closed, refillCh>>
fillerVars == <<mode, pc, spawned, hand, gaveUp>>
rtVars     == <<live, seen, lost, failures>>
vars == <<poolVars, fillerVars, rtVars, ctxDone, draining, claimed>>

Elems(s) == {s[i] : i \in 1..Len(s)}
Distinct(s) == \A i, j \in 1..Len(s) : s[i] = s[j] => i = j

Warm == Elems(avail)

FillerSteps == {"new", "start", "create", "append", "discard",
                "wait", "check", "failed", "exit"}

(* New: an empty, open pool whose Start has not been called.               *)
Init ==
    /\ avail = <<>> /\ closed = FALSE /\ refillCh = 0
    /\ mode = "start" /\ pc = "new" /\ spawned = 0 /\ hand = {} /\ gaveUp = FALSE
    /\ ctxDone = FALSE /\ draining = {} /\ claimed = {}
    /\ live = {} /\ seen = {} /\ lost = {} /\ failures = 0

-----------------------------------------------------------------------------
(* Mutant of Get: the first id is cut off the stack, the last is returned. *)
GetCutsFirst ==
    /\ ~closed /\ avail # <<>>
    /\ Cardinality(claimed) < MaxClaims
    /\ claimed' = claimed \cup {avail[Len(avail)]}
    /\ avail' = SubSeq(avail, 2, Len(avail))
    /\ refillCh' = 1
    /\ UNCHANGED <<closed, fillerVars, rtVars, ctxDone, draining>>

(* Get: pop the most recently warmed id and leave a token for the refiller *)
(* (a full channel already holds one).                                     *)
Get ==
    /\ ~closed /\ avail # <<>>
    /\ Cardinality(claimed) < MaxClaims
    /\ claimed' = claimed \cup {avail[Len(avail)]}
    /\ avail' = SubSeq(avail, 1, Len(avail) - 1)
    /\ refillCh' = 1
    /\ UNCHANGED <<closed, fillerVars, rtVars, ctxDone, draining>>

(* Get on a closed or empty pool: ok = FALSE, and no token is sent.        *)
GetMiss ==
    /\ closed \/ avail = <<>>
    /\ UNCHANGED vars

(* Shutdown's critical section: close the pool and take every id.  A later *)
(* call finds p.closed and returns at once.                                *)
ShutdownClose ==
    /\ ~closed
    /\ closed' = TRUE
    /\ draining' = Warm
    /\ avail' = <<>>
    /\ UNCHANGED <<refillCh, fillerVars, rtVars, ctxDone, claimed>>

(* Shutdown's loop, outside the lock: an error is collected, and the loop  *)
(* goes on with the next id.                                               *)
ShutdownRemove ==
    \E id \in draining :
        /\ draining' = draining \ {id}
        /\ \/ live' = live \ {id} /\ lost' = lost
           \/ live' = live /\ lost' = lost \cup {id}
        /\ UNCHANGED <<poolVars, fillerVars, seen, failures, ctxDone, claimed>>

(* kpd received its signal, the context of Start is cancelled.             *)
Cancel ==
    /\ ~ctxDone
    /\ ctxDone' = TRUE
    /\ UNCHANGED <<poolVars, fillerVars, rtVars, draining, claimed>>

-----------------------------------------------------------------------------
StartCall ==
    /\ pc = "new"
    /\ pc' = "start"
    /\ UNCHANGED <<poolVars, mode, spawned, hand, gaveUp, rtVars, ctxDone,
                   draining, claimed>>

(* Mutant of StartLoop: off by one.                                        *)
StartLoopOneMore ==
    /\ pc = "start"
    /\ IF spawned <= Target
       THEN pc' = "create" /\ mode' = mode
       ELSE pc' = "wait" /\ mode' = "refill"
    /\ UNCHANGED <<poolVars, spawned, hand, gaveUp, rtVars, ctxDone, draining,
                   claimed>>

(* The head of Start's loop: spawn once more, or launch refillLoop.        *)
StartLoop ==
    /\ pc = "start"
    /\ IF spawned < Target
       THEN pc' = "create" /\ mode' = mode
       ELSE pc' = "wait" /\ mode' = "refill"
    /\ UNCHANGED <<poolVars, spawned, hand, gaveUp, rtVars, ctxDone, draining,
                   claimed>>

(* Mutant of SpawnReturnsNil: one spawn for each token.                    *)
SpawnOncePerToken ==
    /\ pc' = IF mode = "start" THEN "start" ELSE "wait"
    /\ spawned' = IF mode = "start" THEN spawned + 1 ELSE spawned
    /\ UNCHANGED <<mode, gaveUp>>

(* spawn returns nil: Start counts the iteration, refillLoop looks again.  *)
SpawnReturnsNil ==
    /\ pc' = IF mode = "start" THEN "start" ELSE "check"
    /\ spawned' = IF mode = "start" THEN spawned + 1 ELSE spawned
    /\ UNCHANGED <<mode, gaveUp>>

(* spawn returns an error: Start returns it and launches no refiller,      *)
(* refillLoop logs it and goes back to its select.                         *)
SpawnReturnsError ==
    /\ pc' = IF mode = "start" THEN "failed" ELSE "wait"
    /\ gaveUp' = (mode = "refill")
    /\ UNCHANGED <<mode, spawned>>

(* spawn's rt.Create.  Ids are never reused.  A call that was in flight    *)
(* when the context was cancelled may still succeed.                       *)
SpawnCreate ==
    /\ pc = "create"
    /\ \E id \in Containers \ seen :
          /\ live' = live \cup {id}
          /\ seen' = seen \cup {id}
          /\ hand' = {id}
    /\ pc' = "append"
    /\ UNCHANGED <<poolVars, mode, spawned, gaveUp, lost, failures, ctxDone,
                   draining, claimed>>

SpawnCreateFails ==
    /\ pc = "create"
    /\ \/ ctxDone /\ failures' = failures
       \/ failures < MaxFailures /\ failures' = failures + 1
    /\ SpawnReturnsError
    /\ UNCHANGED <<poolVars, hand, live, seen, lost, ctxDone, draining, claimed>>

(* Mutant of SpawnAppend: the second look at p.closed is missing.          *)
SpawnAppendUnchecked ==
    /\ pc = "append"
    /\ \E id \in hand : avail' = Append(avail, id)
    /\ hand' = {}
    /\ SpawnReturnsNil
    /\ UNCHANGED <<closed, refillCh, rtVars, ctxDone, draining, claimed>>

(* spawn's critical section: a pool closed meanwhile must not get the id.  *)
SpawnAppend ==
    /\ pc = "append"
    /\ IF closed
       THEN /\ pc' = "discard"
            /\ UNCHANGED <<avail, hand, mode, spawned, gaveUp>>
       ELSE /\ \E id \in hand : avail' = Append(avail, id)
            /\ hand' = {}
            /\ SpawnReturnsNil
    /\ UNCHANGED <<closed, refillCh, rtVars, ctxDone, draining, claimed>>

(* Mutant of SpawnDiscard: the container of a closed pool is just dropped. *)
SpawnDrop ==
    /\ pc = "discard"
    /\ hand' = {}
    /\ SpawnReturnsError
    /\ UNCHANGED <<poolVars, rtVars, ctxDone, draining, claimed>>

(* spawn's rt.Remove after the pool was closed; its error is ignored.      *)
SpawnDiscard ==
    /\ pc = "discard"
    /\ \/ live' = live \ hand /\ lost' = lost
       \/ live' = live /\ lost' = lost \cup hand
    /\ hand' = {}
    /\ SpawnReturnsError
    /\ UNCHANGED <<poolVars, seen, failures, ctxDone, draining, claimed>>

(* refillLoop's select: both branches are possible when both are ready.    *)
RefillWake ==
    /\ pc = "wait" /\ refillCh = 1
    /\ refillCh' = 0
    /\ pc' = "check"
    /\ gaveUp' = FALSE
    /\ UNCHANGED <<avail, closed, mode, spawned, hand, rtVars, ctxDone, draining,
                   claimed>>

RefillExit ==
    /\ pc = "wait" /\ ctxDone
    /\ pc' = "exit"
    /\ UNCHANGED <<poolVars, mode, spawned, hand, gaveUp, rtVars, ctxDone,
                   draining, claimed>>

(* Mutant of RefillCheck: off by one.                                      *)
RefillCheckOneMore ==
    /\ pc = "check"
    /\ pc' = IF closed \/ Len(avail) > Target THEN "wait" ELSE "create"
    /\ UNCHANGED <<poolVars, mode, spawned, hand, gaveUp, rtVars, ctxDone,
                   draining, claimed>>

(* refillLoop's inner loop: stop when closed or at target.                 *)
RefillCheck ==
    /\ pc = "check"
    /\ pc' = IF closed \/ Len(avail) >= Target THEN "wait" ELSE "create"
    /\ UNCHANGED <<poolVars, mode, spawned, hand, gaveUp, rtVars, ctxDone,
                   draining, claimed>>

Filler ==
    \/ StartLoop \/ SpawnCreate \/ SpawnCreateFails \/ SpawnAppend
    \/ SpawnDiscard \/ RefillWake \/ RefillExit \/ RefillCheck

Next ==
    \/ Get \/ GetMiss \/ ShutdownClose \/ ShutdownRemove \/ Cancel
    \/ StartCall \/ Filler

(* The goroutines that run the filler and Shutdown are scheduled, and a    *)
(* call of the runtime returns.  No caller is obliged to call.             *)
Spec == Init /\ [][Next]_vars /\ WF_vars(Filler) /\ WF_vars(ShutdownRemove)

-----------------------------------------------------------------------------
(* The variables of the pool keep their types; spawn holds an id exactly   *)
(* between rt.Create and the end of its critical section.                  *)
TypeOK ==
    /\ avail \in Seq(Containers) /\ closed \in BOOLEAN /\ refillCh \in {0, 1}
    /\ mode \in {"start", "refill"} /\ pc \in FillerSteps
    /\ spawned \in 0..Target /\ gaveUp \in BOOLEAN /\ ctxDone \in BOOLEAN
    /\ failures \in 0..MaxFailures
    /\ draining \subseteq Containers /\ claimed \subseteq Containers
    /\ live \subseteq Containers /\ lost \subseteq Containers
    /\ seen \subseteq Containers
    /\ IF pc \in {"append", "discard"} THEN \E id \in Containers : hand = {id}
                                      ELSE hand = {}

(* Start and refillLoop together never warm more than Target containers,   *)
(* however Get interleaves with the unlocked gap between refillLoop's      *)
(* reading of len(p.avail) and spawn's append.                             *)
AvailWithinTarget == Len(avail) <= Target

(* An id Get returned is nowhere else: not ready again, not about to be    *)
(* appended by spawn, not about to be removed by Shutdown; and no id is    *)
(* ready twice.                                                            *)
OneShot ==
    /\ claimed \cap (Warm \cup hand \cup draining) = {}
    /\ Distinct(avail)

(* The pool never removes a container a caller of Get owns, even when      *)
(* Shutdown runs right after the Get.                                      *)
ClaimedStaysLive == claimed \subseteq live

(* A spawn in flight when Shutdown closes the pool does not put its        *)
(* container into the closed pool, where nobody would remove it.           *)
ClosedPoolEmpty == closed => avail = <<>>

(* Every container the pool started is accounted for: ready, claimed,      *)
(* held by spawn or by Shutdown, or one whose removal failed.              *)
NoSilentLeak == live \subseteq Warm \cup claimed \cup hand \cup draining \cup lost

(* refillLoop sleeps on an empty channel only when the pool is at target,  *)
(* closed, or its last pass ended on an error: several Gets that share one *)
(* token are all answered.                                                 *)
NoLostWakeup ==
    pc = "wait" /\ refillCh = 0 => Len(avail) = Target \/ closed \/ gaveUp

(* What makes the invariants above inductive.  While Start runs, the pool  *)
(* holds no more than its loop has appended, and exactly that until the    *)
(* first Get; when spawn is about to append, there is room.                *)
FillerRoom ==
    /\ pc \in {"new", "start", "failed"} => mode = "start"
    /\ pc \in {"wait", "check", "exit"} => mode = "refill"
    /\ mode = "start" => Len(avail) <= spawned
    /\ mode = "start" /\ refillCh = 0 /\ ~closed => Len(avail) = spawned
    /\ mode = "start" /\ pc \in {"create", "append", "discard"} => spawned < Target
    /\ mode = "refill" /\ pc \in {"create", "append"} => Len(avail) < Target

(* The places an id can be in are disjoint and hold only ids the runtime   *)
(* has handed out; warm containers exist, and only a closed pool drains.   *)
IdsApart ==
    /\ Warm \cup hand \cup draining \cup claimed \cup live \subseteq seen
    /\ hand \cap (Warm \cup draining) = {}
    /\ Warm \cup hand \subseteq live
    /\ ~closed => draining = {}

IInv ==
    /\ TypeOK /\ AvailWithinTarget /\ OneShot /\ ClaimedStaysLive
    /\ ClosedPoolEmpty /\ NoSilentLeak /\ NoLostWakeup /\ FillerRoom /\ IdsApart

(* After a successful Start, the pool gets back to Target again and again  *)
(* until it is closed or its context is cancelled, however claims share    *)
(* tokens; a pass that ended on an error waits for the next claim.         *)
RefillsToTarget ==
    []<>\/ Len(avail) = Target \/ closed \/ ctxDone
        \/ pc \in {"new", "failed"} \/ (pc = "wait" /\ gaveUp)

(* "Pool empty when a Create arrives ... refiller will catch up"           *)
(* (docs/warm-pool.md): a pool whose refiller was launched does not stay   *)
(* empty, even if a refill has failed.                                     *)
RefillerCatchesUp ==
    mode = "refill" /\ avail = <<>> ~> avail # <<>> \/ closed \/ ctxDone

(* Once the pool is closed, everything it warmed is eventually gone for    *)
(* good, but for the claimed containers and failed removals: this needs    *)
(* the spawn that races Shutdown to remove its own container.              *)
DrainsAfterShutdown == <>[](closed => live \subseteq claimed \cup lost)

(* A pool hands every container out at most once, the sequence of ready    *)
(* ids being the stock of a Dispenser.                                     *)
Abstract == INSTANCE Dispenser WITH
    Items <- Containers, stock <- Warm, taken <- claimed,
    used <- seen \ hand, open <- ~closed
DispensesOnce == Abstract!Spec
=============================================================================
