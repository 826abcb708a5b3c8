---------------------------- MODULE ReloadProofs -----------------------------
(***************************************************************************)
(* The manager's policy and pools stay in step over every sequence of      *)
(* reloads, for every set of images, policies and workers and every number *)
(* of reloads and claims.  The proof has one step per action.              *)
(***************************************************************************)
EXTENDS Reload, TLAPS

At(o) == state[o[1]][o[2]]

(* Policy p and the pool set m belong together; m only names generations   *)
(* that are built, whose policy no later reload overwrites.                *)
Matches(p, m) ==
    \A i \in Images : IF PoolSpecFor[p][i] = NoPool THEN m[i] = NoPool
                      ELSE m[i] \in 0..gen /\ SpecOf(m[i], i) = PoolSpecFor[p][i]

(* The pair in force, the pair each Create took and the pair the reload is *)
(* about to put in force.                                                  *)
PairsMatch ==
    /\ Matches(policy, pools)
    /\ \A w \in Workers : create[w].pc = "claim" =>
          create[w].policy \in Policies /\ Matches(create[w].policy, create[w].pools)
    /\ reload.pc = "start" => Matches(polOf[gen], reload.merged)

(* No pool of a generation that is not built has been touched.             *)
FutureIsNew ==
    kpd \in {"starting", "serving", "draining"} => \A o \in Object : o[1] > gen => At(o) = "new"

(* Before kpd serves, only its first pools have been warmed.               *)
StartingUp ==
    kpd = "starting" =>
        /\ reload = Quiet /\ retiring = {}
        /\ \A o \in Object : At(o) = "open" => o \in Objects(pools)
        /\ \A o \in Object : At(o) # "partial"

(* A reload in progress has a generation of its own: the pools it has to   *)
(* start are new, those it has warmed are open, and the set it will put in *)
(* force has nothing else but pools that are served now.                   *)
ReloadOwnsItsPools ==
    /\ reload.pc = "idle" => reload = Quiet
    /\ reload.pc # "idle" =>
          /\ \A o \in Objects(pools) \cup retiring : o[1] < gen
          /\ \A o \in reload.warmed : o[1] = gen /\ At(o) = "open"
    /\ reload.pc = "start" =>
          /\ \A o \in reload.toStart : o[1] = gen /\ At(o) = "new"
          /\ Objects(reload.merged)
                \subseteq Objects(pools) \cup reload.toStart \cup reload.warmed
          /\ reload.toStart \cup reload.warmed \subseteq Objects(reload.merged)
          /\ reload.toShutdown = Objects(pools) \ Objects(reload.merged)

(* No pool that waits for its retirement is served or will be again.       *)
RetiringIsOut ==
    /\ retiring \cap Objects(pools) = {}
    /\ \A o \in retiring : o[1] <= gen

(* While kpd serves or shuts down.                                         *)
Serving == Alive => ReloadOwnsItsPools /\ RetiringIsOut

(* Every open pool is known to somebody, after the exit too.               *)
OpenIsKnown ==
    kpd \in {"serving", "draining", "exited"} =>
        \A o \in Object : At(o) = "open" => o \in Known

(* The pools that are served are open until the shutdown.                  *)
ServedIsOpen == kpd = "serving" => \A o \in Objects(pools) : At(o) = "open"

(* What Shutdown has found is closed or on its list, and belongs to no     *)
(* reload under way.                                                       *)
TakenIsDrained ==
    /\ kpd \notin {"draining", "exited"} => taken = {}
    /\ kpd = "exited" => draining = {}
    /\ draining \subseteq taken
    /\ \A o \in taken : /\ o \in draining \/ At(o) = "closed"
                        /\ o[1] <= gen /\ (reload.pc # "idle" => o[1] < gen)

(* A reload fails at the first pool it cannot start.                       *)
OnePartial ==
    /\ Alive /\ reload.pc = "start" => \A o \in Object : o[1] = gen => At(o) # "partial"
    /\ \A o, q \in Object : o[1] = q[1] /\ At(o) = "partial" /\ At(q) = "partial" => o = q

(* The inductive invariant: the properties, the pairs that are not in      *)
(* force yet or any more, and who owns each pool object.                   *)
IInv ==
    /\ TypeOK /\ PairsMatch /\ ClaimHasPolicyLimits /\ FutureIsNew /\ StartingUp
    /\ OpenIsKnown /\ ServedIsOpen /\ Serving /\ TakenIsDrained /\ OnePartial
-----------------------------------------------------------------------------
(* Facts about pool objects.                                               *)

(* The objects of a pool set are the pairs <<m[i], i>>.                    *)
LEMMA ObjectsFacts ==
    ASSUME NEW m \in [Images -> Generation]
    PROVE  /\ Objects(m) \subseteq Object
           /\ \A o \in Object : o \in Objects(m) <=> m[o[2]] = o[1]
<1>1. \A o \in Objects(m) : o \in Object /\ m[o[2]] = o[1]
  BY DEF Objects, Object, Generation
<1>2. \A g \in Gens, i \in Images : m[i] = g => m[i] # NoPool
  BY SpecAssumption DEF Gens
<1>3. ASSUME NEW o \in Object, m[o[2]] = o[1] PROVE o \in Objects(m)
  <2>1. o[1] \in Gens /\ o[2] \in Images /\ o = <<o[1], o[2]>>
    BY DEF Object
  <2>2. m[o[2]] # NoPool
    BY <1>2, <1>3, <2>1
  <2> QED
    BY <1>3, <2>1, <2>2 DEF Objects
<1> QED
  BY <1>1, <1>3

(* Move changes the state of the object it is given and of no other.       *)
States == {"new", "open", "partial", "closed"}
LEMMA MoveFacts ==
    ASSUME state \in [Gens -> [Images -> States]], NEW o \in Object,
           NEW s \in States, Move({o}, s)
    PROVE  /\ state' \in [Gens -> [Images -> States]]
           /\ \A q \in Object : At(q)' = IF q = o THEN s ELSE At(q)
<1>1. \A g \in Gens, i \in Images : state'[g][i] = IF <<g, i>> = o THEN s ELSE state[g][i]
  BY DEF Move
<1>2. state' \in [Gens -> [Images -> States]]
  BY DEF Move
<1>3. ASSUME NEW q \in Object PROVE At(q)' = IF q = o THEN s ELSE At(q)
  <2>1. q[1] \in Gens /\ q[2] \in Images /\ q = <<q[1], q[2]>>
    BY DEF Object
  <2> QED
    BY <1>1, <2>1 DEF At
<1> QED
  BY <1>2, <1>3

(* An idle reload and an idle worker have their types.                     *)
LEMMA IdleFacts ==
    /\ None \in [Images -> Generation]
    /\ Quiet.pc = "idle" /\ Quiet.warmed = {} /\ Quiet.toStart = {}
    /\ Quiet.merged = None /\ Quiet.toShutdown = {}
    /\ Quiet \in [pc : {"idle", "start", "rollback"}, merged : [Images -> Generation],
                  toStart : SUBSET Object, warmed : SUBSET Object,
                  toShutdown : SUBSET Object]
    /\ NoCreate \in [pc : {"idle", "claim"}, policy : Policies \cup {NoPool},
                     pools : [Images -> Generation]]
    /\ NoCreate.pc = "idle"
<1>1. None \in [Images -> Generation]
  BY DEF None, Generation
<1> QED
  BY <1>1 DEF Quiet, NoCreate

-----------------------------------------------------------------------------
(* A new manager satisfies the invariant.                                  *)
LEMMA InitIInv == Init => IInv
<1> SUFFICES ASSUME Init PROVE IInv
  OBVIOUS
<1> USE SpecAssumption DEF Init
<1>0. gen = 0 /\ 0 \in Gens /\ pools \in [Images -> Generation]
  BY DEF buildPools, Gens, Generation
<1>1. TypeOK
  BY <1>0, IdleFacts DEF TypeOK, Gens
<1>2. PairsMatch
  BY <1>0, IdleFacts DEF PairsMatch, Matches, SpecOf, buildPools
<1>3. ClaimHasPolicyLimits
  BY <1>0 DEF ClaimHasPolicyLimits
<1>4. FutureIsNew
  BY <1>0 DEF FutureIsNew, At, Object
<1>5. StartingUp
  BY <1>0 DEF StartingUp, At, Object
<1>6. OpenIsKnown /\ ServedIsOpen
  BY <1>0 DEF OpenIsKnown, ServedIsOpen
<1>7. Serving
  BY <1>0 DEF Serving, Alive
<1>8. TakenIsDrained
  BY <1>0 DEF TakenIsDrained
<1>9. OnePartial
  BY <1>0 DEF OnePartial, At, Object, Alive
<1> QED
  BY <1>1, <1>2, <1>3, <1>4, <1>5, <1>6, <1>7, <1>8, <1>9 DEF IInv

(* The pools that are served are objects of generations that are built.    *)
LEMMA ServedIsBuilt ==
    ASSUME TypeOK, PairsMatch
    PROVE  \A o \in Objects(pools) :
              o \in Object /\ o[1] \in 0..gen /\ pools[o[2]] = o[1] /\ o[2] \in Images
<1>1. pools \in [Images -> Generation] /\ gen \in Gens
  BY DEF TypeOK
<1>2. TAKE o \in Objects(pools)
<1>3. o \in Object /\ pools[o[2]] = o[1]
  BY <1>1, ObjectsFacts
<1>4. o[1] \in Gens /\ o[2] \in Images
  BY <1>3 DEF Object
<1>5. pools[o[2]] # NoPool
  BY <1>3, <1>4, SpecAssumption DEF Gens
<1> QED
  BY <1>3, <1>4, <1>5 DEF PairsMatch, Matches

(* A Create that is done with its snapshot leaves the manager as it was.   *)
LEMMA ManagerUntouched ==
    ASSUME IInv, policy' = policy, pools' = pools, polOf' = polOf, state' = state, kpd' = kpd,
           reload' = reload, retiring' = retiring, draining' = draining, gen' = gen,
           taken' = taken, \A o \in Object : At(o)' = At(o),
           \A v \in Workers : create'[v] = create[v] \/ create'[v].pc # "claim"
    PROVE  /\ PairsMatch' /\ FutureIsNew' /\ StartingUp' /\ OpenIsKnown' /\ ServedIsOpen' /\ Serving'
           /\ TakenIsDrained' /\ OnePartial'
<1>1. PairsMatch'
  <2>1. Matches(policy, pools)' /\ (reload'.pc = "start" => Matches(polOf[gen], reload.merged)')
    BY DEF IInv, PairsMatch, Matches, SpecOf
  <2>2. ASSUME NEW w \in Workers, create'[w].pc = "claim"
        PROVE  create'[w].policy \in Policies /\ Matches(create[w].policy, create[w].pools)'
    <3>1. create'[w] = create[w] /\ create[w].policy \in Policies
          /\ Matches(create[w].policy, create[w].pools)
      BY <2>2 DEF IInv, PairsMatch
    <3> QED
      BY <3>1 DEF Matches, SpecOf
  <2> QED
    BY <2>1, <2>2 DEF PairsMatch
<1>2. FutureIsNew' /\ StartingUp' /\ OnePartial'
  BY DEF IInv, FutureIsNew, StartingUp, OnePartial, Alive, Objects
<1>3. OpenIsKnown' /\ ServedIsOpen'
  BY DEF IInv, OpenIsKnown, ServedIsOpen, Known, At, Objects
<1>4. Serving'
  BY DEF IInv, Serving, ReloadOwnsItsPools, RetiringIsOut, Alive, At, Objects
<1>5. TakenIsDrained'
  BY DEF IInv, TakenIsDrained, At
<1> QED
  BY <1>1, <1>2, <1>3, <1>4, <1>5

(* Every step of the manager and of kpd preserves the invariant.           *)
LEMMA NextIInv == IInv /\ [Next]_vars => IInv'
<1> SUFFICES ASSUME IInv, [Next]_vars PROVE IInv'
  OBVIOUS
<1> USE DEF IInv
<1>A. /\ TypeOK /\ state \in [Gens -> [Images -> States]] /\ gen \in 0..MaxReloads
      /\ pools \in [Images -> Generation] /\ reload.merged \in [Images -> Generation]
      /\ MaxReloads \in Nat
  BY SpecAssumption DEF TypeOK, States, Gens
<1>B. /\ Objects(pools) \subseteq Object /\ Objects(reload.merged) \subseteq Object
      /\ reload.toStart \subseteq Object /\ reload.warmed \subseteq Object
      /\ retiring \subseteq Object /\ draining \subseteq Object /\ taken \subseteq Object
      /\ \A o \in Object : o[1] \in 0..MaxReloads /\ o[2] \in Images
      /\ \A o \in Objects(pools) : o[1] \in 0..gen /\ pools[o[2]] = o[1]
  BY <1>A, ObjectsFacts, ServedIsBuilt DEF Object, Gens, TypeOK
<1>1. CASE StartPool
  <2>1. PICK o \in Objects(pools) : At(o) = "new" /\
                 (\/ Move({o}, "open") /\ kpd' = kpd
                  \/ Move({o}, "partial") /\ kpd' = "aborted")
    BY <1>1 DEF StartPool, At
  <2>2. o \in Object
    BY <1>B, <2>1
  <2>3. PICK s \in {"open", "partial"} :
          /\ Move({o}, s) /\ kpd' = IF s = "open" THEN kpd ELSE "aborted"
    BY <2>1
  <2>4. /\ state' \in [Gens -> [Images -> States]]
        /\ \A q \in Object : At(q)' = IF q = o THEN s ELSE At(q)
    BY <1>A, <2>2, <2>3, MoveFacts DEF States
  <2>5. o[1] <= gen
    BY <1>A, <1>B, <2>1
  <2>6. TypeOK'
    BY <1>A, <1>B, <1>1, <2>1, <2>2, <2>3, <2>4, <2>5 DEF StartPool,
       managerVars, histVars, TypeOK, States
  <2>7. FutureIsNew'
    BY <1>A, <1>B, <1>1, <2>1, <2>2, <2>3, <2>4, <2>5 DEF StartPool,
       managerVars, histVars, FutureIsNew, States
  <2>8. /\ PairsMatch' /\ ClaimHasPolicyLimits' /\ StartingUp' /\ OpenIsKnown' /\ ServedIsOpen'
        /\ Serving' /\ TakenIsDrained' /\ OnePartial'
    BY <1>A, <1>B, <1>1, <2>1, <2>2, <2>3, <2>4, <2>5 DEF StartPool,
       managerVars, histVars, PairsMatch, Matches, SpecOf,
       ClaimHasPolicyLimits, StartingUp, OpenIsKnown, ServedIsOpen, Known, Serving,
       ReloadOwnsItsPools, RetiringIsOut, TakenIsDrained, OnePartial, Alive
  <2> QED
    BY <2>6, <2>7, <2>8 DEF IInv
<1>2. CASE Serve
  <2>1. \A o \in Object : At(o)' = At(o)
    BY <1>2 DEF Serve, At
  <2>2. OpenIsKnown' /\ ServedIsOpen'
    BY <1>A, <1>B, <1>2, <2>1, IdleFacts DEF Serve, managerVars, histVars,
       OpenIsKnown, ServedIsOpen, Known, StartingUp, At
  <2>3. Serving'
    BY <1>A, <1>B, <1>2, <2>1, IdleFacts DEF Serve, managerVars, histVars,
       Serving, ReloadOwnsItsPools, RetiringIsOut, StartingUp
  <2>4. /\ TypeOK' /\ PairsMatch' /\ ClaimHasPolicyLimits' /\ FutureIsNew'
        /\ StartingUp' /\ TakenIsDrained' /\ OnePartial'
    BY <1>A, <1>B, <1>2, <2>1 DEF Serve, managerVars, histVars, TypeOK,
       PairsMatch, Matches, SpecOf, ClaimHasPolicyLimits, FutureIsNew,
       StartingUp, TakenIsDrained, OnePartial
  <2> QED
    BY <2>2, <2>3, <2>4 DEF IInv
<1>3. ASSUME NEW p \in Policies, ReloadBegin(p) PROVE IInv'
  <2>1. \A o \in Object : At(o)' = At(o)
    BY <1>3 DEF ReloadBegin, At
  <2>2. gen + 1 \in Gens
    BY <1>A, <1>3, SpecAssumption DEF ReloadBegin, Gens
  <2> DEFINE desired == buildPools(p, gen + 1)
             merged  == [i \in Images |-> IF samePoolSpec(i, p) THEN pools[i]
                                          ELSE desired[i]]
  <2>3. /\ reload' = [pc |-> "start", merged |-> merged, warmed |-> {},
                      toStart    |-> Objects(merged) \ Objects(pools),
                      toShutdown |-> Objects(pools) \ Objects(merged)]
        /\ gen' = gen + 1 /\ polOf' = [polOf EXCEPT ![gen + 1] = p]
        /\ pools' = pools /\ policy' = policy /\ create' = create /\ kpd' = kpd
        /\ retiring' = retiring
    BY <1>3 DEF ReloadBegin, managerVars
  <2>4. \A i \in Images : \/ merged[i] = pools[i] /\ samePoolSpec(i, p)
                          \/ merged[i] = gen + 1 /\ PoolSpecFor[p][i] # NoPool
                          \/ merged[i] = NoPool /\ PoolSpecFor[p][i] = NoPool
    BY DEF buildPools
  <2>5. merged \in [Images -> Generation]
    BY <1>A, <2>2, <2>4 DEF Generation
  <2>6. /\ \A o \in Objects(merged) : o \in Objects(pools) \/ o[1] = gen + 1
        /\ Objects(merged) \subseteq Object
    <3>1. /\ Objects(merged) \subseteq Object
          /\ \A o \in Object : o \in Objects(merged) <=> merged[o[2]] = o[1]
          /\ \A o \in Object : o \in Objects(pools) <=> pools[o[2]] = o[1]
      BY <1>A, <2>5, ObjectsFacts
    <3>2. NoPool \notin 0..MaxReloads
      BY SpecAssumption
    <3> HIDE DEF merged
    <3> QED
      BY <1>B, <2>4, <3>1, <3>2
  <2>7. \A g \in 0..gen : g \in Gens /\ polOf'[g] = polOf[g]
    BY <1>A, <2>3 DEF TypeOK, Gens
  <2>8. polOf'[gen'] = p
    BY <1>A, <2>2, <2>3 DEF TypeOK
  <2> HIDE DEF merged
  <2>9. TypeOK'
    BY <1>A, <1>B, <1>3, <2>1, <2>2, <2>3, <2>4, <2>5, <2>6, <2>7, <2>8 DEF
       ReloadBegin, managerVars, histVars, TypeOK
  <2>10. PairsMatch'
    <3>1. Matches(policy, pools)'
      BY <1>A, <2>3, <2>7 DEF PairsMatch, Matches, SpecOf
    <3>3. ASSUME NEW w \in Workers, create'[w].pc = "claim"
          PROVE  /\ create'[w].policy \in Policies
                 /\ Matches(create[w].policy, create[w].pools)'
      BY <1>A, <2>3, <2>7, <3>3 DEF PairsMatch, Matches, SpecOf
    <3>2. Matches(polOf[gen], reload.merged)'
      <4> SUFFICES ASSUME NEW i \in Images
                   PROVE  IF PoolSpecFor[p][i] = NoPool THEN merged[i] = NoPool
                          ELSE /\ merged[i] \in 0..gen'
                               /\ PoolSpecFor[polOf'[merged[i]]][i] = PoolSpecFor[p][i]
        BY <2>3, <2>8 DEF Matches, SpecOf
      <4>1. CASE merged[i] = pools[i] /\ samePoolSpec(i, p)
        BY <1>A, <2>3, <2>7, <4>1 DEF samePoolSpec, SpecOf, PairsMatch, Matches
      <4>2. CASE merged[i] = gen + 1 /\ PoolSpecFor[p][i] # NoPool
        BY <1>A, <2>3, <2>8, <4>2
      <4>3. CASE merged[i] = NoPool /\ PoolSpecFor[p][i] = NoPool
        BY <4>3
      <4> QED
        BY <2>4, <4>1, <4>2, <4>3
    <3> QED
      BY <2>3, <3>1, <3>2, <3>3 DEF PairsMatch
  <2>11. FutureIsNew'
    BY <1>A, <1>B, <1>3, <2>1, <2>2, <2>3, <2>4, <2>5, <2>6, <2>7, <2>8 DEF
       ReloadBegin, managerVars, histVars, FutureIsNew
  <2>12. StartingUp'
    BY <1>A, <1>B, <1>3, <2>1, <2>2, <2>3, <2>4, <2>5, <2>6, <2>7, <2>8 DEF
       ReloadBegin, managerVars, histVars, StartingUp, Alive
  <2>13. OpenIsKnown' /\ ServedIsOpen'
    BY <1>A, <1>B, <1>3, <2>1, <2>2, <2>3, <2>4, <2>5, <2>6, <2>7, <2>8,
       IdleFacts DEF ReloadBegin, managerVars, histVars, OpenIsKnown, ServedIsOpen, Known,
       FutureIsNew, Serving, ReloadOwnsItsPools
  <2>14. Serving'
    <3>1. ASSUME Alive
          PROVE  /\ RetiringIsOut'
                 /\ \A o \in Objects(pools) \cup retiring : o[1] < gen'
      BY <1>A, <1>B, <2>3, <3>1 DEF TypeOK, Serving, RetiringIsOut
    <3>2. ASSUME Alive, NEW o \in Objects(merged) \ Objects(pools)
          PROVE  o[1] = gen' /\ At(o)' = "new"
      BY <1>A, <1>B, <2>1, <2>3, <2>6, <3>2 DEF FutureIsNew, Alive
    <3> QED
      BY <2>3, <3>1, <3>2 DEF Serving, ReloadOwnsItsPools, Alive
  <2>15. /\ ClaimHasPolicyLimits' /\ TakenIsDrained'
    BY <1>A, <1>B, <1>3, <2>1, <2>3 DEF ReloadBegin, ClaimHasPolicyLimits, TakenIsDrained
  <2>16. OnePartial'
    BY <1>A, <1>B, <1>3, <2>1, <2>3 DEF ReloadBegin, Alive, FutureIsNew, OnePartial
  <2> QED
    BY <2>9, <2>10, <2>11, <2>12, <2>13, <2>14, <2>15, <2>16 DEF IInv
<1>4. CASE ReloadStart
  <2>1. PICK o \in reload.toStart, s \in {"open", "partial"} :
          /\ Move({o}, s)
          /\ reload' = IF s = "open"
                        THEN [reload EXCEPT !.toStart = @ \ {o}, !.warmed = @ \cup {o}]
                        ELSE [reload EXCEPT !.pc = "rollback"]
    BY <1>4 DEF ReloadStart
  <2>2. o \in Object /\ s \in States
    BY <1>A, <2>1 DEF TypeOK, States
  <2>3. /\ state' \in [Gens -> [Images -> States]]
        /\ \A q \in Object : At(q)' = IF q = o THEN s ELSE At(q)
    BY <1>A, <2>1, <2>2, MoveFacts DEF States
  <2>4. /\ reload.pc = "start" /\ Alive
        /\ UNCHANGED <<policy, pools, gen, polOf, kpd, retiring, draining,
                       create, claims, taken>>
    BY <1>4 DEF ReloadStart, managerVars, histVars
  <2>5. /\ reload'.merged = reload.merged /\ reload'.toShutdown = reload.toShutdown
        /\ s = "open" => /\ reload'.pc = "start" /\ reload'.toStart = reload.toStart \ {o}
                         /\ reload'.warmed = reload.warmed \cup {o}
        /\ s = "partial" => reload'.pc = "rollback" /\ reload'.warmed = reload.warmed
    BY <1>A, <2>1, <2>4 DEF TypeOK
  <2>6. TypeOK'
    BY <1>A, <1>B, <2>1, <2>2, <2>3, <2>4, <2>5 DEF Alive, TypeOK, States
  <2>7. FutureIsNew'
    BY <1>A, <1>B, <2>1, <2>2, <2>3, <2>4, <2>5 DEF Alive, FutureIsNew,
       Serving, ReloadOwnsItsPools, RetiringIsOut
  <2>8. OpenIsKnown' /\ ServedIsOpen'
    BY <1>A, <1>B, <2>1, <2>2, <2>3, <2>4, <2>5 DEF Alive, OpenIsKnown, ServedIsOpen, Known,
       Serving, ReloadOwnsItsPools, RetiringIsOut
  <2>9. TakenIsDrained'
    BY <1>A, <1>B, <2>1, <2>2, <2>3, <2>4, <2>5 DEF TakenIsDrained, Serving, ReloadOwnsItsPools
  <2>10. /\ PairsMatch' /\ ClaimHasPolicyLimits' /\ StartingUp' /\ Serving'
        /\ OnePartial'
    BY <1>A, <1>B, <2>1, <2>2, <2>3, <2>4, <2>5 DEF Alive, PairsMatch, Matches,
       SpecOf, ClaimHasPolicyLimits, StartingUp, Serving, ReloadOwnsItsPools,
       RetiringIsOut, OnePartial
  <2> QED
    BY <2>6, <2>7, <2>8, <2>9, <2>10 DEF IInv
<1>5. CASE ReloadRollback /\ reload.warmed = {}
  <2>1. \A o \in Object : At(o)' = At(o)
    BY <1>5 DEF ReloadRollback, At
  <2>2. OpenIsKnown' /\ ServedIsOpen'
    BY <1>A, <1>B, <1>5, <2>1, IdleFacts DEF ReloadRollback, Alive,
       managerVars, histVars, OpenIsKnown, ServedIsOpen, Known, Serving, ReloadOwnsItsPools,
       RetiringIsOut
  <2>3. /\ TypeOK' /\ PairsMatch' /\ ClaimHasPolicyLimits' /\ FutureIsNew'
        /\ StartingUp' /\ Serving' /\ TakenIsDrained' /\ OnePartial'
    BY <1>A, <1>B, <1>5, <2>1, IdleFacts DEF ReloadRollback, Alive,
       managerVars, histVars, TypeOK, PairsMatch, Matches, SpecOf,
       ClaimHasPolicyLimits, FutureIsNew, StartingUp, Serving,
       ReloadOwnsItsPools, RetiringIsOut, TakenIsDrained, OnePartial
  <2> QED
    BY <2>2, <2>3 DEF IInv
<1>6. CASE ReloadRollback /\ reload.warmed # {}
  <2> DEFINE s == "closed"
  <2>1. PICK o \in reload.warmed :
          Move({o}, s) /\ reload' = [reload EXCEPT !.warmed = @ \ {o}]
    BY <1>6 DEF ReloadRollback
  <2>2. o \in Object /\ s \in States
    BY <1>A, <2>1 DEF TypeOK, States
  <2>3. /\ state' \in [Gens -> [Images -> States]]
        /\ \A q \in Object : At(q)' = IF q = o THEN s ELSE At(q)
    BY <1>A, <2>1, <2>2, MoveFacts DEF States
  <2>4. /\ reload.pc = "rollback" /\ Alive
        /\ UNCHANGED <<policy, pools, gen, polOf, kpd, retiring, draining,
                       create, claims, taken>>
    BY <1>6 DEF ReloadRollback, managerVars, histVars
  <2>5. reload'.pc = "rollback" /\ reload'.warmed = reload.warmed \ {o}
    BY <1>A, <2>1, <2>4 DEF TypeOK
  <2>6. TypeOK'
    BY <1>A, <1>B, <2>1, <2>2, <2>3, <2>4, <2>5 DEF Alive, TypeOK, States
  <2>7. FutureIsNew'
    BY <1>A, <1>B, <2>1, <2>2, <2>3, <2>4, <2>5 DEF Alive, FutureIsNew,
       Serving, ReloadOwnsItsPools, RetiringIsOut
  <2>8. OpenIsKnown' /\ ServedIsOpen'
    BY <1>A, <1>B, <2>1, <2>2, <2>3, <2>4, <2>5 DEF Alive, OpenIsKnown, ServedIsOpen, Known,
       Serving, ReloadOwnsItsPools, RetiringIsOut
  <2>9. TakenIsDrained'
    BY <1>A, <1>B, <2>1, <2>2, <2>3, <2>4, <2>5 DEF TakenIsDrained, Serving, ReloadOwnsItsPools
  <2>10. /\ PairsMatch' /\ ClaimHasPolicyLimits' /\ StartingUp' /\ Serving'
        /\ OnePartial'
    BY <1>A, <1>B, <2>1, <2>2, <2>3, <2>4, <2>5 DEF Alive, PairsMatch, Matches,
       SpecOf, ClaimHasPolicyLimits, StartingUp, Serving, ReloadOwnsItsPools,
       RetiringIsOut, OnePartial
  <2> QED
    BY <2>6, <2>7, <2>8, <2>9, <2>10 DEF IInv
<1>7. CASE ReloadSwap
  <2>1. \A o \in Object : At(o)' = At(o)
    BY <1>7 DEF ReloadSwap, At
  <2>2. OpenIsKnown' /\ ServedIsOpen'
    BY <1>A, <1>B, <1>7, <2>1, IdleFacts DEF ReloadSwap, Alive, managerVars,
       histVars, OpenIsKnown, ServedIsOpen, Known, Serving, ReloadOwnsItsPools, RetiringIsOut
  <2>3. /\ TypeOK' /\ PairsMatch' /\ ClaimHasPolicyLimits' /\ FutureIsNew'
        /\ StartingUp' /\ Serving' /\ TakenIsDrained' /\ OnePartial'
    BY <1>A, <1>B, <1>7, <2>1, IdleFacts DEF ReloadSwap, Alive, managerVars,
       histVars, TypeOK, PairsMatch, Matches, SpecOf, ClaimHasPolicyLimits,
       FutureIsNew, StartingUp, Serving, ReloadOwnsItsPools, RetiringIsOut,
       TakenIsDrained, OnePartial
  <2> QED
    BY <2>2, <2>3 DEF IInv
<1>8. CASE Retire
  <2> DEFINE s == "closed"
  <2>1. PICK o \in retiring : Move({o}, s) /\ retiring' = retiring \ {o}
    BY <1>8 DEF Retire
  <2>2. o \in Object /\ s \in States
    BY <1>A, <2>1 DEF TypeOK, States
  <2>3. /\ state' \in [Gens -> [Images -> States]]
        /\ \A q \in Object : At(q)' = IF q = o THEN s ELSE At(q)
    BY <1>A, <2>1, <2>2, MoveFacts DEF States
  <2>4. TypeOK'
    BY <1>A, <1>B, <1>8, <2>1, <2>2, <2>3 DEF Retire, Alive, managerVars,
       histVars, TypeOK, States
  <2>5. FutureIsNew'
    BY <1>A, <1>B, <1>8, <2>1, <2>2, <2>3 DEF Retire, Alive, managerVars,
       histVars, FutureIsNew, Serving, ReloadOwnsItsPools, RetiringIsOut
  <2>6. OpenIsKnown' /\ ServedIsOpen'
    BY <1>A, <1>B, <1>8, <2>1, <2>2, <2>3 DEF Retire, Alive, managerVars,
       histVars, OpenIsKnown, ServedIsOpen, Known, Serving, ReloadOwnsItsPools, RetiringIsOut
  <2>7. /\ PairsMatch' /\ ClaimHasPolicyLimits' /\ StartingUp' /\ Serving'
        /\ OnePartial'
    BY <1>A, <1>B, <1>8, <2>1, <2>2, <2>3 DEF Retire, Alive, managerVars,
       histVars, PairsMatch, Matches, SpecOf, ClaimHasPolicyLimits, StartingUp,
       Serving, ReloadOwnsItsPools, RetiringIsOut, OnePartial
  <2>8. TakenIsDrained'
    BY <1>A, <1>B, <1>8, <2>1, <2>2, <2>3 DEF Retire, histVars, TakenIsDrained
  <2> QED
    BY <2>4, <2>5, <2>6, <2>7, <2>8 DEF IInv
<1>9. ASSUME NEW w \in Workers, CreateSnapshot(w) PROVE IInv'
  <2>1. \A o \in Object : At(o)' = At(o)
    BY <1>9 DEF CreateSnapshot, At
  <2>2. PairsMatch'
    <3>1. /\ create' = [create EXCEPT ![w] = [pc |-> "claim", policy |-> policy,
                                             pools |-> pools]]
          /\ UNCHANGED <<policy, pools, gen, polOf, reload>>
      BY <1>9 DEF CreateSnapshot, managerVars, histVars
    <3>2. ASSUME NEW v \in Workers, create'[v].pc = "claim"
          PROVE  /\ create'[v].policy \in Policies
                 /\ Matches(create[v].policy, create[v].pools)'
      BY <1>A, <3>1, <3>2 DEF TypeOK, PairsMatch, Matches, SpecOf
    <3> QED
      BY <3>1, <3>2 DEF PairsMatch, Matches, SpecOf
  <2>3. /\ TypeOK' /\ ClaimHasPolicyLimits' /\ FutureIsNew' /\ StartingUp'
        /\ OpenIsKnown' /\ ServedIsOpen' /\ Serving' /\ TakenIsDrained' /\ OnePartial'
    BY <1>A, <1>B, <1>9, <2>1, IdleFacts DEF CreateSnapshot, Alive,
       managerVars, histVars, TypeOK, ClaimHasPolicyLimits, FutureIsNew,
       StartingUp, OpenIsKnown, ServedIsOpen, Known, Serving, ReloadOwnsItsPools,
       RetiringIsOut, TakenIsDrained, OnePartial
  <2> QED
    BY <2>2, <2>3 DEF IInv
<1>10. ASSUME NEW w \in Workers, CreateClaim(w) PROVE IInv'
  <2>1. \A o \in Object : At(o)' = At(o)
    BY <1>10 DEF CreateClaim, At
  <2>2. TypeOK'
    <3>1. PICK i \in Images, limits \in {"policy", "own"}, env \in {"none", "own"} :
            /\ create[w].pools[i] # NoPool
            /\ claims' = claims \cup {[limits |-> limits, env |-> env,
                                         wanted |-> PoolSpecFor[create[w].policy][i],
                                         got |-> SpecOf(create[w].pools[i], i)]}
      BY <1>10 DEF CreateClaim
    <3>2. create[w].policy \in Policies /\ create[w].pools[i] \in Gens
      BY <1>10, <3>1 DEF CreateClaim, PairsMatch, TypeOK, Generation
    <3>3. /\ PoolSpecFor[create[w].policy][i] \in Specs \cup {NoPool}
          /\ SpecOf(create[w].pools[i], i) \in Specs \cup {NoPool}
      BY <3>1, <3>2, SpecAssumption DEF SpecOf, TypeOK
    <3>4. claims' \subseteq [limits : {"policy", "own"}, env : {"none", "own"},
                             wanted : Specs \cup {NoPool}, got : Specs \cup {NoPool}]
      BY <3>1, <3>3 DEF TypeOK
    <3> QED
      BY <1>10, <3>4, IdleFacts DEF CreateClaim, managerVars, TypeOK
  <2>3. /\ policy' = policy /\ pools' = pools /\ polOf' = polOf /\ state' = state /\ kpd' = kpd
        /\ reload' = reload /\ retiring' = retiring /\ draining' = draining /\ gen' = gen
        /\ taken' = taken
        /\ \A v \in Workers : create'[v] = create[v] \/ create'[v].pc # "claim"
    BY <1>10, <2>2, IdleFacts DEF CreateClaim, managerVars, TypeOK
  <2>4. ClaimHasPolicyLimits'
    <3>1. PICK i \in Images, limits \in {"policy", "own"}, env \in {"none", "own"} :
            /\ create[w].pools[i] # NoPool /\ poolMatchesResolved(limits, env)
            /\ claims' = claims \cup {[limits |-> limits, env |-> env,
                                         wanted |-> PoolSpecFor[create[w].policy][i],
                                         got |-> SpecOf(create[w].pools[i], i)]}
      BY <1>10 DEF CreateClaim
    <3>2. create[w].pc = "claim" /\ PairsMatch /\ ClaimHasPolicyLimits
      BY <1>10 DEF CreateClaim
    <3>3. SpecOf(create[w].pools[i], i) = PoolSpecFor[create[w].policy][i]
      BY <3>1, <3>2 DEF PairsMatch, Matches
    <3> QED
      BY <3>1, <3>2, <3>3 DEF ClaimHasPolicyLimits, poolMatchesResolved
  <2>5. PairsMatch' /\ FutureIsNew' /\ StartingUp' /\ OpenIsKnown' /\ ServedIsOpen' /\ Serving'
        /\ TakenIsDrained' /\ OnePartial'
    BY <2>1, <2>3, ManagerUntouched
  <2> QED
    BY <2>2, <2>4, <2>5 DEF IInv
<1>11. ASSUME NEW w \in Workers, CreateColdStart(w) PROVE IInv'
  <2>1. \A o \in Object : At(o)' = At(o)
    BY <1>11 DEF CreateColdStart, At
  <2>2. TypeOK' /\ ClaimHasPolicyLimits'
    BY <1>11, IdleFacts DEF CreateColdStart, managerVars, histVars, TypeOK, ClaimHasPolicyLimits
  <2>3. /\ policy' = policy /\ pools' = pools /\ polOf' = polOf /\ state' = state /\ kpd' = kpd
        /\ reload' = reload /\ retiring' = retiring /\ draining' = draining /\ gen' = gen
        /\ taken' = taken
        /\ \A v \in Workers : create'[v] = create[v] \/ create'[v].pc # "claim"
    BY <1>11, IdleFacts DEF CreateColdStart, managerVars, histVars, TypeOK
  <2>4. PairsMatch' /\ FutureIsNew' /\ StartingUp' /\ OpenIsKnown' /\ ServedIsOpen' /\ Serving'
        /\ TakenIsDrained' /\ OnePartial'
    BY <2>1, <2>3, ManagerUntouched
  <2> QED
    BY <2>2, <2>4 DEF IInv
<1>12. CASE ShutdownBegin
  <2>1. \A o \in Object : At(o)' = At(o)
    BY <1>12 DEF ShutdownBegin, At
  <2>2. TakenIsDrained'
    BY <1>A, <1>B, <1>12, <2>1 DEF ShutdownBegin, TakenIsDrained, Serving, Alive,
       ReloadOwnsItsPools
  <2>3. /\ TypeOK' /\ PairsMatch' /\ ClaimHasPolicyLimits' /\ FutureIsNew'
        /\ StartingUp' /\ OpenIsKnown' /\ ServedIsOpen' /\ Serving' /\ OnePartial'
    BY <1>A, <1>B, <1>12, <2>1, IdleFacts DEF ShutdownBegin, managerVars,
       histVars, TypeOK, PairsMatch, Matches, SpecOf, ClaimHasPolicyLimits,
       FutureIsNew, StartingUp, OpenIsKnown, ServedIsOpen, Known, Serving, ReloadOwnsItsPools,
       RetiringIsOut, OnePartial, Alive
  <2> QED
    BY <2>2, <2>3 DEF IInv
<1>13. CASE ShutdownPool
  <2> DEFINE s == "closed"
  <2>1. PICK o \in draining : Move({o}, s) /\ draining' = draining \ {o}
    BY <1>13 DEF ShutdownPool
  <2>2. o \in Object /\ s \in States
    BY <1>A, <2>1 DEF TypeOK, States
  <2>3. /\ state' \in [Gens -> [Images -> States]]
        /\ \A q \in Object : At(q)' = IF q = o THEN s ELSE At(q)
    BY <1>A, <2>1, <2>2, MoveFacts DEF States
  <2>4. TypeOK'
    BY <1>A, <1>B, <1>13, <2>1, <2>2, <2>3 DEF ShutdownPool, managerVars,
       histVars, TypeOK, States
  <2>5. /\ PairsMatch' /\ ClaimHasPolicyLimits' /\ FutureIsNew' /\ StartingUp'
        /\ OpenIsKnown' /\ ServedIsOpen' /\ OnePartial'
    BY <1>A, <1>B, <1>13, <2>1, <2>2, <2>3 DEF ShutdownPool, managerVars,
       histVars, PairsMatch, Matches, SpecOf, ClaimHasPolicyLimits,
       FutureIsNew, StartingUp, OpenIsKnown, ServedIsOpen, Known, TakenIsDrained,
       OnePartial, Alive
  <2>6. TakenIsDrained'
    BY <1>A, <1>B, <1>13, <2>1, <2>2, <2>3 DEF ShutdownPool, histVars, TakenIsDrained
  <2>7. Serving'
    BY <1>A, <1>B, <1>13, <2>1, <2>2, <2>3 DEF ShutdownPool, managerVars, histVars,
       TakenIsDrained, Serving, ReloadOwnsItsPools, RetiringIsOut, Alive
  <2> QED
    BY <2>4, <2>5, <2>6, <2>7 DEF IInv
<1>14. CASE ShutdownExit
  <2>1. \A o \in Object : At(o)' = At(o)
    BY <1>14 DEF ShutdownExit, At
  <2>2. OnePartial'
    BY <1>A, <1>B, <1>14, <2>1 DEF ShutdownExit, managerVars, histVars, OnePartial, Alive
  <2>3. /\ TypeOK' /\ PairsMatch' /\ ClaimHasPolicyLimits' /\ FutureIsNew'
        /\ StartingUp' /\ OpenIsKnown' /\ ServedIsOpen' /\ Serving' /\ TakenIsDrained'
    BY <1>A, <1>B, <1>14, <2>1 DEF ShutdownExit, managerVars, histVars, TypeOK,
       PairsMatch, Matches, SpecOf, ClaimHasPolicyLimits, FutureIsNew,
       StartingUp, OpenIsKnown, ServedIsOpen, Known, Serving, ReloadOwnsItsPools,
       RetiringIsOut, TakenIsDrained, Alive
  <2> QED
    BY <2>2, <2>3 DEF IInv
<1>15. CASE UNCHANGED vars
  <2>1. \A o \in Object : At(o)' = At(o)
    BY <1>15 DEF vars, At
  <2>2. TypeOK' /\ ClaimHasPolicyLimits'
    BY <1>15 DEF vars, managerVars, histVars, TypeOK, ClaimHasPolicyLimits
  <2>3. PairsMatch' /\ FutureIsNew' /\ StartingUp' /\ OpenIsKnown' /\ ServedIsOpen' /\ Serving'
        /\ TakenIsDrained' /\ OnePartial'
    BY <1>15, <2>1, ManagerUntouched DEF vars, managerVars, histVars
  <2> QED
    BY <2>2, <2>3 DEF IInv
<1> QED
  BY <1>1, <1>2, <1>3, <1>4, <1>5, <1>6, <1>7, <1>8, <1>9, <1>10, <1>11, <1>12,
     <1>13, <1>14, <1>15 DEF Next, Reloading

-----------------------------------------------------------------------------
(* The invariant holds in every reachable state.                           *)
THEOREM ReloadInductive == Spec => []IInv
<1>1. Init => IInv
  BY InitIInv
<1>2. IInv /\ [Next]_vars => IInv'
  BY NextIInv
<1> QED
  BY <1>1, <1>2, PTL DEF Spec

(* Type correctness.                                                       *)
THEOREM ReloadTypeCorrect == Spec => []TypeOK
<1>1. IInv => TypeOK
  BY DEF IInv
<1> QED
  BY <1>1, ReloadInductive, PTL

(* Whatever was reloaded, rolled back or kept, m.policy and m.pools belong *)
(* together.                                                               *)
THEOREM ReloadPoolsMatchPolicy == Spec => []PoolsMatchPolicy
<1>1. IInv => PoolsMatchPolicy
  BY SpecAssumption DEF IInv, PairsMatch, Matches, PoolsMatchPolicy, TypeOK, Gens
<1> QED
  BY <1>1, ReloadInductive, PTL

(* A claim from a snapshot, however old, gets the limits of the policy the *)
(* request was resolved with.                                              *)
THEOREM ReloadClaimHasPolicyLimits == Spec => []ClaimHasPolicyLimits
<1>1. IInv => ClaimHasPolicyLimits
  BY DEF IInv
<1> QED
  BY <1>1, ReloadInductive, PTL

(* While kpd serves, exactly the pools that somebody knows are open, and   *)
(* no retirement or rollback closes a pool that is served.                 *)
THEOREM ReloadPoolsAccountedFor == Spec => []PoolsAccountedFor
<1>1. IInv => PoolsAccountedFor
  BY DEF IInv, OpenIsKnown, ServedIsOpen, Serving, ReloadOwnsItsPools, Alive, At,
     PoolsAccountedFor
<1> QED
  BY <1>1, ReloadInductive, PTL

(* What the shutdown leaves behind: every pool it found is closed, an open *)
(* one is a pool it could not find, and a reload that was rolled back has  *)
(* left at most the one pool whose Start failed.                           *)
THEOREM ReloadShutdownLeavesOnly == Spec => []ShutdownLeavesOnly
<1>1. IInv => ShutdownLeavesOnly
  BY DEF IInv, OpenIsKnown, TakenIsDrained, OnePartial, At, TypeOK, ShutdownLeavesOnly
<1> QED
  BY <1>1, ReloadInductive, PTL
=============================================================================
