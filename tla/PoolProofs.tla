----------------------------- MODULE PoolProofs -----------------------------
(***************************************************************************)
(* The safety of a warm pool for every target size, every set of container *)
(* ids and every number of claims and failures: IInv of module Pool is     *)
(* inductive.  The proof has one step per action.                          *)
(***************************************************************************)
EXTENDS Pool, TLAPS

-----------------------------------------------------------------------------
(* Facts about the stack of ids.                                           *)

(* spawn's append adds one id at the end and keeps distinct ids distinct.  *)
LEMMA AppendFacts ==
    ASSUME NEW S, NEW s \in Seq(S), NEW x \in S
    PROVE  /\ Append(s, x) \in Seq(S)
           /\ Len(Append(s, x)) = Len(s) + 1
           /\ Elems(Append(s, x)) = Elems(s) \cup {x}
           /\ Distinct(s) /\ x \notin Elems(s) => Distinct(Append(s, x))
<1> DEFINE t == Append(s, x)
<1>1. t \in Seq(S) /\ Len(t) = Len(s) + 1 /\ Len(s) \in Nat
  OBVIOUS
<1>2. \A i \in 1..Len(t) : t[i] = IF i <= Len(s) THEN s[i] ELSE x
  OBVIOUS
<1> HIDE DEF t
<1>3. Elems(t) = Elems(s) \cup {x}
  BY <1>1, <1>2 DEF Elems
<1>4. Distinct(s) /\ x \notin Elems(s) => Distinct(t)
  BY <1>1, <1>2 DEF Elems, Distinct
<1> QED
  BY <1>1, <1>3, <1>4 DEF t

(* A prefix of a sequence.                                                 *)
LEMMA PrefixFacts ==
    ASSUME NEW S, NEW s \in Seq(S), NEW n \in Nat, n <= Len(s)
    PROVE  /\ SubSeq(s, 1, n) \in Seq(S)
           /\ Len(SubSeq(s, 1, n)) = n
           /\ \A i \in 1..n : SubSeq(s, 1, n)[i] = s[i]
OBVIOUS

(* Get's pop takes the last id off: with distinct ids, exactly that one.   *)
LEMMA PopFacts ==
    ASSUME NEW S, NEW s \in Seq(S), s # <<>>
    PROVE  LET t == SubSeq(s, 1, Len(s) - 1)
               x == s[Len(s)]
           IN  /\ t \in Seq(S)
               /\ Len(t) = Len(s) - 1
               /\ Len(s) \in Nat \ {0}
               /\ x \in Elems(s)
               /\ Elems(s) = Elems(t) \cup {x}
               /\ Distinct(s) => Distinct(t) /\ x \notin Elems(t)
<1> DEFINE t == SubSeq(s, 1, Len(s) - 1)
           x == s[Len(s)]
<1>1. Len(s) \in Nat \ {0}
  OBVIOUS
<1>2. PICK n \in Nat : n = Len(s) - 1
  BY <1>1
<1>3. /\ t \in Seq(S) /\ Len(t) = Len(s) - 1
      /\ \A i \in 1..Len(t) : t[i] = s[i]
  <2>1. n <= Len(s)
    BY <1>1, <1>2
  <2>2. /\ SubSeq(s, 1, n) \in Seq(S) /\ Len(SubSeq(s, 1, n)) = n
        /\ \A i \in 1..n : SubSeq(s, 1, n)[i] = s[i]
    BY <2>1, PrefixFacts
  <2> QED
    BY <1>2, <2>2
<1> HIDE DEF t
<1>4. x \in Elems(s)
  BY <1>1 DEF Elems
<1>5. Elems(s) = Elems(t) \cup {x}
  BY <1>1, <1>3 DEF Elems
<1>6. Distinct(s) => Distinct(t) /\ x \notin Elems(t)
  BY <1>1, <1>3 DEF Elems, Distinct
<1> QED
  BY <1>1, <1>3, <1>4, <1>5, <1>6 DEF t

(* The empty stack of a new and of a closed pool.                          *)
LEMMA EmptyFacts ==
    /\ \A S : <<>> \in Seq(S)
    /\ Len(<<>>) = 0 /\ Elems(<<>>) = {} /\ Distinct(<<>>)
    /\ \A S : \A s \in Seq(S) : Len(s) = 0 => s = <<>>
BY DEF Elems, Distinct

-----------------------------------------------------------------------------
(* A new pool satisfies the invariant.                                     *)
LEMMA InitIInv == Init => IInv
<1> SUFFICES ASSUME Init PROVE IInv
  OBVIOUS
<1>1. Warm = {} /\ Len(avail) = 0 /\ Distinct(avail) /\ avail \in Seq(Containers)
  BY EmptyFacts DEF Init, Warm
<1>2. TypeOK
  <2>1. 0 \in 0..Target /\ 0 \in 0..MaxFailures
    BY TargetAssumption, BoundsAssumption
  <2> QED
    BY <1>1, <2>1, Zenon DEF Init, TypeOK, FillerSteps
<1>3. AvailWithinTarget
  BY <1>1, TargetAssumption, BoundsAssumption DEF Init, AvailWithinTarget,
     FillerRoom
<1>4. OneShot
  BY <1>1, TargetAssumption, BoundsAssumption DEF Init, OneShot, IdsApart
<1>5. ClaimedStaysLive
  BY <1>1, TargetAssumption, BoundsAssumption DEF Init, ClaimedStaysLive, OneShot,
     IdsApart
<1>6. ClosedPoolEmpty
  BY <1>1, TargetAssumption, BoundsAssumption DEF Init, ClosedPoolEmpty
<1>7. NoSilentLeak
  BY <1>1, TargetAssumption, BoundsAssumption DEF Init, NoSilentLeak, IdsApart
<1>8. NoLostWakeup
  BY <1>1, TargetAssumption, BoundsAssumption DEF Init, NoLostWakeup, FillerRoom
<1>9. FillerRoom
  BY <1>1, TargetAssumption, BoundsAssumption DEF Init, FillerRoom
<1>10. IdsApart
  BY <1>1, TargetAssumption, BoundsAssumption DEF Init, IdsApart
<1> QED
  BY <1>2, <1>3, <1>4, <1>5, <1>6, <1>7, <1>8, <1>9, <1>10 DEF IInv

(* Every step of the pool preserves the invariant.                         *)
LEMMA NextIInv == IInv /\ [Next]_vars => IInv'
<1> SUFFICES ASSUME IInv, [Next]_vars PROVE IInv'
  OBVIOUS
<1> USE TargetAssumption, BoundsAssumption
<1>1. CASE Get
  <2>1. /\ avail' \in Seq(Containers) /\ Len(avail') = Len(avail) - 1
        /\ Len(avail) \in Nat \ {0} /\ avail[Len(avail)] \in Warm
        /\ Warm = Warm' \cup {avail[Len(avail)]}
        /\ Distinct(avail') /\ avail[Len(avail)] \notin Warm'
    BY <1>1, PopFacts DEF Get, Warm, IInv, TypeOK, OneShot
  <2> QED
    BY <1>1, <2>1 DEF Get, IInv, TypeOK, AvailWithinTarget, OneShot,
       ClaimedStaysLive, ClosedPoolEmpty, NoSilentLeak, NoLostWakeup, FillerRoom,
       IdsApart, FillerSteps, poolVars, fillerVars, rtVars
<1>2. CASE GetMiss
  <2>1. Warm' = Warm /\ avail' = avail /\ Len(avail) \in Nat
    BY <1>2 DEF GetMiss, Warm, poolVars, vars, IInv, TypeOK
  <2> QED
    BY <1>2, <2>1 DEF GetMiss, vars, IInv, TypeOK, AvailWithinTarget, OneShot,
       ClaimedStaysLive, ClosedPoolEmpty, NoSilentLeak, NoLostWakeup, FillerRoom,
       IdsApart, FillerSteps, poolVars, fillerVars, rtVars
<1>3. CASE ShutdownClose
  <2>1. /\ avail' = <<>> /\ avail' \in Seq(Containers) /\ Len(avail') = 0
        /\ Warm' = {} /\ Distinct(avail') /\ Warm \subseteq Containers
        /\ Len(avail) \in Nat
    BY <1>3, EmptyFacts DEF ShutdownClose, Warm, Elems, IInv, TypeOK
  <2> QED
    BY <1>3, <2>1 DEF ShutdownClose, IInv, TypeOK, AvailWithinTarget, OneShot,
       ClaimedStaysLive, ClosedPoolEmpty, NoSilentLeak, NoLostWakeup, FillerRoom,
       IdsApart, FillerSteps, poolVars, fillerVars, rtVars
<1>4. CASE ShutdownRemove
  <2>1. Warm' = Warm /\ avail' = avail /\ Len(avail) \in Nat
    BY <1>4 DEF ShutdownRemove, Warm, poolVars, IInv, TypeOK
  <2>2. TypeOK'
    BY <1>4, <2>1 DEF ShutdownRemove, poolVars, fillerVars, rtVars, IInv, TypeOK,
       FillerSteps
  <2>3. AvailWithinTarget'
    BY <1>4, <2>1 DEF ShutdownRemove, poolVars, fillerVars, rtVars, IInv, TypeOK,
       AvailWithinTarget, FillerRoom
  <2>4. OneShot'
    BY <1>4, <2>1 DEF ShutdownRemove, poolVars, fillerVars, rtVars, IInv, TypeOK,
       OneShot, IdsApart
  <2>5. ClaimedStaysLive'
    BY <1>4, <2>1 DEF ShutdownRemove, poolVars, fillerVars, rtVars, IInv, TypeOK,
       ClaimedStaysLive, OneShot, IdsApart
  <2>6. ClosedPoolEmpty'
    BY <1>4, <2>1 DEF ShutdownRemove, poolVars, fillerVars, rtVars, IInv, TypeOK,
       ClosedPoolEmpty
  <2>7. NoSilentLeak'
    BY <1>4, <2>1 DEF ShutdownRemove, poolVars, fillerVars, rtVars, IInv, TypeOK,
       NoSilentLeak, IdsApart
  <2>8. NoLostWakeup'
    BY <1>4, <2>1 DEF ShutdownRemove, poolVars, fillerVars, rtVars, IInv, TypeOK,
       NoLostWakeup, FillerRoom
  <2>9. FillerRoom'
    BY <1>4, <2>1 DEF ShutdownRemove, poolVars, fillerVars, rtVars, IInv, TypeOK,
       FillerRoom
  <2>10. IdsApart'
    <3>1. draining # {} => Warm = {}
      BY EmptyFacts DEF IInv, IdsApart, ClosedPoolEmpty, TypeOK, Warm
    <3> QED
      BY <1>4, <2>1, <3>1 DEF ShutdownRemove, poolVars, fillerVars, rtVars, IInv,
         TypeOK, IdsApart
  <2> QED
    BY <2>2, <2>3, <2>4, <2>5, <2>6, <2>7, <2>8, <2>9, <2>10 DEF IInv
<1>5. CASE Cancel
  <2>1. Warm' = Warm /\ avail' = avail /\ Len(avail) \in Nat
    BY <1>5 DEF Cancel, Warm, poolVars, IInv, TypeOK
  <2> QED
    BY <1>5, <2>1 DEF Cancel, IInv, TypeOK, AvailWithinTarget, OneShot,
       ClaimedStaysLive, ClosedPoolEmpty, NoSilentLeak, NoLostWakeup, FillerRoom,
       IdsApart, FillerSteps, poolVars, fillerVars, rtVars
<1>6. CASE StartCall
  <2>1. Warm' = Warm /\ avail' = avail /\ Len(avail) \in Nat
    BY <1>6 DEF StartCall, Warm, poolVars, IInv, TypeOK
  <2> QED
    BY <1>6, <2>1 DEF StartCall, IInv, TypeOK, AvailWithinTarget, OneShot,
       ClaimedStaysLive, ClosedPoolEmpty, NoSilentLeak, NoLostWakeup, FillerRoom,
       IdsApart, FillerSteps, poolVars, fillerVars, rtVars
<1>7. CASE StartLoop
  <2>1. Warm' = Warm /\ avail' = avail /\ Len(avail) \in Nat
    BY <1>7 DEF StartLoop, Warm, poolVars, IInv, TypeOK
  <2> QED
    BY <1>7, <2>1 DEF StartLoop, IInv, TypeOK, AvailWithinTarget, OneShot,
       ClaimedStaysLive, ClosedPoolEmpty, NoSilentLeak, NoLostWakeup, FillerRoom,
       IdsApart, FillerSteps, poolVars, fillerVars, rtVars
<1>8. CASE SpawnCreate
  <2>1. Warm' = Warm /\ avail' = avail /\ Len(avail) \in Nat
    BY <1>8 DEF SpawnCreate, Warm, poolVars, IInv, TypeOK
  <2> QED
    BY <1>8, <2>1 DEF SpawnCreate, IInv, TypeOK, AvailWithinTarget, OneShot,
       ClaimedStaysLive, ClosedPoolEmpty, NoSilentLeak, NoLostWakeup, FillerRoom,
       IdsApart, FillerSteps, poolVars, fillerVars, rtVars
<1>9. CASE SpawnCreateFails
  <2>1. Warm' = Warm /\ avail' = avail /\ Len(avail) \in Nat
    BY <1>9 DEF SpawnCreateFails, Warm, poolVars, IInv, TypeOK
  <2>2. TypeOK'
    BY <1>9, <2>1 DEF SpawnCreateFails, SpawnReturnsError, poolVars, fillerVars,
       rtVars, IInv, TypeOK, FillerSteps
  <2>3. AvailWithinTarget'
    BY <1>9, <2>1 DEF SpawnCreateFails, SpawnReturnsError, poolVars, fillerVars,
       rtVars, IInv, TypeOK, AvailWithinTarget, FillerRoom
  <2>4. OneShot'
    BY <1>9, <2>1 DEF SpawnCreateFails, SpawnReturnsError, poolVars, fillerVars,
       rtVars, IInv, TypeOK, OneShot, IdsApart
  <2>5. ClaimedStaysLive'
    BY <1>9, <2>1 DEF SpawnCreateFails, SpawnReturnsError, poolVars, fillerVars,
       rtVars, IInv, TypeOK, ClaimedStaysLive, OneShot, IdsApart
  <2>6. ClosedPoolEmpty'
    BY <1>9, <2>1 DEF SpawnCreateFails, SpawnReturnsError, poolVars, fillerVars,
       rtVars, IInv, TypeOK, ClosedPoolEmpty
  <2>7. NoSilentLeak'
    BY <1>9, <2>1 DEF SpawnCreateFails, SpawnReturnsError, poolVars, fillerVars,
       rtVars, IInv, TypeOK, NoSilentLeak, IdsApart
  <2>8. NoLostWakeup'
    BY <1>9, <2>1 DEF SpawnCreateFails, SpawnReturnsError, poolVars, fillerVars,
       rtVars, IInv, TypeOK, NoLostWakeup, FillerRoom
  <2>9. FillerRoom'
    BY <1>9, <2>1 DEF SpawnCreateFails, SpawnReturnsError, poolVars, fillerVars,
       rtVars, IInv, TypeOK, FillerRoom
  <2>10. IdsApart'
    BY <1>9, <2>1 DEF SpawnCreateFails, SpawnReturnsError, poolVars, fillerVars,
       rtVars, IInv, TypeOK, IdsApart
  <2> QED
    BY <2>2, <2>3, <2>4, <2>5, <2>6, <2>7, <2>8, <2>9, <2>10 DEF IInv
<1>10. CASE SpawnAppend
  <2>1. CASE closed
    <3>1. Warm' = Warm /\ avail' = avail
      BY <1>10, <2>1 DEF SpawnAppend, Warm
    <3> QED
      BY <1>10, <2>1, <3>1 DEF SpawnAppend, IInv, TypeOK, AvailWithinTarget,
         OneShot, ClaimedStaysLive, ClosedPoolEmpty, NoSilentLeak, NoLostWakeup,
         FillerRoom, IdsApart, FillerSteps, poolVars, fillerVars, rtVars
  <2>2. CASE ~closed
    <3>1. PICK id \in Containers : hand = {id} /\ avail' = Append(avail, id)
      BY <1>10, <2>2 DEF SpawnAppend, IInv, TypeOK
    <3>2. id \notin Warm
      BY <3>1 DEF IInv, IdsApart
    <3>3. /\ avail' \in Seq(Containers) /\ Len(avail') = Len(avail) + 1
          /\ Warm' = Warm \cup {id} /\ Distinct(avail') /\ Len(avail) \in Nat
      BY <3>1, <3>2, AppendFacts DEF IInv, TypeOK, OneShot, Warm
    <3>4. TypeOK'
      <4>1. spawned' \in 0..Target
        BY <1>10, <2>2 DEF SpawnAppend, SpawnReturnsNil, IInv, TypeOK, FillerRoom
      <4>2. pc' \in {"start", "check"} /\ hand' = {}
        BY <1>10, <2>2 DEF SpawnAppend, SpawnReturnsNil
      <4> QED
        BY <1>10, <2>2, <3>3, <4>1, <4>2 DEF SpawnAppend, SpawnReturnsNil, rtVars,
           IInv, TypeOK, FillerSteps
    <3>5. AvailWithinTarget'
      BY <1>10, <2>2, <3>1, <3>2, <3>3 DEF SpawnAppend, SpawnReturnsNil, poolVars,
         fillerVars, rtVars, IInv, TypeOK, AvailWithinTarget, FillerRoom
    <3>6. OneShot'
      BY <1>10, <2>2, <3>1, <3>2, <3>3 DEF SpawnAppend, SpawnReturnsNil, poolVars,
         fillerVars, rtVars, IInv, TypeOK, OneShot, IdsApart
    <3>7. ClaimedStaysLive'
      BY <1>10, <2>2, <3>1, <3>2, <3>3 DEF SpawnAppend, SpawnReturnsNil, poolVars,
         fillerVars, rtVars, IInv, TypeOK, ClaimedStaysLive, OneShot, IdsApart
    <3>8. ClosedPoolEmpty'
      BY <1>10, <2>2, <3>1, <3>2, <3>3 DEF SpawnAppend, SpawnReturnsNil, poolVars,
         fillerVars, rtVars, IInv, TypeOK, ClosedPoolEmpty
    <3>9. NoSilentLeak'
      BY <1>10, <2>2, <3>1, <3>2, <3>3 DEF SpawnAppend, SpawnReturnsNil, poolVars,
         fillerVars, rtVars, IInv, TypeOK, NoSilentLeak, IdsApart
    <3>10. NoLostWakeup'
      BY <1>10, <2>2, <3>1, <3>2, <3>3 DEF SpawnAppend, SpawnReturnsNil, poolVars,
         fillerVars, rtVars, IInv, TypeOK, NoLostWakeup, FillerRoom
    <3>11. FillerRoom'
      BY <1>10, <2>2, <3>1, <3>2, <3>3 DEF SpawnAppend, SpawnReturnsNil, poolVars,
         fillerVars, rtVars, IInv, TypeOK, FillerRoom
    <3>12. IdsApart'
      BY <1>10, <2>2, <3>1, <3>2, <3>3 DEF SpawnAppend, SpawnReturnsNil, poolVars,
         fillerVars, rtVars, IInv, TypeOK, IdsApart
    <3> QED
      BY <3>4, <3>5, <3>6, <3>7, <3>8, <3>9, <3>10, <3>11, <3>12 DEF IInv
  <2> QED
    BY <2>1, <2>2 DEF IInv, TypeOK
<1>11. CASE SpawnDiscard
  <2>1. Warm' = Warm /\ avail' = avail /\ Len(avail) \in Nat
    BY <1>11 DEF SpawnDiscard, Warm, poolVars, IInv, TypeOK
  <2> QED
    BY <1>11, <2>1 DEF SpawnDiscard, SpawnReturnsError, IInv, TypeOK,
       AvailWithinTarget, OneShot, ClaimedStaysLive, ClosedPoolEmpty, NoSilentLeak,
       NoLostWakeup, FillerRoom, IdsApart, FillerSteps, poolVars, fillerVars, rtVars
<1>12. CASE RefillWake
  <2>1. Warm' = Warm /\ avail' = avail /\ Len(avail) \in Nat
    BY <1>12 DEF RefillWake, Warm, poolVars, IInv, TypeOK
  <2> QED
    BY <1>12, <2>1 DEF RefillWake, IInv, TypeOK, AvailWithinTarget, OneShot,
       ClaimedStaysLive, ClosedPoolEmpty, NoSilentLeak, NoLostWakeup, FillerRoom,
       IdsApart, FillerSteps, poolVars, fillerVars, rtVars
<1>13. CASE RefillExit
  <2>1. Warm' = Warm /\ avail' = avail /\ Len(avail) \in Nat
    BY <1>13 DEF RefillExit, Warm, poolVars, IInv, TypeOK
  <2> QED
    BY <1>13, <2>1 DEF RefillExit, IInv, TypeOK, AvailWithinTarget, OneShot,
       ClaimedStaysLive, ClosedPoolEmpty, NoSilentLeak, NoLostWakeup, FillerRoom,
       IdsApart, FillerSteps, poolVars, fillerVars, rtVars
<1>14. CASE RefillCheck
  <2>1. Warm' = Warm /\ avail' = avail /\ Len(avail) \in Nat
    BY <1>14 DEF RefillCheck, Warm, poolVars, IInv, TypeOK
  <2> QED
    BY <1>14, <2>1 DEF RefillCheck, IInv, TypeOK, AvailWithinTarget, OneShot,
       ClaimedStaysLive, ClosedPoolEmpty, NoSilentLeak, NoLostWakeup, FillerRoom,
       IdsApart, FillerSteps, poolVars, fillerVars, rtVars
<1>15. CASE UNCHANGED vars
  BY <1>15 DEF vars, Warm, IInv, TypeOK, AvailWithinTarget, OneShot,
     ClaimedStaysLive, ClosedPoolEmpty, NoSilentLeak, NoLostWakeup, FillerRoom,
     IdsApart, FillerSteps, poolVars, fillerVars, rtVars
<1> QED
  BY <1>1, <1>2, <1>3, <1>4, <1>5, <1>6, <1>7, <1>8, <1>9, <1>10, <1>11, <1>12,
     <1>13, <1>14, <1>15 DEF Next, Filler

(* The pool's inductive invariant holds in every reachable state.          *)
THEOREM PoolInductive == Spec => []IInv
<1>1. Init => IInv
  BY InitIInv
<1>2. IInv /\ [Next]_vars => IInv'
  BY NextIInv
<1> QED
  BY <1>1, <1>2, PTL DEF Spec
(* Type correctness of the pool.                                           *)
THEOREM PoolTypeCorrect == Spec => []TypeOK
<1>1. IInv => TypeOK
  BY DEF IInv
<1> QED
  BY <1>1, PoolInductive, PTL

(* No interleaving of Start, refillLoop, Get and Shutdown warms more than  *)
(* Target containers.                                                      *)
THEOREM PoolWithinTarget == Spec => []AvailWithinTarget
<1>1. IInv => AvailWithinTarget
  BY DEF IInv
<1> QED
  BY <1>1, PoolInductive, PTL

(* An id is claimed once and is in nobody else's hands afterwards.         *)
THEOREM PoolOneShot == Spec => []OneShot
<1>1. IInv => OneShot
  BY DEF IInv
<1> QED
  BY <1>1, PoolInductive, PTL

(* The pool removes no container that was claimed.                         *)
THEOREM PoolClaimedStaysLive == Spec => []ClaimedStaysLive
<1>1. IInv => ClaimedStaysLive
  BY DEF IInv
<1> QED
  BY <1>1, PoolInductive, PTL

(* No container the pool started is forgotten, closed pools included.      *)
THEOREM PoolNoSilentLeak == Spec => [](NoSilentLeak /\ ClosedPoolEmpty)
<1>1. IInv => NoSilentLeak /\ ClosedPoolEmpty
  BY DEF IInv
<1> QED
  BY <1>1, PoolInductive, PTL

(* refillLoop never sleeps below target while a claim is unanswered.       *)
THEOREM PoolNoLostWakeup == Spec => []NoLostWakeup
<1>1. IInv => NoLostWakeup
  BY DEF IInv
<1> QED
  BY <1>1, PoolInductive, PTL

-----------------------------------------------------------------------------
(* A new pool is a new dispenser.                                          *)
LEMMA InitAbstract == Init => Abstract!Init
BY EmptyFacts DEF Init, Abstract!Init, Warm

(* A step of the pool is a step of the dispenser, or invisible to it:      *)
(* spawn's append stocks, Get takes, Shutdown closes, and the container a  *)
(* closed pool discards is spoilt.                                         *)
LEMMA NextAbstract ==
    IInv /\ IInv' /\ [Next]_vars => [Abstract!Next]_(Abstract!dispenserVars)
<1> SUFFICES ASSUME IInv, IInv', [Next]_vars
             PROVE  Abstract!Next \/ UNCHANGED <<Warm, claimed, seen \ hand, ~closed>>
  BY DEF Abstract!dispenserVars
<1>1. CASE Get
  <2> DEFINE id == avail[Len(avail)]
  <2>1. id \in Warm /\ Warm = Warm' \cup {id} /\ id \notin Warm'
    BY <1>1, PopFacts DEF Get, Warm, IInv, TypeOK, OneShot
  <2>2. id \in Containers
    BY <2>1 DEF Warm, Elems, IInv, TypeOK
  <2>3. Abstract!Take(id)
    BY <1>1, <2>1 DEF Get, Abstract!Take, fillerVars, rtVars
  <2> QED
    BY <2>2, <2>3 DEF Abstract!Next
<1>2. CASE ShutdownClose
  <2>1. Warm' = {}
    BY <1>2, EmptyFacts DEF ShutdownClose, Warm
  <2>2. Abstract!Close
    BY <1>2, <2>1 DEF ShutdownClose, Abstract!Close, fillerVars, rtVars
  <2> QED
    BY <2>2 DEF Abstract!Next
<1>3. CASE SpawnAppend /\ ~closed
  <2>1. PICK id \in Containers : hand = {id} /\ avail' = Append(avail, id)
    BY <1>3 DEF SpawnAppend, IInv, TypeOK
  <2>2. Warm' = Warm \cup {id}
    BY <2>1, AppendFacts DEF Warm, IInv, TypeOK
  <2>3. Abstract!Stock(id)
    BY <1>3, <2>1, <2>2 DEF SpawnAppend, Abstract!Stock, rtVars, IInv, IdsApart
  <2> QED
    BY <2>3 DEF Abstract!Next
<1>4. CASE SpawnAppend /\ closed
  BY <1>4 DEF SpawnAppend, Warm, rtVars
<1>5. CASE SpawnDiscard
  <2>1. PICK id \in Containers : hand = {id}
    BY <1>5 DEF SpawnDiscard, IInv, TypeOK
  <2>2. Abstract!Spoil(id)
    BY <1>5, <2>1 DEF SpawnDiscard, Abstract!Spoil, Warm, poolVars, IInv, IdsApart
  <2> QED
    BY <2>2 DEF Abstract!Next
<1>6. CASE SpawnCreate
  <2>1. hand = {} /\ live \subseteq seen
    BY <1>6 DEF SpawnCreate, IInv, TypeOK, IdsApart
  <2>2. seen' \ hand' = seen \ hand
    BY <1>6, <2>1 DEF SpawnCreate
  <2> QED
    BY <1>6, <2>2 DEF SpawnCreate, Warm, poolVars
<1>7. CASE \/ GetMiss \/ ShutdownRemove \/ Cancel \/ StartCall \/ StartLoop
           \/ SpawnCreateFails \/ RefillWake \/ RefillExit \/ RefillCheck
           \/ UNCHANGED vars
  BY <1>7 DEF GetMiss, ShutdownRemove, Cancel, StartCall, StartLoop,
     SpawnCreateFails, RefillWake, RefillExit, RefillCheck, Warm, vars, poolVars,
     fillerVars, rtVars
<1> QED
  BY <1>1, <1>2, <1>3, <1>4, <1>5, <1>6, <1>7 DEF Next, Filler

(* A warm pool implements a dispenser: every container it hands out was    *)
(* warmed once, is taken once, and none is taken after Shutdown.           *)
THEOREM PoolDispensesOnce == Spec => DispensesOnce
<1>1. Init => Abstract!Init
  BY InitAbstract
<1>2. IInv /\ IInv' /\ [Next]_vars => [Abstract!Next]_(Abstract!dispenserVars)
  BY NextAbstract
<1> QED
  BY <1>1, <1>2, PoolInductive, PTL DEF Spec, DispensesOnce, Abstract!Spec
=============================================================================
