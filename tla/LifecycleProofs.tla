--------------------------- MODULE LifecycleProofs ---------------------------
(***************************************************************************)
(* The safety of the sandbox manager and the reaper, for every number of   *)
(* sandboxes, containers and goroutines, every mixture of requests of kpd  *)
(* and kpmcp, failing calls, exits and restarts.                           *)
(*                                                                         *)
(* An operation works on the row it has read, however old.  The proof is   *)
(* about what stays true of such a row: an id and its container belong     *)
(* together for ever, and so do an id and its expiry.                      *)
(***************************************************************************)
EXTENDS Lifecycle, FiniteSetTheorems, TLAPS

-----------------------------------------------------------------------------
(* The inductive invariant.                                                *)

Creating == {"create", "put", "putError"}
Resting  == {"idle", "query", "next"}

(* What the place of an operation tells about the row it holds.            *)
Shape(r) ==
    /\ r.pc \in Resting => r.id = NoId /\ r.sb = NoRow
    /\ r.pc \notin Resting => r.id \in minted
    /\ r.pc \in {"create", "putError"} => r.sb.rid = NoCtr
    /\ r.pc = "putError" => r.sb.state = "error"
    /\ r.pc = "put" => r.sb.state = "running"
    /\ r.pc \in {"put", "remove"} => r.sb.rid \in Containers
    /\ r.pc \in {"remove", "deleteRow", "stop", "putStopped"} => r.id \in touched
Shapes == \A p \in Procs : Shape(proc[p])

(* Until a Create has written its row, nobody else knows its id.           *)
Fresh ==
    \A p \in Procs : proc[p].pc \in Creating =>
        /\ rows[proc[p].id] = NoRow /\ proc[p].id \notin deleted
        /\ \A q \in Procs : proc[q].id = proc[p].id => q = p

(* Rows have ids that were minted, and running ones a container.           *)
Known ==
    /\ IsFiniteSet(minted) /\ deleted \subseteq minted
    /\ \A a \in Ids : rows[a] # NoRow => a \in minted
    /\ \A a \in Ids : rows[a].state = "running" => rows[a].rid \in Containers

(* An id and its container belong together, in the rows and in what the    *)
(* operations hold of them; the pool has no part in such a container.      *)
Bindings ==
    /\ \A a, b \in Ids : rows[a].rid # NoCtr /\ rows[a].rid = rows[b].rid => a = b
    /\ \A a \in Ids, p \in Procs :
          rows[a].rid # NoCtr /\ rows[a].rid = proc[p].sb.rid => proc[p].id = a
    /\ \A p, q \in Procs :
          proc[p].sb.rid # NoCtr /\ proc[p].sb.rid = proc[q].sb.rid => proc[p].id = proc[q].id
    /\ \A a \in Ids, p \in Procs :
          proc[p].id = a /\ rows[a] # NoRow => rows[a].rid = proc[p].sb.rid
    /\ \A p, q \in Procs : proc[p].id = proc[q].id => proc[p].sb.rid = proc[q].sb.rid
    /\ \A a \in Ids : rows[a].rid \in Containers => rows[a].rid \in used \ stock
    /\ \A p \in Procs : proc[p].sb.rid \in Containers => proc[p].sb.rid \in used \ stock

PoolSets == stock \subseteq warmLabel \ claimed /\ claimed \subseteq warmLabel /\ warmLabel \subseteq used

(* The container of a Create that is about to write its row runs.          *)
ColdPending ==
    \A p \in Procs : proc[p].pc = "put" /\ proc[p].sb.rid \notin warmLabel
                        => ctr[proc[p].sb.rid] = "running"

(* When a Delete comes to the row, the container is gone or lost.          *)
Removed ==
    \A p \in Procs : proc[p].pc = "deleteRow" /\ proc[p].sb.rid # NoCtr
                        => ctr[proc[p].sb.rid] = "none" \/ proc[p].sb.rid \in orphans

(* A row that was read once and is not there was deleted.                  *)
Gone ==
    \A p \in Procs : proc[p].pc \notin Resting \cup Creating =>
        rows[proc[p].id] # NoRow \/ proc[p].id \in deleted
GoneListed == \A id \in expired : rows[id] # NoRow \/ id \in deleted

(* An id and its expiry belong together, cut to whole seconds.             *)
Stored(t) == IF t = Never THEN Never ELSE Unix(t)
Expiries ==
    /\ \A a \in Ids : rows[a] # NoRow => rows[a].expires = Stored(dueAt[a])
    /\ \A p \in Procs : proc[p].pc \notin Resting =>
          proc[p].sb.expires = Stored(dueAt[proc[p].id])

(* What the sweep works on is past its expiry.                             *)
Past(id) == dueAt[id] # Never /\ dueAt[id] < now
Due ==
    /\ sweepAt <= now
    /\ \A id \in expired : Past(id)
    /\ proc[Reaper].pc \in {"remove", "deleteRow"} => Past(proc[Reaper].id)

Rest ==
    /\ Shapes /\ Fresh /\ Known /\ Bindings /\ Gone /\ Expiries /\ DeletedNeverRuns
    /\ PoolSets
    /\ ColdSandboxKeepsContainer /\ ColdPending /\ NoSilentLeak /\ Removed
    /\ GoneListed /\ SweptWasDeleted /\ Due
    /\ LogBuffersAreDropped
IInv == TypeOK /\ Rest

-----------------------------------------------------------------------------
(* How an operation moves.                                                 *)

ProcType == [pc : Labels, id : Ids \cup {NoId}, sb : Sandbox, n : Nat]
Others(p) == \A q \in Procs : q # p => proc'[q] = proc[q]

(* It goes on with the row it has, or it returns.                          *)
Keeps(p) ==
    /\ proc'[p].id = proc[p].id
    /\ proc'[p].sb.rid = proc[p].sb.rid /\ proc'[p].sb.expires = proc[p].sb.expires
    /\ proc'[p].pc \notin Resting /\ proc[p].pc \notin Resting
    /\ proc'[p].pc \in Creating <=> proc[p].pc \in Creating
Frees(p) == proc'[p].pc \in Resting /\ proc'[p].id = NoId /\ proc'[p].sb = NoRow

LEMMA NoRowFacts ==
    /\ NoRow \in Sandbox /\ NoRow.rid = NoCtr /\ NoRow.state = "absent" /\ NoRow.expires = Never
    /\ Idle \in ProcType /\ Idle.pc = "idle" /\ Idle.id = NoId /\ Idle.sb = NoRow
BY DEF NoRow, Sandbox, Idle, ProcType, Labels

LEMMA GotoFacts ==
    ASSUME proc \in [Procs -> ProcType], NEW p \in Procs, NEW l \in Labels, Goto(p, l)
    PROVE  /\ proc' \in [Procs -> ProcType] /\ Others(p)
           /\ proc'[p].pc = l /\ proc'[p].id = proc[p].id /\ proc'[p].sb = proc[p].sb
<1>1. proc[p] \in ProcType
  OBVIOUS
<1>2. [proc[p] EXCEPT !.pc = l] \in ProcType
  BY <1>1 DEF ProcType
<1>3. proc' = [proc EXCEPT ![p] = [proc[p] EXCEPT !.pc = l]]
  BY DEF Goto
<1>4. proc' \in [Procs -> ProcType] /\ Others(p)
  BY <1>2, <1>3 DEF Others
<1>5. proc'[p] = [proc[p] EXCEPT !.pc = l]
  BY <1>3
<1> QED
  BY <1>1, <1>4, <1>5 DEF ProcType

LEMMA ReturnFacts ==
    ASSUME proc \in [Procs -> ProcType], NEW p \in Procs, Return(p)
    PROVE  /\ proc' \in [Procs -> ProcType] /\ Others(p)
           /\ proc'[p].pc \in {"idle", "next"} /\ Frees(p)
<1> DEFINE r == [Idle EXCEPT !.pc = IF p = Reaper THEN "next" ELSE "idle"]
<1>1. r \in ProcType /\ r.pc \in {"idle", "next"} /\ r.id = NoId /\ r.sb = NoRow
  BY NoRowFacts DEF Idle, ProcType, Labels
<1>2. proc' = [proc EXCEPT ![p] = r]
  BY DEF Return
<1> HIDE DEF r
<1>3. proc'[p] = r
  BY <1>2
<1> QED
  BY <1>1, <1>2, <1>3 DEF Others, Frees, Resting

-----------------------------------------------------------------------------
(* Steps that leave the rows alone.                                        *)

LEMMA QuietRows ==
    ASSUME TypeOK, Shapes, Fresh, Known, Bindings, Gone, Expiries, DeletedNeverRuns,
           rows' = rows, minted' = minted, deleted' = deleted, dueAt' = dueAt, used' = used,
           stock' \subseteq stock,
           \A p \in Procs : proc'[p] = proc[p] \/ Keeps(p) \/ Frees(p)
    PROVE  Fresh' /\ Known' /\ Bindings' /\ Gone' /\ Expiries' /\ DeletedNeverRuns'
<1>r. \A p \in Procs :
         \/ Frees(p)
         \/ /\ proc'[p].id = proc[p].id /\ proc'[p].sb.rid = proc[p].sb.rid
            /\ proc'[p].sb.expires = proc[p].sb.expires
            /\ proc'[p].pc \in Creating <=> proc[p].pc \in Creating
            /\ proc'[p].pc \in Resting <=> proc[p].pc \in Resting
  BY DEF Keeps
<1>n. \A p \in Procs : proc[p].pc \in Creating => proc[p].id # NoId
  BY NoneAssumption DEF TypeOK, Shapes, Shape, Creating, Resting
<1>d. \A p \in Procs : Frees(p) => /\ proc'[p].pc \notin Creating /\ proc'[p].pc \in Resting
                                   /\ proc'[p].id = NoId /\ proc'[p].sb.rid = NoCtr
  BY NoRowFacts DEF Frees, Resting, Creating
<1>s. \A p \in Procs : proc[p].id = NoId => proc[p].sb.rid = NoCtr
  BY NoneAssumption, NoRowFacts DEF TypeOK, Shapes, Shape
<1>1. Fresh'
  BY <1>r, <1>n, <1>d DEF Fresh
<1>2. Known' /\ DeletedNeverRuns'
  BY DEF Known, DeletedNeverRuns, Running
<1>3. Gone'
  BY <1>r, <1>d DEF Gone
<1>4. Expiries'
  BY <1>r, <1>d DEF Expiries
<1>5. Bindings'
  BY <1>r, <1>d, <1>s, NoneAssumption DEF Bindings
<1> QED
  BY <1>1, <1>2, <1>3, <1>4, <1>5

(* Steps that leave the daemon alone.                                      *)
LEMMA QuietDaemon ==
    ASSUME ColdSandboxKeepsContainer, ColdPending, NoSilentLeak, Removed,
           rows' = rows, ctr' = ctr, warmLabel' = warmLabel, claimed' = claimed,
           touched \subseteq touched', orphans \subseteq orphans',
           \A p \in Procs :
              \/ proc'[p] = proc[p]
              \/ proc[p].pc # "put" /\ proc'[p].pc \notin {"put", "deleteRow"}
    PROVE  ColdSandboxKeepsContainer' /\ ColdPending' /\ NoSilentLeak' /\ Removed'
<1>1. ColdSandboxKeepsContainer'
  BY DEF ColdSandboxKeepsContainer, Running
<1>2. ColdPending'
  BY DEF ColdPending
<1>3. Removed'
  BY DEF Removed
<1>4. NoSilentLeak'
  <2>1. Pending' = Pending /\ InRows' = InRows
    BY DEF Pending, InRows
  <2> QED
    BY <2>1 DEF NoSilentLeak
<1> QED
  BY <1>1, <1>2, <1>3, <1>4

(* Steps that leave the sweep's lists alone.                               *)
LEMMA QuietSweep ==
    ASSUME GoneListed, SweptWasDeleted, Due,
           \A id \in Ids : rows[id] # NoRow => rows'[id] # NoRow \/ id \in deleted',
           deleted \subseteq deleted', expired' \subseteq expired, expired \subseteq Ids,
           dueAt' = dueAt, sweepAt' = sweepAt, counted' = counted, swept' = swept, now' = now,
           \/ proc'[Reaper] = proc[Reaper]
           \/ proc'[Reaper].pc \notin {"remove", "deleteRow"}
    PROVE  GoneListed' /\ SweptWasDeleted' /\ Due'
BY DEF GoneListed, SweptWasDeleted, Due, Past

(* Steps that leave the log buffers alone.                                 *)
LEMMA QuietLogs ==
    ASSUME LogBuffersAreDropped, logs' = logs, late' = late, TypeOK,
           \A id \in Ids : rows[id] # NoRow => rows'[id] # NoRow,
           \A p \in Procs : proc'[p] = proc[p] \/ proc[p].pc # "dropLog"
    PROVE  LogBuffersAreDropped'
BY DEF LogBuffersAreDropped, TypeOK

-----------------------------------------------------------------------------
(* An operation reads a row: what it holds belongs together.               *)
LEMMA LoadRow ==
    ASSUME TypeOK, Shapes, Fresh, Known, Bindings, Gone, Expiries, DeletedNeverRuns,
           NEW p \in Procs, NEW id \in Ids, NEW label \in Labels \ (Resting \cup Creating),
           Load(p, id, label),
           rows' = rows, minted' = minted, deleted' = deleted, dueAt' = dueAt, used' = used,
           stock' = stock
    PROVE  /\ proc' \in [Procs -> ProcType] /\ Others(p) /\ proc'[p].pc = label
           /\ proc'[p].id = id /\ proc'[p].sb = rows[id] /\ id \in minted
           /\ Fresh' /\ Known' /\ Bindings' /\ Gone' /\ Expiries' /\ DeletedNeverRuns'
<1> DEFINE r == [pc |-> label, id |-> id, sb |-> rows[id], n |-> 0]
<1>1. r \in ProcType /\ proc \in [Procs -> ProcType]
  BY DEF TypeOK, ProcType
<1>2. proc' = [proc EXCEPT ![p] = r] /\ rows[id] # NoRow
  BY DEF Load
<1>3. /\ proc' \in [Procs -> ProcType] /\ Others(p) /\ proc'[p] = r /\ id \in minted
      /\ label \notin Resting /\ label \notin Creating
  BY <1>1, <1>2 DEF Others, Known
<1>4. /\ proc'[p].pc = label /\ proc'[p].id = id /\ proc'[p].sb = rows[id]
      /\ \A q \in Procs : q # p => proc'[q] = proc[q]
  BY <1>3 DEF Others
<1> HIDE DEF r
<1>5. Fresh'
  <2>1. \A q \in Procs : proc[q].pc \in Creating => proc[q].id # id
    BY <1>2 DEF Fresh
  <2> QED
    BY <1>3, <1>4, <2>1 DEF Fresh
<1>6. Known' /\ DeletedNeverRuns'
  BY DEF Known, DeletedNeverRuns, Running
<1>7. Gone'
  BY <1>2, <1>4 DEF Gone
<1>8. Expiries'
  BY <1>2, <1>4 DEF Expiries
<1>9. Bindings'
  BY <1>2, <1>4 DEF Bindings
<1> QED
  BY <1>3, <1>4, <1>5, <1>6, <1>7, <1>8, <1>9

(* An operation writes the row it holds: Create its own, Stop one that may *)
(* be gone.                                                                *)
LEMMA WriteRow ==
    ASSUME TypeOK, Shapes, Fresh, Known, Bindings, Gone, Expiries, DeletedNeverRuns,
           NEW p \in Procs, NEW sb \in Sandbox, Put(proc[p].id, sb), Others(p),
           proc[p].pc \notin Resting, sb.rid = proc[p].sb.rid, sb.expires = proc[p].sb.expires,
           sb # NoRow,
           sb.state = "running" => sb.rid \in Containers /\ proc[p].id \notin deleted,
           \/ Frees(p)
           \/ /\ proc'[p].id = proc[p].id /\ proc'[p].sb = proc[p].sb
              /\ proc'[p].pc \notin Resting \cup Creating,
           minted' = minted, deleted' = deleted, dueAt' = dueAt, used' = used, stock' = stock
    PROVE  /\ rows' \in [Ids -> Sandbox] /\ proc[p].id \in Ids /\ rows'[proc[p].id] = sb
           /\ \A a \in Ids : a # proc[p].id => rows'[a] = rows[a]
           /\ Fresh' /\ Known' /\ Bindings' /\ Gone' /\ Expiries' /\ DeletedNeverRuns'
<1> DEFINE id == proc[p].id
<1>1. id \in minted /\ id \in Ids /\ NoId \notin Ids
  BY NoneAssumption DEF TypeOK, Shapes, Shape
<1>2. /\ rows' \in [Ids -> Sandbox] /\ rows'[id] = sb
      /\ \A a \in Ids : a # id => rows'[a] = rows[a]
  BY <1>1 DEF TypeOK, Put
<1>3. \A q \in Procs : q # p => proc'[q] = proc[q]
  BY DEF Others
<1>4. Frees(p) => /\ proc'[p].pc \notin Creating /\ proc'[p].pc \in Resting
                  /\ proc'[p].id = NoId /\ proc'[p].sb.rid = NoCtr
  BY NoRowFacts DEF Frees, Resting, Creating
<1>s. \A q \in Procs : proc[q].id = NoId => proc[q].sb.rid = NoCtr
  BY NoneAssumption, NoRowFacts DEF TypeOK, Shapes, Shape
<1>n. \A q \in Procs : proc[q].pc \notin Resting => proc[q].id \in Ids
  BY DEF TypeOK, Shapes, Shape
<1>c. \A q \in Procs : proc[q].pc \in Creating => proc[q].pc \notin Resting
  BY DEF Creating, Resting
<1>5. Fresh'
  <2>1. \A q \in Procs : q # p /\ proc[q].pc \in Creating => proc[q].id # id
    BY DEF Fresh
  <2> QED
    BY <1>1, <1>2, <1>3, <1>4, <1>n, <1>c, <2>1 DEF Fresh
<1>6. Known' /\ DeletedNeverRuns'
  <2>1. Known'
    BY <1>1, <1>2 DEF Known
  <2>2. DeletedNeverRuns'
    BY <1>1, <1>2 DEF DeletedNeverRuns, Running
  <2> QED
    BY <2>1, <2>2
<1>7. Gone'
  BY <1>1, <1>2, <1>3, <1>4, <1>n DEF Gone
<1>8. Expiries'
  BY <1>1, <1>2, <1>3, <1>4 DEF Expiries
<1>9. Bindings'
  <2>1. \A a, b \in Ids : rows'[a].rid # NoCtr /\ rows'[a].rid = rows'[b].rid => a = b
    BY <1>1, <1>2 DEF Bindings
  <2>2. \A a \in Ids, q \in Procs :
           rows'[a].rid # NoCtr /\ rows'[a].rid = proc'[q].sb.rid => proc'[q].id = a
    BY <1>1, <1>2, <1>3, <1>4 DEF Bindings
  <2>3. \A q, o \in Procs :
           proc'[q].sb.rid # NoCtr /\ proc'[q].sb.rid = proc'[o].sb.rid => proc'[q].id = proc'[o].id
    BY <1>3, <1>4 DEF Bindings
  <2>4. \A a \in Ids, q \in Procs :
           proc'[q].id = a /\ rows'[a] # NoRow => rows'[a].rid = proc'[q].sb.rid
    BY <1>1, <1>2, <1>3, <1>4 DEF Bindings
  <2>5. \A q, o \in Procs : proc'[q].id = proc'[o].id => proc'[q].sb.rid = proc'[o].sb.rid
    BY <1>3, <1>4, <1>s DEF Bindings
  <2>6. /\ \A a \in Ids : rows'[a].rid \in Containers => rows'[a].rid \in used \ stock
        /\ \A q \in Procs : proc'[q].sb.rid \in Containers => proc'[q].sb.rid \in used \ stock
    BY <1>1, <1>2, <1>3, <1>4, NoneAssumption DEF Bindings
  <2> QED
    BY <2>1, <2>2, <2>3, <2>4, <2>5, <2>6 DEF Bindings
<1> QED
  BY <1>1, <1>2, <1>5, <1>6, <1>7, <1>8, <1>9

-----------------------------------------------------------------------------
LEMMA InitIInv == Init => IInv
<1> SUFFICES ASSUME Init PROVE IInv
  OBVIOUS
<1>p. \A p \in Procs : proc[p] = Idle
  BY DEF Init
<1>r. \A a \in Ids : rows[a] = NoRow
  BY DEF Init
<1>1. TypeOK
  <2>1. NoRow \in Sandbox /\ NoRow.state # "created" /\ Idle \in ProcType
    BY NoRowFacts
  <2>2. /\ 0 \in 0..MaxTime /\ 0 \in 0..MaxExits /\ 0 \in 0..MaxFaults /\ TRUE \in BOOLEAN
    BY BoundAssumption
  <2> QED
    BY <2>1, <2>2 DEF Init, TypeOK, ProcType
<1>2. Shapes /\ Fresh /\ Known /\ Gone /\ Expiries /\ DeletedNeverRuns
  <2>1. Shapes /\ Fresh /\ Gone /\ Expiries
    BY <1>p, <1>r, NoRowFacts DEF Shapes, Shape, Fresh, Gone, Expiries, Resting, Creating
  <2>2. Known /\ DeletedNeverRuns
    BY <1>r, NoRowFacts, FS_EmptySet DEF Init, Known, DeletedNeverRuns
  <2> QED
    BY <2>1, <2>2
<1>3. Bindings /\ PoolSets
  BY <1>p, <1>r, NoRowFacts, NoneAssumption DEF Init, Bindings, PoolSets
<1>4. ColdSandboxKeepsContainer /\ ColdPending /\ NoSilentLeak /\ Removed
  BY <1>p, <1>r, NoRowFacts
     DEF Init, ColdSandboxKeepsContainer, Running, ColdPending, NoSilentLeak, Removed
<1>5. GoneListed /\ SweptWasDeleted /\ Due /\ LogBuffersAreDropped
  <2>1. Reaper \in Procs
    BY DEF Procs
  <2> QED
    BY <1>p, <2>1, NoRowFacts DEF Init, GoneListed, SweptWasDeleted, Due, LogBuffersAreDropped
<1> QED
  BY <1>1, <1>2, <1>3, <1>4, <1>5 DEF IInv, Rest

(* A step of one operation that touches neither rows, containers, lists of *)
(* the sweep nor log buffers.                                              *)
LEMMA QuietStep ==
    ASSUME IInv, NEW p \in Procs, Others(p), Keeps(p) \/ Frees(p), Shape(proc[p])',
           proc[p].pc \notin {"put", "dropLog"},
           proc'[p].pc \notin {"put", "remove", "deleteRow"},
           rows' = rows, ctr' = ctr, warmLabel' = warmLabel, used' = used, stock' = stock,
           minted' = minted, dueAt' = dueAt, touched' = touched, deleted' = deleted,
           claimed' = claimed, orphans' = orphans, late' = late, logs' = logs, now' = now,
           sweepVars' = sweepVars
    PROVE  Rest'
<1>o. \A q \in Procs : q # p => proc'[q] = proc[q]
  BY DEF Others
<1>1. Fresh' /\ Known' /\ Bindings' /\ Gone' /\ Expiries' /\ DeletedNeverRuns'
  <2>1. stock' \subseteq stock /\ \A q \in Procs : proc'[q] = proc[q] \/ Keeps(q) \/ Frees(q)
    BY <1>o
  <2> QED
    BY <2>1, QuietRows DEF IInv, Rest
<1>2. ColdSandboxKeepsContainer' /\ ColdPending' /\ NoSilentLeak' /\ Removed'
  <2>1. /\ touched \subseteq touched' /\ orphans \subseteq orphans'
        /\ \A q \in Procs : \/ proc'[q] = proc[q]
                            \/ proc[q].pc # "put" /\ proc'[q].pc \notin {"put", "deleteRow"}
    BY <1>o
  <2> QED
    BY <2>1, QuietDaemon DEF IInv, Rest
<1>3. GoneListed' /\ SweptWasDeleted' /\ Due'
  <2>1. /\ \A id \in Ids : rows[id] # NoRow => rows'[id] # NoRow \/ id \in deleted'
        /\ deleted \subseteq deleted' /\ expired' \subseteq expired /\ expired \subseteq Ids
        /\ sweepAt' = sweepAt /\ counted' = counted /\ swept' = swept
        /\ \/ proc'[Reaper] = proc[Reaper]
           \/ proc'[Reaper].pc \notin {"remove", "deleteRow"}
    BY <1>o DEF sweepVars, IInv, TypeOK, Procs
  <2> QED
    BY <2>1, QuietSweep DEF IInv, Rest
<1>4. LogBuffersAreDropped'
  <2>1. /\ \A id \in Ids : rows[id] # NoRow => rows'[id] # NoRow
        /\ \A q \in Procs : proc'[q] = proc[q] \/ proc[q].pc # "dropLog"
    BY <1>o
  <2> QED
    BY <2>1, QuietLogs DEF IInv, Rest
<1>5. Shapes' /\ PoolSets'
  BY <1>o DEF IInv, Rest, Shapes, Shape, PoolSets
<1> QED
  BY <1>1, <1>2, <1>3, <1>4, <1>5 DEF Rest

-----------------------------------------------------------------------------
(* The types, with the faults of a step counted.                           *)
FaultOK == faults' \in 0..MaxFaults
LEMMA FaultFacts ==
    ASSUME TypeOK, Works \/ Fails
    PROVE  FaultOK
BY BoundAssumption DEF TypeOK, Works, Fails, FaultOK

(* The runtime fails for a Create; the counting of the rows; the end of an *)
(* Exec.                                                                   *)
LEMMA CountingIInv ==
    ASSUME IInv, NEW p \in Procs,
           CreateRuntimeFails(p) \/ RefreshList(p) \/ RefreshSet(p) \/ ExecRuntime(p)
    PROVE  IInv'
<1>t. /\ TypeOK /\ Shapes /\ proc \in [Procs -> ProcType] /\ proc[p] \in ProcType
      /\ Shape(proc[p])
  BY DEF IInv, Rest, TypeOK, ProcType, Shapes
<1>r. ASSUME Return(p), proc[p].pc \in {"list", "set", "exec"}
      PROVE  /\ proc' \in [Procs -> ProcType] /\ Others(p) /\ Frees(p) /\ Shape(proc[p])'
             /\ proc[p].pc \notin {"put", "dropLog"}
             /\ proc'[p].pc \notin {"put", "remove", "deleteRow"}
  BY <1>r, <1>t, ReturnFacts DEF Frees, Shape, Resting
<1>1. CASE CreateRuntimeFails(p)
  <2> DEFINE r == [proc[p] EXCEPT !.sb = [proc[p].sb EXCEPT !.state = "error"], !.pc = "putError"]
  <2>1. proc' = [proc EXCEPT ![p] = r] /\ proc[p].pc = "create"
    BY <1>1 DEF CreateRuntimeFails, At
  <2>2. /\ r \in ProcType /\ r.pc = "putError" /\ r.id = proc[p].id /\ r.sb.rid = proc[p].sb.rid
        /\ r.sb.expires = proc[p].sb.expires /\ r.sb.state = "error"
    BY <1>t DEF ProcType, Sandbox, Labels
  <2> HIDE DEF r
  <2>3. proc' \in [Procs -> ProcType] /\ Others(p) /\ proc'[p] = r
    BY <1>t, <2>1, <2>2 DEF Others
  <2>4. Keeps(p)
    BY <2>1, <2>2, <2>3 DEF Keeps, Resting, Creating
  <2>5. Shape(proc[p])'
    BY <1>1, <1>t, <2>1, <2>2, <2>3 DEF Shape, Resting, CreateRuntimeFails, histVars
  <2>6. Rest'
    BY <1>1, <2>1, <2>2, <2>3, <2>4, <2>5, QuietStep
       DEF CreateRuntimeFails, storeVars, daemonVars, memVars, histVars, worldVars
  <2>7. TypeOK'
    BY <1>1, <1>t, <2>3, FaultFacts
       DEF TypeOK, ProcType, FaultOK, CreateRuntimeFails, storeVars, daemonVars, memVars,
           sweepVars, histVars, worldVars
  <2> QED
    BY <2>6, <2>7 DEF IInv
<1>2. CASE RefreshList(p)
  <2>1. proc[p].pc = "list" /\ proc[p].id \in minted
    BY <1>2, <1>t DEF RefreshList, At, Shape, Resting
  <2>2. Cardinality(Running) \in Nat
    <3>1. Running \subseteq minted
      BY NoRowFacts DEF IInv, Rest, Known, Running
    <3> QED
      BY <3>1, FS_Subset, FS_CardinalityType DEF IInv, Rest, Known
  <2>3. /\ proc' \in [Procs -> ProcType] /\ Others(p) /\ Shape(proc[p])'
        /\ proc'[p].pc \notin {"put", "remove", "deleteRow"} /\ (Keeps(p) \/ Frees(p))
    <3>1. CASE Return(p)
      BY <1>r, <2>1, <3>1
    <3>2. CASE proc' = [proc EXCEPT ![p].n = Cardinality(Running), ![p].pc = "set"]
      <4> DEFINE n == Cardinality(Running)
                 r == [proc[p] EXCEPT !.n = n, !.pc = "set"]
      <4> HIDE DEF n
      <4>1. proc' = [proc EXCEPT ![p] = r]
        BY <3>2 DEF n
      <4>2. r \in ProcType /\ r.pc = "set" /\ r.id = proc[p].id /\ r.sb = proc[p].sb
        BY <1>t, <2>2 DEF ProcType, Labels, n
      <4> HIDE DEF r
      <4>3. proc' \in [Procs -> ProcType] /\ Others(p) /\ proc'[p] = r
        BY <1>t, <4>1, <4>2 DEF Others
      <4> QED
        BY <1>2, <1>t, <2>1, <4>2, <4>3
           DEF Keeps, Shape, Resting, Creating, RefreshList, histVars
    <3> QED
      BY <1>2, <3>1, <3>2 DEF RefreshList
  <2>4. Rest'
    BY <1>2, <2>1, <2>3, QuietStep
       DEF RefreshList, storeVars, daemonVars, memVars, histVars, worldVars
  <2>5. TypeOK'
    BY <1>2, <1>t, <2>3, FaultFacts
       DEF TypeOK, ProcType, FaultOK, RefreshList, storeVars, daemonVars, memVars,
           sweepVars, histVars, worldVars
  <2> QED
    BY <2>4, <2>5 DEF IInv
<1>3. CASE RefreshSet(p)
  <2>1. proc[p].pc = "set" /\ Return(p) /\ proc[p].n \in Nat
    BY <1>3, <1>t DEF RefreshSet, At, ProcType
  <2>2. Rest'
    BY <1>3, <1>r, <2>1, QuietStep DEF RefreshSet, storeVars, daemonVars, histVars, worldVars
  <2>3. TypeOK'
    BY <1>3, <1>r, <1>t, <2>1
       DEF TypeOK, ProcType, RefreshSet, storeVars, daemonVars, sweepVars, histVars, worldVars
  <2> QED
    BY <2>2, <2>3 DEF IInv
<1>4. CASE ExecRuntime(p)
  <2>1. proc[p].pc = "exec" /\ Return(p)
    BY <1>4 DEF ExecRuntime, At
  <2>2. Rest'
    BY <1>4, <1>r, <2>1, QuietStep
       DEF ExecRuntime, storeVars, daemonVars, memVars, histVars, worldVars
  <2>3. TypeOK'
    BY <1>4, <1>r, <1>t, <2>1
       DEF TypeOK, ProcType, ExecRuntime, storeVars, daemonVars, memVars, sweepVars, histVars,
           worldVars
  <2> QED
    BY <2>2, <2>3 DEF IInv
<1> QED
  BY <1>1, <1>2, <1>3, <1>4

-----------------------------------------------------------------------------
(* Create up to tryClaim: an id nobody knows, and a container that nobody  *)
(* but the pool had.                                                       *)
LEMMA NewSandboxRows ==
    ASSUME IInv, NEW p \in Workers, NEW id \in Ids, NEW ttl \in TTLs,
           NEW rid \in Containers \cup {NoCtr}, NEW state, NEW label,
           \/ state = "running" /\ label = "put" /\ rid \in stock /\ stock' = stock \ {rid}
           \/ state = "created" /\ label = "create" /\ rid = NoCtr /\ stock' = stock,
           NewSandbox(p, id, ttl, state, rid, label),
           rows' = rows, deleted' = deleted, used' = used, touched' = touched
    PROVE  /\ proc' \in [Procs -> ProcType] /\ Others(p) /\ proc[p].pc = "idle"
           /\ proc'[p].pc = label /\ proc'[p].id = id /\ proc'[p].sb.rid = rid /\ p # Reaper
           /\ minted' = minted \cup {id} /\ id \notin minted
           /\ dueAt' \in [Ids -> Nat \cup {Never}]
           /\ \A a \in Ids : a # id => dueAt'[a] = dueAt[a]
           /\ Shapes' /\ Fresh' /\ Known' /\ Bindings' /\ Gone' /\ Expiries'
           /\ DeletedNeverRuns'
<1> DEFINE due == IF ttl > 0 THEN now + ttl ELSE Never
           e == IF due = Never THEN Never ELSE Unix(due)
           sb == [state |-> state, rid |-> rid, expires |-> e]
           r == [pc |-> label, id |-> id, n |-> 0, sb |-> sb]
<1>t. /\ TypeOK /\ proc \in [Procs -> ProcType] /\ p \in Procs /\ p # Reaper /\ NoId \notin Ids
      /\ NoCtr \notin Containers /\ Shapes /\ Fresh /\ Known /\ Bindings /\ Gone /\ Expiries
      /\ DeletedNeverRuns /\ PoolSets
  BY NoneAssumption DEF IInv, Rest, TypeOK, ProcType, Procs
<1>1. due \in Nat \cup {Never} /\ e \in Nat \cup {Never} /\ e = Stored(due)
  BY <1>t, BoundAssumption DEF TypeOK, Never, Unix, Stored
<1>2. /\ r \in ProcType /\ r.pc = label /\ r.id = id /\ r.sb.rid = rid /\ r.sb.expires = e
      /\ r.sb.state = state
  BY <1>1 DEF ProcType, Sandbox, Labels
<1>3. /\ proc[p].pc = "idle" /\ id \notin minted /\ minted' = minted \cup {id}
      /\ dueAt' = [dueAt EXCEPT ![id] = due] /\ proc' = [proc EXCEPT ![p] = r]
  BY DEF NewSandbox, At
<1> HIDE DEF r, due, e, sb
<1>4. proc' \in [Procs -> ProcType] /\ Others(p) /\ proc'[p] = r
  BY <1>2, <1>3, <1>t DEF Others
<1>5. /\ dueAt' \in [Ids -> Nat \cup {Never}] /\ dueAt'[id] = due
      /\ \A a \in Ids : a # id => dueAt'[a] = dueAt[a]
  BY <1>1, <1>3, <1>t DEF TypeOK
<1>o. \A q \in Procs : q # p => proc'[q] = proc[q]
  BY <1>4 DEF Others
<1>f. /\ \A q \in Procs : proc[q].id \in minted \cup {NoId} /\ proc[q].id # id
      /\ rows[id] = NoRow /\ id \notin deleted
  BY <1>3, <1>t DEF Shapes, Shape, Known
<1>6. Shapes'
  <2>1. Shape(proc[p])'
    BY <1>2, <1>3, <1>4, <1>t DEF Shape, Resting, TypeOK
  <2>2. \A q \in Procs : q # p => Shape(proc[q])'
    BY <1>3, <1>o, <1>t DEF Shapes, Shape
  <2> QED
    BY <2>1, <2>2 DEF Shapes
<1>7. Fresh'
  BY <1>2, <1>4, <1>f, <1>o, <1>t DEF Fresh
<1>8. Known' /\ DeletedNeverRuns'
  BY <1>3, <1>t, FS_AddElement DEF Known, DeletedNeverRuns, Running
<1>9. Gone'
  BY <1>2, <1>4, <1>o, <1>t DEF Gone, Creating
<1>10. Expiries'
  <2>1. \A a \in Ids : rows[a] # NoRow => a # id
    BY <1>f
  <2>2. \A q \in Procs : proc[q].pc \notin Resting => proc[q].id \in Ids /\ proc[q].id # id
    BY <1>f, <1>t DEF Shapes, Shape, TypeOK
  <2> QED
    BY <1>1, <1>2, <1>4, <1>5, <1>o, <1>t, <2>1, <2>2 DEF Expiries
<1>11. Bindings'
  <2>1. \A a \in Ids : rows[a].rid # NoCtr => rows[a].rid # rid
    BY <1>t DEF Bindings, TypeOK, Sandbox
  <2>2. \A q \in Procs : proc[q].sb.rid # NoCtr => proc[q].sb.rid # rid
    BY <1>t DEF Bindings, TypeOK, Sandbox
  <2>3. rid \in Containers => rid \in used \ stock'
    BY <1>t DEF PoolSets
  <2>4. stock' \subseteq stock
    OBVIOUS
  <2> QED
    BY <1>2, <1>4, <1>f, <1>o, <1>t, <2>1, <2>2, <2>3, <2>4 DEF Bindings
<1> QED
  BY <1>2, <1>3, <1>4, <1>5, <1>6, <1>7, <1>8, <1>9, <1>10, <1>11, <1>t

(* A new id is not in the lists of the sweep.                              *)
LEMMA NewSandboxSweep ==
    ASSUME IInv, NEW id \in Ids, id \notin minted, rows' = rows, deleted' = deleted,
           sweepVars' = sweepVars, now' = now, proc'[Reaper] = proc[Reaper],
           \A a \in Ids : a # id => dueAt'[a] = dueAt[a]
    PROVE  GoneListed' /\ SweptWasDeleted' /\ Due'
<1>1. \A a \in expired : a \in Ids /\ a # id
  BY DEF IInv, Rest, TypeOK, GoneListed, Known
<1>2. proc[Reaper].pc \in {"remove", "deleteRow"} => proc[Reaper].id \in Ids /\ proc[Reaper].id # id
  BY DEF IInv, Rest, TypeOK, Shapes, Shape, Resting, Procs
<1> QED
  BY <1>1, <1>2 DEF IInv, Rest, GoneListed, SweptWasDeleted, Due, Past, sweepVars

LEMMA CreateMissesIInv ==
    ASSUME IInv, NEW p \in Workers, NEW id \in Ids, NEW ttl \in TTLs, CreateMisses(p, id, ttl)
    PROVE  IInv'
<1>u. /\ rows' = rows /\ ctr' = ctr /\ warmLabel' = warmLabel /\ used' = used /\ stock' = stock
      /\ logs' = logs /\ gauge' = gauge /\ sweepVars' = sweepVars /\ touched' = touched
      /\ deleted' = deleted /\ claimed' = claimed /\ orphans' = orphans /\ late' = late
      /\ up' = up /\ now' = now /\ exits' = exits /\ faults' = faults
  BY DEF CreateMisses, storeVars, daemonVars, memVars, worldVars
<1>1. /\ proc' \in [Procs -> ProcType] /\ Others(p) /\ proc[p].pc = "idle"
      /\ proc'[p].pc = "create" /\ p # Reaper
      /\ minted' = minted \cup {id} /\ id \notin minted
      /\ dueAt' \in [Ids -> Nat \cup {Never}]
      /\ \A a \in Ids : a # id => dueAt'[a] = dueAt[a]
      /\ Shapes' /\ Fresh' /\ Known' /\ Bindings' /\ Gone' /\ Expiries'
      /\ DeletedNeverRuns'
  BY <1>u, NewSandboxRows DEF CreateMisses
<1>o. \A q \in Procs : q # p => proc'[q] = proc[q]
  BY <1>1 DEF Others
<1>2. ColdSandboxKeepsContainer' /\ ColdPending' /\ NoSilentLeak' /\ Removed'
  <2>1. /\ touched \subseteq touched' /\ orphans \subseteq orphans'
        /\ \A q \in Procs : \/ proc'[q] = proc[q]
                            \/ proc[q].pc # "put" /\ proc'[q].pc \notin {"put", "deleteRow"}
    BY <1>1, <1>o, <1>u
  <2> QED
    BY <1>u, <2>1, QuietDaemon DEF IInv, Rest
<1>3. GoneListed' /\ SweptWasDeleted' /\ Due'
  <2>1. proc'[Reaper] = proc[Reaper]
    BY <1>1, <1>o DEF Procs
  <2> QED
    BY <1>1, <1>u, <2>1, NewSandboxSweep
<1>4. LogBuffersAreDropped'
  <2>1. /\ \A a \in Ids : rows[a] # NoRow => rows'[a] # NoRow
        /\ \A q \in Procs : proc'[q] = proc[q] \/ proc[q].pc # "dropLog"
    BY <1>1, <1>o, <1>u
  <2> QED
    BY <1>u, <2>1, QuietLogs DEF IInv, Rest
<1>5. PoolSets'
  BY <1>u DEF IInv, Rest, PoolSets
<1>6. TypeOK'
  BY <1>1, <1>u DEF IInv, TypeOK, ProcType, sweepVars
<1> QED
  BY <1>1, <1>2, <1>3, <1>4, <1>5, <1>6 DEF IInv, Rest

LEMMA CreateClaimsIInv ==
    ASSUME IInv, NEW p \in Workers, NEW id \in Ids, NEW ttl \in TTLs, NEW c \in Containers,
           CreateClaims(p, id, ttl, c)
    PROVE  IInv'
<1>u. /\ rows' = rows /\ ctr' = ctr /\ warmLabel' = warmLabel /\ used' = used
      /\ logs' = logs /\ gauge' = gauge /\ sweepVars' = sweepVars /\ touched' = touched
      /\ deleted' = deleted /\ orphans' = orphans /\ late' = late
      /\ up' = up /\ now' = now /\ exits' = exits /\ faults' = faults
      /\ c \in stock /\ stock' = stock \ {c} /\ claimed' = claimed \cup {c}
  BY DEF CreateClaims, Pool!Take
<1>1. /\ proc' \in [Procs -> ProcType] /\ Others(p) /\ proc[p].pc = "idle"
      /\ proc'[p].pc = "put" /\ proc'[p].sb.rid = c /\ p # Reaper
      /\ minted' = minted \cup {id} /\ id \notin minted
      /\ dueAt' \in [Ids -> Nat \cup {Never}]
      /\ \A a \in Ids : a # id => dueAt'[a] = dueAt[a]
      /\ Shapes' /\ Fresh' /\ Known' /\ Bindings' /\ Gone' /\ Expiries'
      /\ DeletedNeverRuns'
  BY <1>u, NewSandboxRows DEF CreateClaims
<1>o. \A q \in Procs : q # p => proc'[q] = proc[q]
  BY <1>1 DEF Others
<1>2. ColdSandboxKeepsContainer'
  BY <1>u DEF IInv, Rest, ColdSandboxKeepsContainer, Running
<1>3. ColdPending'
  BY <1>1, <1>o, <1>u DEF IInv, Rest, ColdPending, PoolSets
<1>4. Removed'
  BY <1>1, <1>o, <1>u DEF IInv, Rest, Removed
<1>5. NoSilentLeak'
  <2>1. InRows' = InRows
    BY <1>u DEF InRows
  <2>2. p \in Procs
    BY DEF Procs
  <2>3. Pending \cup {c} \subseteq Pending'
    BY <1>1, <1>o, <2>2 DEF Pending
  <2> QED
    BY <1>u, <2>1, <2>3 DEF IInv, Rest, NoSilentLeak
<1>6. GoneListed' /\ SweptWasDeleted' /\ Due'
  <2>1. proc'[Reaper] = proc[Reaper]
    BY <1>1, <1>o DEF Procs
  <2> QED
    BY <1>1, <1>u, <2>1, NewSandboxSweep
<1>7. LogBuffersAreDropped'
  <2>1. /\ \A a \in Ids : rows[a] # NoRow => rows'[a] # NoRow
        /\ \A q \in Procs : proc'[q] = proc[q] \/ proc[q].pc # "dropLog"
    BY <1>1, <1>o, <1>u
  <2> QED
    BY <1>u, <2>1, QuietLogs DEF IInv, Rest
<1>8. PoolSets'
  BY <1>u DEF IInv, Rest, PoolSets
<1>9. TypeOK'
  BY <1>1, <1>u DEF IInv, TypeOK, ProcType, sweepVars
<1> QED
  BY <1>1, <1>2, <1>3, <1>4, <1>5, <1>6, <1>7, <1>8, <1>9 DEF IInv, Rest

-----------------------------------------------------------------------------
(* The runtime makes the container of a Create.                            *)
LEMMA CreateRuntimeIInv ==
    ASSUME IInv, NEW p \in Procs, NEW c \in Containers, CreateRuntime(p, c)
    PROVE  IInv'
<1>t. /\ TypeOK /\ Rest /\ proc \in [Procs -> ProcType] /\ proc[p] \in ProcType
      /\ Shape(proc[p]) /\ NoCtr \notin Containers /\ NoId \notin Ids
  BY NoneAssumption DEF IInv, Rest, TypeOK, ProcType, Shapes
<1>u. /\ rows' = rows /\ warmLabel' = warmLabel /\ stock' = stock
      /\ logs' = logs /\ gauge' = gauge /\ sweepVars' = sweepVars /\ touched' = touched
      /\ deleted' = deleted /\ claimed' = claimed /\ orphans' = orphans /\ late' = late
      /\ minted' = minted /\ dueAt' = dueAt /\ up' = up /\ now' = now /\ exits' = exits
      /\ faults' = faults /\ c \notin used /\ used' = used \cup {c}
      /\ ctr' = [ctr EXCEPT ![c] = "running"]
  BY DEF CreateRuntime, storeVars, memVars, histVars, worldVars, Works
<1> DEFINE r == [proc[p] EXCEPT !.sb = [proc[p].sb EXCEPT !.rid = c, !.state = "running"],
                                !.pc = "put"]
<1>1. proc[p].pc = "create" /\ proc' = [proc EXCEPT ![p] = r]
  BY DEF CreateRuntime, At
<1>2. /\ r \in ProcType /\ r.pc = "put" /\ r.id = proc[p].id /\ r.sb.rid = c
      /\ r.sb.state = "running" /\ r.sb.expires = proc[p].sb.expires
  BY <1>t DEF ProcType, Sandbox, Labels
<1> HIDE DEF r
<1>3. proc' \in [Procs -> ProcType] /\ proc'[p] = r /\ \A q \in Procs : q # p => proc'[q] = proc[q]
  BY <1>1, <1>2, <1>t
<1>i. /\ proc[p].id \in Ids /\ rows[proc[p].id] = NoRow /\ proc[p].id \notin deleted
      /\ \A q \in Procs : proc[q].id = proc[p].id => q = p
  BY <1>1, <1>t DEF Shape, Resting, TypeOK, Rest, Fresh, Creating
<1>n. /\ \A a \in Ids : rows[a].rid # c
      /\ \A q \in Procs : proc[q].sb.rid # c
  BY <1>t, <1>u DEF Rest, Bindings
<1>4. Shapes'
  <2>1. Shape(proc[p])'
    BY <1>1, <1>2, <1>3, <1>t, <1>u DEF Shape, Resting
  <2>2. \A q \in Procs : q # p => Shape(proc[q])'
    BY <1>3, <1>t, <1>u DEF Rest, Shapes, Shape
  <2> QED
    BY <2>1, <2>2 DEF Shapes
<1>5. Fresh'
  BY <1>2, <1>3, <1>i, <1>t, <1>u DEF Rest, Fresh
<1>6. Known' /\ DeletedNeverRuns' /\ PoolSets'
  BY <1>t, <1>u DEF Rest, Known, DeletedNeverRuns, Running, PoolSets
<1>7. Gone'
  BY <1>2, <1>3, <1>t, <1>u DEF Rest, Gone, Creating
<1>8. Expiries'
  BY <1>1, <1>2, <1>3, <1>t, <1>u DEF Rest, Expiries, Resting
<1>9. Bindings'
  <2>1. c \notin stock
    BY <1>t, <1>u DEF Rest, PoolSets
  <2> QED
    BY <1>2, <1>3, <1>i, <1>n, <1>t, <1>u, <2>1 DEF Rest, Bindings
<1>10. ColdSandboxKeepsContainer'
  BY <1>n, <1>t, <1>u DEF Rest, ColdSandboxKeepsContainer, Running
<1>11. ColdPending'
  BY <1>2, <1>3, <1>n, <1>t, <1>u DEF Rest, ColdPending, TypeOK
<1>12. Removed'
  BY <1>2, <1>3, <1>n, <1>t, <1>u DEF Rest, Removed
<1>13. NoSilentLeak'
  <2>1. InRows' = InRows
    BY <1>u DEF InRows
  <2>2. Pending \cup {c} \subseteq Pending'
    BY <1>1, <1>2, <1>3 DEF Pending
  <2>3. \A d \in Containers : d # c => ctr'[d] = ctr[d]
    BY <1>t, <1>u DEF TypeOK
  <2> QED
    BY <1>t, <1>u, <2>1, <2>2, <2>3 DEF Rest, NoSilentLeak
<1>14. GoneListed' /\ SweptWasDeleted' /\ Due'
  <2>1. proc'[Reaper] = proc[Reaper] \/ proc'[Reaper].pc \notin {"remove", "deleteRow"}
    BY <1>2, <1>3 DEF Procs
  <2> QED
    BY <1>t, <1>u, <2>1, QuietSweep DEF Rest, TypeOK, sweepVars
<1>15. LogBuffersAreDropped'
  <2>1. \A q \in Procs : proc'[q] = proc[q] \/ proc[q].pc # "dropLog"
    BY <1>1, <1>3
  <2> QED
    BY <1>t, <1>u, <2>1, QuietLogs DEF Rest
<1>16. TypeOK'
  BY <1>3, <1>t, <1>u DEF TypeOK, ProcType, sweepVars
<1> QED
  BY <1>4, <1>5, <1>6, <1>7, <1>8, <1>9, <1>10, <1>11, <1>12, <1>13, <1>14, <1>15, <1>16
     DEF IInv, Rest

(* Create writes its row, or the row of a failure; Stop writes its back.   *)
LEMMA PutIInv ==
    ASSUME IInv, NEW p \in Procs, CreatePutError(p) \/ CreatePut(p) \/ StopPut(p)
    PROVE  IInv'
<1>t. /\ TypeOK /\ Rest /\ proc \in [Procs -> ProcType] /\ proc[p] \in ProcType
      /\ Shape(proc[p]) /\ NoCtr \notin Containers /\ NoId \notin Ids
  BY NoneAssumption DEF IInv, Rest, TypeOK, ProcType, Shapes
<1>u. /\ ctr' = ctr /\ warmLabel' = warmLabel /\ used' = used /\ stock' = stock
      /\ logs' = logs /\ gauge' = gauge /\ sweepVars' = sweepVars /\ touched' = touched
      /\ deleted' = deleted /\ claimed' = claimed /\ late' = late
      /\ minted' = minted /\ dueAt' = dueAt /\ up' = up /\ now' = now /\ exits' = exits
  BY DEF CreatePutError, CreatePut, StopPut, daemonVars, memVars, histVars, worldVars
<1>c. /\ proc[p].pc \in {"putError", "put", "putStopped"} /\ proc[p].pc \notin Resting
      /\ proc[p].id \in Ids
  BY <1>t DEF CreatePutError, CreatePut, StopPut, At, Resting, Shape, TypeOK
<1>q. FaultOK
  BY <1>t, FaultFacts DEF CreatePutError, CreatePut, StopPut
<1>m. /\ proc' \in [Procs -> ProcType] /\ Others(p)
      /\ \/ Frees(p)
         \/ /\ proc'[p].pc = "list" /\ proc'[p].id = proc[p].id /\ proc'[p].sb = proc[p].sb
  <2>1. CASE Return(p)
    BY <1>t, <2>1, ReturnFacts
  <2>2. CASE Goto(p, "list")
    BY <1>t, <2>2, GotoFacts DEF Labels
  <2> QED
    BY <2>1, <2>2 DEF CreatePutError, CreatePut, StopPut
<1>o. \A q \in Procs : q # p => proc'[q] = proc[q]
  BY <1>m DEF Others
<1>p. proc'[p].pc \notin {"put", "remove", "deleteRow", "dropLog"} /\ proc'[p].pc \notin Creating
  BY <1>m DEF Frees, Resting, Creating
<1>1. Shapes'
  <2>1. Shape(proc[p])'
    BY <1>m, <1>t, <1>u, <1>c DEF Shape, Resting, Frees
  <2>2. \A q \in Procs : q # p => Shape(proc[q])'
    BY <1>o, <1>t, <1>u DEF Rest, Shapes, Shape
  <2> QED
    BY <2>1, <2>2 DEF Shapes
<1>2. Removed'
  <2>1. orphans \subseteq orphans'
    BY <1>u DEF CreatePutError, CreatePut, StopPut, histVars, Abandon
  <2> QED
    BY <1>o, <1>p, <1>t, <1>u, <2>1 DEF Rest, Removed
<1>3. ColdPending' /\ PoolSets'
  BY <1>o, <1>p, <1>t, <1>u DEF Rest, ColdPending, PoolSets
(* The row is written, ...                                                 *)
<1>w. ASSUME NEW sb \in Sandbox, Put(proc[p].id, sb), sb.rid = proc[p].sb.rid,
             sb.expires = proc[p].sb.expires, sb.state \in {"running", "stopped", "error"},
             sb.state = "running" => proc[p].pc = "put",
             orphans' = orphans
      PROVE  IInv'
  <2>1. sb # NoRow /\ sb.state # "created"
    BY <1>w, NoRowFacts
  <2>2. sb.state = "running" => sb.rid \in Containers /\ proc[p].id \notin deleted
    BY <1>t, <1>w DEF Shape, Rest, Fresh, Creating
  <2>3. \/ Frees(p)
        \/ /\ proc'[p].id = proc[p].id /\ proc'[p].sb = proc[p].sb
           /\ proc'[p].pc \notin Resting \cup Creating
    BY <1>m DEF Resting, Creating
  <2>4. /\ rows' \in [Ids -> Sandbox] /\ proc[p].id \in Ids /\ rows'[proc[p].id] = sb
        /\ \A a \in Ids : a # proc[p].id => rows'[a] = rows[a]
        /\ Fresh' /\ Known' /\ Bindings' /\ Gone' /\ Expiries' /\ DeletedNeverRuns'
    BY <1>c, <1>m, <1>t, <1>u, <1>w, <2>1, <2>2, <2>3, WriteRow DEF Rest
  <2>5. ColdSandboxKeepsContainer'
    BY <1>t, <1>u, <1>w, <2>4 DEF Rest, ColdSandboxKeepsContainer, Running, ColdPending
  <2>6. NoSilentLeak'
    <3>1. InRows \subseteq InRows'
      <4>1. rows[proc[p].id] # NoRow => rows[proc[p].id].rid = sb.rid
        BY <1>c, <1>t, <1>w DEF Rest, Bindings
      <4> QED
        BY <2>4, <4>1, NoRowFacts DEF InRows
    <3>2. Pending \subseteq Pending' \cup InRows'
      <4> SUFFICES ASSUME NEW q \in Procs, proc[q].pc = "put"
                   PROVE  proc[q].sb.rid \in Pending' \cup InRows'
        BY DEF Pending
      <4>1. CASE q # p
        BY <1>o, <4>1 DEF Pending
      <4>2. CASE q = p
        <5>1. sb.rid \in Containers
          BY <1>t, <1>w, <4>2 DEF Shape
        <5> QED
          BY <1>t, <1>w, <2>4, <4>2, <5>1 DEF InRows
      <4> QED
        BY <4>1, <4>2
    <3> QED
      BY <1>t, <1>u, <1>w, <3>1, <3>2 DEF Rest, NoSilentLeak
  <2>7. GoneListed' /\ SweptWasDeleted' /\ Due'
    <3>1. /\ proc'[Reaper] = proc[Reaper] \/ proc'[Reaper].pc \notin {"remove", "deleteRow"}
          /\ \A a \in Ids : rows[a] # NoRow => rows'[a] # NoRow \/ a \in deleted'
      BY <1>o, <1>p, <2>1, <2>4 DEF Procs
    <3> QED
      BY <1>t, <1>u, <3>1, QuietSweep DEF Rest, TypeOK, sweepVars
  <2>8. LogBuffersAreDropped'
    <3>1. /\ \A q \in Procs : proc'[q] = proc[q] \/ proc[q].pc # "dropLog"
          /\ \A a \in Ids : rows[a] # NoRow => rows'[a] # NoRow
      BY <1>c, <1>o, <2>1, <2>4
    <3> QED
      BY <1>t, <1>u, <3>1, QuietLogs DEF Rest
  <2>9. TypeOK'
    <3>1. \A a \in Ids : rows'[a].state # "created"
      BY <1>t, <2>1, <2>4 DEF TypeOK
    <3> QED
      BY <1>m, <1>q, <1>t, <1>u, <1>w, <2>4, <3>1 DEF TypeOK, ProcType, sweepVars, FaultOK
  <2> QED
    BY <1>1, <1>2, <1>3, <2>4, <2>5, <2>6, <2>7, <2>8, <2>9 DEF IInv, Rest
(* ... or it is not, and the operation returns.                            *)
<1>f. ASSUME Return(p), rows' = rows, orphans \subseteq orphans', orphans' \subseteq Containers,
             proc[p].pc = "put" => proc[p].sb.rid \in orphans'
      PROVE  IInv'
  <2>1. Frees(p)
    BY <1>f, <1>t, ReturnFacts
  <2>2. Fresh' /\ Known' /\ Bindings' /\ Gone' /\ Expiries' /\ DeletedNeverRuns'
    <3>1. stock' \subseteq stock /\ \A q \in Procs : proc'[q] = proc[q] \/ Keeps(q) \/ Frees(q)
      BY <1>o, <1>u, <2>1
    <3> QED
      BY <1>f, <1>t, <1>u, <3>1, QuietRows DEF Rest
  <2>3. ColdSandboxKeepsContainer'
    BY <1>f, <1>t, <1>u DEF Rest, ColdSandboxKeepsContainer, Running
  <2>4. NoSilentLeak'
    <3>1. InRows' = InRows
      BY <1>f DEF InRows
    <3>2. Pending \subseteq Pending' \cup orphans'
      BY <1>f, <1>o DEF Pending
    <3> QED
      BY <1>f, <1>t, <1>u, <3>1, <3>2 DEF Rest, NoSilentLeak
  <2>5. GoneListed' /\ SweptWasDeleted' /\ Due'
    <3>1. proc'[Reaper] = proc[Reaper] \/ proc'[Reaper].pc \notin {"remove", "deleteRow"}
      BY <1>o, <1>p DEF Procs
    <3> QED
      BY <1>f, <1>t, <1>u, <3>1, QuietSweep DEF Rest, TypeOK, sweepVars
  <2>6. LogBuffersAreDropped'
    <3>1. \A q \in Procs : proc'[q] = proc[q] \/ proc[q].pc # "dropLog"
      BY <1>c, <1>o
    <3> QED
      BY <1>f, <1>t, <1>u, <3>1, QuietLogs DEF Rest
  <2>7. TypeOK'
    BY <1>f, <1>m, <1>q, <1>t, <1>u DEF TypeOK, ProcType, sweepVars, FaultOK
  <2> QED
    BY <1>1, <1>2, <1>3, <2>2, <2>3, <2>4, <2>5, <2>6, <2>7 DEF IInv, Rest
<1>s. proc[p].sb \in Sandbox /\ orphans \subseteq Containers
  BY <1>t DEF ProcType, TypeOK
<1>4. CASE CreatePutError(p)
  <2>1. proc[p].pc = "putError" /\ proc[p].sb.state = "error" /\ Return(p) /\ orphans' = orphans
    BY <1>4, <1>t DEF CreatePutError, At, Shape, histVars
  <2>2. CASE Put(proc[p].id, proc[p].sb)
    BY <1>s, <1>w, <2>1, <2>2
  <2>3. CASE rows' = rows
    BY <1>f, <1>s, <2>1, <2>3
  <2> QED
    BY <1>4, <2>2, <2>3 DEF CreatePutError
<1>5. CASE CreatePut(p)
  <2>1. proc[p].pc = "put" /\ proc[p].sb.state = "running" /\ proc[p].sb.rid \in Containers
    BY <1>5, <1>t DEF CreatePut, At, Shape
  <2>2. CASE Put(proc[p].id, proc[p].sb) /\ orphans' = orphans
    BY <1>s, <1>w, <2>1, <2>2
  <2>3. CASE rows' = rows /\ Abandon({proc[p].sb.rid}) /\ Return(p)
    BY <1>f, <1>s, <2>1, <2>3 DEF Abandon
  <2> QED
    BY <1>5, <2>2, <2>3 DEF CreatePut
<1>6. CASE StopPut(p)
  <2>1. proc[p].pc = "putStopped" /\ orphans' = orphans
    BY <1>6 DEF StopPut, At, histVars
  <2>2. CASE Put(proc[p].id, [proc[p].sb EXCEPT !.state = "stopped"])
    <3> DEFINE sb == [proc[p].sb EXCEPT !.state = "stopped"]
    <3>1. /\ sb \in Sandbox /\ sb.rid = proc[p].sb.rid /\ sb.expires = proc[p].sb.expires
          /\ sb.state = "stopped"
      BY <1>s DEF Sandbox
    <3> HIDE DEF sb
    <3>2. Put(proc[p].id, sb)
      BY <2>2 DEF sb
    <3> QED
      BY <1>w, <2>1, <3>1, <3>2
  <2>3. CASE rows' = rows /\ Return(p)
    BY <1>f, <1>s, <2>1, <2>3
  <2> QED
    BY <1>6, <2>2, <2>3 DEF StopPut
<1> QED
  BY <1>4, <1>5, <1>6

-----------------------------------------------------------------------------
(* Delete, Stop, Exec and Logs begin with a row.                           *)
LEMMA LoadIInv ==
    ASSUME IInv, NEW p \in Procs, NEW id \in Ids,
           NEW label \in {"remove", "deleteRow", "stop", "execLog", "logsLog"},
           proc[p].pc \in {"idle", "next"}, Load(p, id, label),
           label = "remove" => rows[id].rid # NoCtr,
           label = "deleteRow" => rows[id].rid = NoCtr,
           touched' \in {touched, touched \cup {id}},
           label \in {"remove", "deleteRow", "stop"} => id \in touched',
           p = Reaper => id \in expired, expired' \subseteq expired,
           sweepAt' = sweepAt, counted' = counted, swept' = swept,
           UNCHANGED <<storeVars, daemonVars, stock, logs, gauge>>,
           UNCHANGED <<minted, dueAt, deleted, claimed, orphans, late, worldVars, faults>>
    PROVE  IInv'
<1>t. /\ TypeOK /\ Rest /\ proc \in [Procs -> ProcType] /\ NoCtr \notin Containers
      /\ NoId \notin Ids
  BY NoneAssumption DEF IInv, Rest, TypeOK, ProcType
<1>u. /\ rows' = rows /\ ctr' = ctr /\ warmLabel' = warmLabel /\ used' = used /\ stock' = stock
      /\ logs' = logs /\ gauge' = gauge /\ deleted' = deleted /\ claimed' = claimed
      /\ orphans' = orphans /\ late' = late /\ minted' = minted /\ dueAt' = dueAt
      /\ up' = up /\ now' = now /\ exits' = exits /\ faults' = faults
  BY DEF storeVars, daemonVars, worldVars
<1>l. label \in Labels \ (Resting \cup Creating)
  BY DEF Labels, Resting, Creating
<1>1. /\ proc' \in [Procs -> ProcType] /\ Others(p) /\ proc'[p].pc = label
      /\ proc'[p].id = id /\ proc'[p].sb = rows[id] /\ id \in minted
      /\ Fresh' /\ Known' /\ Bindings' /\ Gone' /\ Expiries' /\ DeletedNeverRuns'
  BY <1>l, <1>t, <1>u, LoadRow DEF Rest
<1>o. \A q \in Procs : q # p => proc'[q] = proc[q]
  BY <1>1 DEF Others
<1>2. Shapes' /\ PoolSets'
  <2>1. Shape(proc[p])'
    <3>1. rows[id].rid \in Containers \cup {NoCtr}
      BY <1>t DEF TypeOK, Sandbox
    <3> QED
      BY <1>1, <1>u, <3>1 DEF Shape, Resting
  <2>2. \A q \in Procs : q # p => Shape(proc[q])'
    BY <1>o, <1>t, <1>u DEF Rest, Shapes, Shape
  <2> QED
    BY <1>t, <1>u, <2>1, <2>2 DEF Rest, Shapes, PoolSets
<1>3. ColdSandboxKeepsContainer' /\ ColdPending' /\ NoSilentLeak' /\ Removed'
  <2>1. ColdSandboxKeepsContainer'
    BY <1>t, <1>u DEF Rest, ColdSandboxKeepsContainer, Running
  <2>2. ColdPending'
    BY <1>1, <1>o, <1>t, <1>u DEF Rest, ColdPending
  <2>3. Removed'
    BY <1>1, <1>o, <1>t, <1>u DEF Rest, Removed
  <2>4. InRows' = InRows /\ Pending \subseteq Pending'
    BY <1>1, <1>o, <1>u DEF InRows, Pending
  <2> QED
    BY <1>t, <1>u, <2>1, <2>2, <2>3, <2>4 DEF Rest, NoSilentLeak
<1>4. GoneListed' /\ SweptWasDeleted' /\ Due'
  <2>1. GoneListed' /\ SweptWasDeleted'
    BY <1>t, <1>u DEF Rest, GoneListed, SweptWasDeleted
  <2>2. p = Reaper => Past(id)
    BY <1>t DEF Rest, Due
  <2> QED
    BY <1>1, <1>o, <1>t, <1>u, <2>1, <2>2 DEF Rest, Due, Past, Procs
<1>5. LogBuffersAreDropped'
  <2>1. \A q \in Procs : proc'[q] = proc[q] \/ proc[q].pc # "dropLog"
    BY <1>o
  <2> QED
    BY <1>t, <1>u, <2>1, QuietLogs DEF Rest
<1>6. TypeOK'
  BY <1>1, <1>t, <1>u DEF TypeOK, ProcType
<1> QED
  BY <1>1, <1>2, <1>3, <1>4, <1>5, <1>6 DEF IInv, Rest

LEMMA CallsIInv ==
    ASSUME IInv, NEW p \in Workers, NEW id \in Ids,
           DeleteCall(p, id) \/ StopGet(p, id) \/ ExecGet(p, id) \/ LogsGet(p, id)
    PROVE  IInv'
<1>t. p \in Procs /\ p # Reaper
  BY NoneAssumption DEF Procs
<1>1. CASE DeleteCall(p, id)
  <2> DEFINE l == IF rows[id].rid # NoCtr THEN "remove" ELSE "deleteRow"
  <2>1. /\ proc[p].pc = "idle" /\ Load(p, id, l) /\ touched' = touched \cup {id}
        /\ UNCHANGED <<storeVars, daemonVars, stock, logs, gauge>>
        /\ UNCHANGED <<minted, dueAt, deleted, claimed, orphans, late, worldVars, faults>>
        /\ sweepVars' = sweepVars
    BY <1>1 DEF DeleteCall, DeleteGet, At, memVars
  <2>2. /\ l \in {"remove", "deleteRow", "stop", "execLog", "logsLog"}
        /\ l = "remove" => rows[id].rid # NoCtr
        /\ l = "deleteRow" => rows[id].rid = NoCtr
    OBVIOUS
  <2> HIDE DEF l
  <2> QED
    BY <1>t, <2>1, <2>2, LoadIInv DEF sweepVars
<1>2. CASE StopGet(p, id)
  <2>1. /\ proc[p].pc = "idle" /\ Load(p, id, "stop") /\ touched' = touched \cup {id}
        /\ UNCHANGED <<storeVars, daemonVars, stock, logs, gauge>>
        /\ UNCHANGED <<minted, dueAt, deleted, claimed, orphans, late, worldVars, faults>>
        /\ sweepVars' = sweepVars
    BY <1>2 DEF StopGet, At, memVars
  <2> QED
    BY <1>t, <2>1, LoadIInv DEF sweepVars
<1>3. CASE ExecGet(p, id) \/ LogsGet(p, id)
  <2>1. /\ proc[p].pc = "idle" /\ (Load(p, id, "execLog") \/ Load(p, id, "logsLog"))
        /\ touched' = touched
        /\ UNCHANGED <<storeVars, daemonVars, stock, logs, gauge>>
        /\ UNCHANGED <<minted, dueAt, deleted, claimed, orphans, late, worldVars, faults>>
        /\ sweepVars' = sweepVars
    BY <1>3 DEF ExecGet, LogsGet, At, memVars, histVars
  <2> QED
    BY <1>t, <2>1, LoadIInv DEF sweepVars
<1> QED
  BY <1>1, <1>2, <1>3

-----------------------------------------------------------------------------
(* Delete force-removes the container, Stop stops it.                      *)
LEMMA DaemonIInv ==
    ASSUME IInv, NEW p \in Procs, DeleteRemove(p) \/ StopRuntime(p)
    PROVE  IInv'
<1> DEFINE c == proc[p].sb.rid
<1>t. /\ TypeOK /\ Rest /\ proc \in [Procs -> ProcType] /\ proc[p] \in ProcType
      /\ Shape(proc[p]) /\ NoCtr \notin Containers /\ NoId \notin Ids
  BY NoneAssumption DEF IInv, Rest, TypeOK, ProcType, Shapes
<1>u. /\ rows' = rows /\ warmLabel' = warmLabel /\ used' = used /\ stock' = stock
      /\ logs' = logs /\ gauge' = gauge /\ sweepVars' = sweepVars /\ touched' = touched
      /\ deleted' = deleted /\ claimed' = claimed /\ late' = late
      /\ minted' = minted /\ dueAt' = dueAt /\ up' = up /\ now' = now /\ exits' = exits
  BY DEF DeleteRemove, StopRuntime, storeVars, memVars, histVars, worldVars
<1>c. /\ proc[p].pc \in {"remove", "stop"} /\ proc[p].id \in touched /\ proc[p].id \in Ids
      /\ proc[p].pc \notin Resting \cup Creating
  BY <1>t DEF DeleteRemove, StopRuntime, At, Shape, Resting, Creating, TypeOK
<1>q. FaultOK
  BY <1>t, FaultFacts DEF DeleteRemove, StopRuntime
(* What the step does to the daemon and to the operation.                  *)
<1>d. /\ ctr' \in [Containers -> {"none", "running", "exited"}]
      /\ \A d \in Containers : d # c => ctr'[d] = ctr[d]
      /\ c \in Containers /\ ctr[c] = "none" => ctr'[c] = "none"
      /\ orphans \subseteq orphans' /\ orphans' \subseteq Containers
      /\ proc[p].pc = "remove" => c \in Containers /\ (ctr'[c] = "none" \/ c \in orphans')
  <2>1. CASE DeleteRemove(p)
    <3>1. proc[p].pc = "remove" /\ c \in Containers
      BY <1>t, <2>1 DEF DeleteRemove, At, Shape
    <3>2. CASE ctr' = [ctr EXCEPT ![c] = "none"] /\ orphans' = orphans
      BY <1>t, <3>1, <3>2 DEF TypeOK
    <3>3. CASE ctr' = ctr /\ Abandon({c})
      BY <1>t, <3>1, <3>3 DEF TypeOK, Abandon
    <3> QED
      BY <2>1, <3>2, <3>3 DEF DeleteRemove
  <2>2. CASE StopRuntime(p)
    <3>1. proc[p].pc = "stop" /\ orphans' = orphans
      BY <2>2 DEF StopRuntime, At, histVars
    <3>2. CASE ctr' = [ctr EXCEPT ![c] = "exited"] /\ c \in Containers /\ ctr[c] # "none"
      BY <1>t, <3>1, <3>2 DEF TypeOK
    <3>3. CASE ctr' = ctr
      BY <1>t, <3>1, <3>3 DEF TypeOK
    <3> QED
      BY <2>2, <3>2, <3>3 DEF StopRuntime
  <2> QED
    BY <2>1, <2>2
<1>m. /\ proc' \in [Procs -> ProcType] /\ Others(p)
      /\ \/ Frees(p)
         \/ /\ proc'[p].id = proc[p].id /\ proc'[p].sb = proc[p].sb
            /\ \/ proc[p].pc = "remove" /\ proc'[p].pc = "deleteRow"
               \/ proc'[p].pc = "putStopped"
  <2>1. CASE Return(p)
    BY <1>t, <2>1, ReturnFacts
  <2>2. CASE Goto(p, "putStopped")
    BY <1>t, <2>2, GotoFacts DEF Labels
  <2>3. CASE DeleteRemove(p)
    <3>1. proc[p].pc = "remove" /\ Goto(p, "deleteRow")
      BY <2>3 DEF DeleteRemove, At
    <3> QED
      BY <1>t, <3>1, GotoFacts DEF Labels
  <2> QED
    BY <2>1, <2>2, <2>3 DEF StopRuntime
<1>o. \A q \in Procs : q # p => proc'[q] = proc[q]
  BY <1>m DEF Others
<1>p. proc'[p].pc \notin {"put", "dropLog", "remove"}
  BY <1>m DEF Frees, Resting
<1>k. Keeps(p) \/ Frees(p)
  BY <1>c, <1>m DEF Keeps, Resting, Creating
<1>1. Fresh' /\ Known' /\ Bindings' /\ Gone' /\ Expiries' /\ DeletedNeverRuns'
  <2>1. stock' \subseteq stock /\ \A q \in Procs : proc'[q] = proc[q] \/ Keeps(q) \/ Frees(q)
    BY <1>k, <1>o, <1>u
  <2> QED
    BY <1>t, <1>u, <2>1, QuietRows DEF Rest
<1>2. Shapes' /\ PoolSets'
  <2>1. Shape(proc[p])'
    BY <1>c, <1>m, <1>t, <1>u DEF Shape, Resting, Frees
  <2>2. \A q \in Procs : q # p => Shape(proc[q])'
    BY <1>o, <1>t, <1>u DEF Rest, Shapes, Shape
  <2> QED
    BY <1>t, <1>u, <2>1, <2>2 DEF Rest, Shapes, PoolSets
<1>3. ColdSandboxKeepsContainer'
  <2>1. \A a \in Ids \ touched : rows[a].rid \in Containers => rows[a].rid # c
    BY <1>c, <1>t DEF Rest, Bindings
  <2> QED
    BY <1>d, <1>t, <1>u, <2>1 DEF Rest, ColdSandboxKeepsContainer, Running, Known
<1>4. ColdPending'
  <2>1. \A q \in Procs : proc[q].pc = "put" => proc[q].sb.rid \in Containers /\ proc[q].sb.rid # c
    BY <1>c, <1>t DEF Rest, Shapes, Shape, Bindings, Fresh, Creating
  <2> QED
    BY <1>d, <1>o, <1>p, <1>t, <1>u, <2>1 DEF Rest, ColdPending
<1>5. Removed'
  <2>1. \A q \in Procs : proc[q].sb.rid \in Containers \cup {NoCtr}
    BY <1>t DEF ProcType, Sandbox
  <2> SUFFICES ASSUME NEW q \in Procs, proc'[q].pc = "deleteRow", proc'[q].sb.rid # NoCtr
               PROVE  ctr'[proc'[q].sb.rid] = "none" \/ proc'[q].sb.rid \in orphans'
    BY DEF Removed
  <2>2. CASE q = p
    BY <1>d, <1>m, <2>2 DEF Frees, Resting
  <2>3. CASE q # p
    <3>1. proc'[q] = proc[q] /\ proc[q].sb.rid \in Containers
      BY <1>o, <2>1, <2>3
    <3>2. ctr[proc[q].sb.rid] = "none" \/ proc[q].sb.rid \in orphans
      BY <1>t, <3>1 DEF Rest, Removed
    <3> QED
      BY <1>d, <3>1, <3>2
  <2> QED
    BY <2>2, <2>3
<1>6. NoSilentLeak'
  <2>1. InRows' = InRows /\ Pending \subseteq Pending'
    BY <1>c, <1>o, <1>u DEF InRows, Pending
  <2>2. \A d \in Containers : ctr'[d] # "none" => ctr[d] # "none"
    BY <1>d
  <2> QED
    BY <1>d, <1>t, <1>u, <2>1, <2>2 DEF Rest, NoSilentLeak
<1>7. GoneListed' /\ SweptWasDeleted' /\ Due'
  <2>1. GoneListed' /\ SweptWasDeleted'
    BY <1>t, <1>u DEF Rest, GoneListed, SweptWasDeleted, sweepVars
  <2> QED
    BY <1>m, <1>o, <1>t, <1>u, <2>1 DEF Rest, Due, Past, Procs, sweepVars, Frees, Resting
<1>8. LogBuffersAreDropped'
  <2>1. \A q \in Procs : proc'[q] = proc[q] \/ proc[q].pc # "dropLog"
    BY <1>c, <1>o
  <2> QED
    BY <1>t, <1>u, <2>1, QuietLogs DEF Rest
<1>9. TypeOK'
  BY <1>d, <1>m, <1>q, <1>t, <1>u DEF TypeOK, ProcType, sweepVars, FaultOK
<1> QED
  BY <1>1, <1>2, <1>3, <1>4, <1>5, <1>6, <1>7, <1>8, <1>9 DEF IInv, Rest

-----------------------------------------------------------------------------
(* Delete takes the row away, finds that another Delete was faster, or     *)
(* fails.                                                                  *)
LEMMA DeleteRowIInv ==
    ASSUME IInv, NEW p \in Procs, DeleteRow(p)
    PROVE  IInv'
<1> DEFINE id == proc[p].id
<1>t. /\ TypeOK /\ Rest /\ proc \in [Procs -> ProcType] /\ proc[p] \in ProcType
      /\ Shape(proc[p]) /\ NoCtr \notin Containers /\ NoId \notin Ids
  BY NoneAssumption DEF IInv, Rest, TypeOK, ProcType, Shapes
<1>u. /\ ctr' = ctr /\ warmLabel' = warmLabel /\ used' = used /\ stock' = stock
      /\ logs' = logs /\ gauge' = gauge /\ touched' = touched /\ claimed' = claimed
      /\ expired' = expired /\ sweepAt' = sweepAt /\ swept' = swept /\ orphans' = orphans
      /\ minted' = minted /\ dueAt' = dueAt /\ up' = up /\ now' = now /\ exits' = exits
  BY DEF DeleteRow, daemonVars, worldVars
<1>c. /\ proc[p].pc = "deleteRow" /\ id \in Ids /\ id \in minted /\ id \in touched
      /\ rows[id] # NoRow \/ id \in deleted
  BY <1>t DEF DeleteRow, At, Shape, Resting, Creating, TypeOK, Rest, Gone
<1>q. FaultOK
  BY <1>t, FaultFacts DEF DeleteRow
<1>1. CASE /\ rows[id] # NoRow /\ rows' = [rows EXCEPT ![id] = NoRow] /\ Goto(p, "dropLog")
           /\ deleted' = deleted \cup {id} /\ counted' \in {counted, counted \cup {id}}
           /\ late' = [m \in Managers |-> IF m # ManagerOf(p) /\ id \in logs[m]
                                             THEN late[m] \cup {id} ELSE late[m]]
  <2>r. /\ rows' \in [Ids -> Sandbox] /\ rows'[id] = NoRow
        /\ \A a \in Ids : a # id => rows'[a] = rows[a]
        /\ rows'[id].rid = NoCtr /\ rows'[id].state = "absent"
    BY <1>1, <1>c, <1>t, NoRowFacts DEF TypeOK
  <2>m. /\ proc' \in [Procs -> ProcType] /\ Others(p) /\ proc'[p].pc = "dropLog"
        /\ proc'[p].id = proc[p].id /\ proc'[p].sb = proc[p].sb
    BY <1>1, <1>t, GotoFacts DEF Labels
  <2>o. \A q \in Procs : q # p => proc'[q] = proc[q]
    BY <2>m DEF Others
  <2>l. late' \in [Managers -> SUBSET Ids] /\ \A m \in Managers : late[m] \subseteq late'[m]
    BY <1>1, <1>c, <1>t DEF TypeOK
  <2>1. Shapes' /\ PoolSets'
    <3>1. Shape(proc[p])'
      BY <1>c, <1>u, <2>m DEF Shape, Resting
    <3>2. \A q \in Procs : q # p => Shape(proc[q])'
      BY <1>t, <1>u, <2>o DEF Rest, Shapes, Shape
    <3> QED
      BY <1>t, <1>u, <3>1, <3>2 DEF Rest, Shapes, PoolSets
  <2>2. Fresh'
    <3>1. \A q \in Procs : proc[q].pc \in Creating => q # p /\ proc[q].id \in Ids /\ proc[q].id # id
      BY <1>c, <1>t DEF Rest, Fresh, Shapes, Shape, Creating, Resting, TypeOK
    <3>2. \A q \in Procs : proc'[q].id = proc[q].id
      BY <2>m, <2>o
    <3>3. \A q \in Procs : proc'[q].pc \in Creating => proc[q].pc \in Creating
      BY <2>m, <2>o DEF Creating
    <3> QED
      BY <1>1, <1>t, <2>r, <3>1, <3>2, <3>3 DEF Rest, Fresh
  <2>3. Known' /\ DeletedNeverRuns'
    BY <1>1, <1>c, <1>t, <1>u, <2>r DEF Rest, Known, DeletedNeverRuns, Running
  <2>4. Gone'
    BY <1>1, <1>c, <1>t, <2>m, <2>o, <2>r DEF Rest, Gone, TypeOK
  <2>5. Expiries'
    BY <1>c, <1>t, <1>u, <2>m, <2>o, <2>r DEF Rest, Expiries, Resting
  <2>6. Bindings'
    <3>1. \A q \in Procs : proc'[q].id = proc[q].id /\ proc'[q].sb = proc[q].sb
      BY <2>m, <2>o
    <3> QED
      BY <1>t, <1>u, <2>r, <3>1 DEF Rest, Bindings
  <2>7. ColdSandboxKeepsContainer'
    BY <1>t, <1>u, <2>r DEF Rest, ColdSandboxKeepsContainer, Running
  <2>8. ColdPending' /\ Removed'
    BY <1>t, <1>u, <2>m, <2>o DEF Rest, ColdPending, Removed
  <2>9. NoSilentLeak'
    <3>1. rows[id].rid = proc[p].sb.rid
      BY <1>1, <1>c, <1>t DEF Rest, Bindings
    <3>2. rows[id].rid # NoCtr => ctr[rows[id].rid] = "none" \/ rows[id].rid \in orphans
      BY <1>c, <1>t, <3>1 DEF Rest, Removed
    <3>3. InRows \subseteq InRows' \cup {rows[id].rid}
      BY <2>r DEF InRows
    <3>4. Pending \subseteq Pending'
      BY <1>c, <2>o DEF Pending
    <3> QED
      BY <1>t, <1>u, <3>2, <3>3, <3>4 DEF Rest, NoSilentLeak
  <2>10. GoneListed' /\ SweptWasDeleted' /\ Due'
    <3>1. GoneListed' /\ SweptWasDeleted'
      BY <1>1, <1>t, <1>u, <2>r DEF Rest, GoneListed, SweptWasDeleted, TypeOK
    <3> QED
      BY <1>t, <1>u, <2>m, <2>o, <3>1 DEF Rest, Due, Past, Procs
  <2>11. LogBuffersAreDropped'
    <3> SUFFICES ASSUME NEW m \in Managers, NEW a \in logs'[m],
                        ~(rows'[a] # NoRow \/ a \in late'[m])
                 PROVE  \E q \in Procs : /\ ManagerOf(q) = m /\ proc'[q].pc = "dropLog"
                                         /\ proc'[q].id = a
      BY DEF LogBuffersAreDropped
    <3>1. a \in Ids /\ a \in logs[m] /\ a \notin late[m]
      BY <1>t, <1>u, <2>l DEF TypeOK
    <3>2. CASE a = id
      <4>1. m = ManagerOf(p)
        BY <1>1, <3>1, <3>2
      <4> QED
        BY <2>m, <3>2, <4>1
    <3>3. CASE a # id
      <4>1. rows[a] = NoRow
        BY <2>r, <3>1, <3>3
      <4>2. PICK q \in Procs : ManagerOf(q) = m /\ proc[q].pc = "dropLog" /\ proc[q].id = a
        BY <1>t, <3>1, <4>1 DEF Rest, LogBuffersAreDropped
      <4>3. q # p
        BY <1>c, <4>2
      <4> QED
        BY <2>o, <4>2, <4>3
    <3> QED
      BY <3>2, <3>3
  <2>12. TypeOK'
    <3>1. \A a \in Ids : rows'[a].state # "created"
      BY <1>t, <2>r DEF TypeOK
    <3> QED
      BY <1>1, <1>c, <1>q, <1>t, <1>u, <2>l, <2>m, <2>r, <3>1 DEF TypeOK, ProcType, FaultOK
  <2> QED
    BY <2>1, <2>2, <2>3, <2>4, <2>5, <2>6, <2>7, <2>8, <2>9, <2>10, <2>11, <2>12 DEF IInv, Rest
<1>2. CASE /\ rows' = rows /\ Return(p) /\ deleted' = deleted /\ late' = late
           /\ counted' = counted \/ (counted' = counted \cup {id} /\ rows[id] = NoRow)
  <2>m. proc' \in [Procs -> ProcType] /\ Others(p) /\ Frees(p)
    BY <1>2, <1>t, ReturnFacts
  <2>o. \A q \in Procs : q # p => proc'[q] = proc[q]
    BY <2>m DEF Others
  <2>p. proc'[p].pc \notin {"put", "remove", "deleteRow"}
    BY <2>m DEF Frees, Resting
  <2>1. Fresh' /\ Known' /\ Bindings' /\ Gone' /\ Expiries' /\ DeletedNeverRuns'
    <3>1. stock' \subseteq stock /\ \A q \in Procs : proc'[q] = proc[q] \/ Keeps(q) \/ Frees(q)
      BY <1>u, <2>m, <2>o
    <3> QED
      BY <1>2, <1>t, <1>u, <3>1, QuietRows DEF Rest
  <2>2. Shapes' /\ PoolSets'
    <3>1. Shape(proc[p])'
      BY <2>m DEF Frees, Shape, Resting
    <3>2. \A q \in Procs : q # p => Shape(proc[q])'
      BY <1>t, <1>u, <2>o DEF Rest, Shapes, Shape
    <3> QED
      BY <1>t, <1>u, <3>1, <3>2 DEF Rest, Shapes, PoolSets
  <2>3. ColdSandboxKeepsContainer' /\ ColdPending' /\ NoSilentLeak' /\ Removed'
    <3>1. /\ touched \subseteq touched' /\ orphans \subseteq orphans'
          /\ \A q \in Procs : \/ proc'[q] = proc[q]
                              \/ proc[q].pc # "put" /\ proc'[q].pc \notin {"put", "deleteRow"}
      BY <1>c, <1>u, <2>o, <2>p
    <3> QED
      BY <1>2, <1>t, <1>u, <3>1, QuietDaemon DEF Rest
  <2>4. GoneListed' /\ SweptWasDeleted' /\ Due'
    <3>1. GoneListed' /\ SweptWasDeleted'
      BY <1>2, <1>c, <1>t, <1>u DEF Rest, GoneListed, SweptWasDeleted
    <3> QED
      BY <1>t, <1>u, <2>o, <2>p, <3>1 DEF Rest, Due, Past, Procs
  <2>5. LogBuffersAreDropped'
    <3>1. \A q \in Procs : proc'[q] = proc[q] \/ proc[q].pc # "dropLog"
      BY <1>c, <2>o
    <3> QED
      BY <1>2, <1>t, <1>u, <3>1, QuietLogs DEF Rest
  <2>6. TypeOK'
    BY <1>2, <1>c, <1>q, <1>t, <1>u, <2>m DEF TypeOK, ProcType, FaultOK
  <2> QED
    BY <2>1, <2>2, <2>3, <2>4, <2>5, <2>6 DEF IInv, Rest
<1> QED
  BY <1>1, <1>2 DEF DeleteRow

-----------------------------------------------------------------------------
(* A log buffer is dropped, or made on first use.                          *)
LEMMA BuffersIInv ==
    ASSUME IInv, NEW p \in Procs, DropLog(p) \/ LogBufferFor(p)
    PROVE  IInv'
<1> DEFINE id == proc[p].id
<1>t. /\ TypeOK /\ Rest /\ proc \in [Procs -> ProcType] /\ proc[p] \in ProcType
      /\ Shape(proc[p]) /\ NoCtr \notin Containers /\ NoId \notin Ids
  BY NoneAssumption DEF IInv, Rest, TypeOK, ProcType, Shapes
<1>u. /\ rows' = rows /\ ctr' = ctr /\ warmLabel' = warmLabel /\ used' = used /\ stock' = stock
      /\ gauge' = gauge /\ sweepVars' = sweepVars /\ touched' = touched /\ deleted' = deleted
      /\ claimed' = claimed /\ orphans' = orphans /\ minted' = minted /\ dueAt' = dueAt
      /\ up' = up /\ now' = now /\ exits' = exits /\ faults' = faults
  BY DEF DropLog, LogBufferFor, storeVars, daemonVars, histVars, worldVars
<1>c. /\ proc[p].pc \in {"dropLog", "execLog", "logsLog"} /\ id \in Ids
      /\ proc[p].pc \notin Resting \cup Creating /\ ManagerOf(p) \in Managers
  BY <1>t DEF DropLog, LogBufferFor, At, Shape, Resting, Creating, TypeOK, ManagerOf, Managers
<1>m. /\ proc' \in [Procs -> ProcType] /\ Others(p)
      /\ \/ Frees(p)
         \/ /\ proc'[p].id = proc[p].id /\ proc'[p].sb = proc[p].sb
            /\ proc'[p].pc \in {"list", "exec"}
  <2>1. CASE Return(p)
    BY <1>t, <2>1, ReturnFacts
  <2>2. CASE Goto(p, "list") \/ Goto(p, "exec")
    BY <1>t, <2>2, GotoFacts DEF Labels
  <2> QED
    BY <2>1, <2>2 DEF DropLog, LogBufferFor
<1>o. \A q \in Procs : q # p => proc'[q] = proc[q]
  BY <1>m DEF Others
<1>p. proc'[p].pc \notin {"put", "remove", "deleteRow"}
  BY <1>m DEF Frees, Resting
<1>k. Keeps(p) \/ Frees(p)
  BY <1>c, <1>m DEF Keeps, Resting, Creating
<1>1. Fresh' /\ Known' /\ Bindings' /\ Gone' /\ Expiries' /\ DeletedNeverRuns'
  <2>1. stock' \subseteq stock /\ \A q \in Procs : proc'[q] = proc[q] \/ Keeps(q) \/ Frees(q)
    BY <1>k, <1>o, <1>u
  <2> QED
    BY <1>t, <1>u, <2>1, QuietRows DEF Rest
<1>2. Shapes' /\ PoolSets'
  <2>1. Shape(proc[p])'
    BY <1>c, <1>m, <1>t, <1>u DEF Shape, Resting, Frees
  <2>2. \A q \in Procs : q # p => Shape(proc[q])'
    BY <1>o, <1>t, <1>u DEF Rest, Shapes, Shape
  <2> QED
    BY <1>t, <1>u, <2>1, <2>2 DEF Rest, Shapes, PoolSets
<1>3. ColdSandboxKeepsContainer' /\ ColdPending' /\ NoSilentLeak' /\ Removed'
  <2>1. /\ touched \subseteq touched' /\ orphans \subseteq orphans'
        /\ \A q \in Procs : \/ proc'[q] = proc[q]
                            \/ proc[q].pc # "put" /\ proc'[q].pc \notin {"put", "deleteRow"}
    BY <1>c, <1>o, <1>p, <1>u
  <2> QED
    BY <1>t, <1>u, <2>1, QuietDaemon DEF Rest
<1>4. GoneListed' /\ SweptWasDeleted' /\ Due'
  <2>1. GoneListed' /\ SweptWasDeleted'
    BY <1>t, <1>u DEF Rest, GoneListed, SweptWasDeleted, sweepVars
  <2> QED
    BY <1>o, <1>p, <1>t, <1>u, <2>1 DEF Rest, Due, Past, Procs, sweepVars
<1>5. logs' \in [Managers -> SUBSET Ids] /\ late' \in [Managers -> SUBSET Ids] /\ LogBuffersAreDropped'
  <2>1. CASE DropLog(p)
    <3>1. logs' = [logs EXCEPT ![ManagerOf(p)] = @ \ {id}] /\ late' = late
      BY <2>1 DEF DropLog, histVars
    <3>2. logs' \in [Managers -> SUBSET Ids] /\ late' \in [Managers -> SUBSET Ids]
      BY <1>c, <1>t, <3>1 DEF TypeOK
    <3> SUFFICES ASSUME NEW m \in Managers, NEW a \in logs'[m], rows'[a] = NoRow, a \notin late'[m]
                 PROVE  \E q \in Procs : /\ ManagerOf(q) = m /\ proc'[q].pc = "dropLog"
                                         /\ proc'[q].id = a
      BY <3>2 DEF LogBuffersAreDropped
    <3>3. a \in logs[m] /\ ~(m = ManagerOf(p) /\ a = id)
      BY <1>c, <1>t, <3>1 DEF TypeOK
    <3>4. PICK q \in Procs : ManagerOf(q) = m /\ proc[q].pc = "dropLog" /\ proc[q].id = a
      BY <1>t, <1>u, <3>1, <3>3 DEF Rest, LogBuffersAreDropped
    <3>5. q # p
      BY <3>3, <3>4
    <3> QED
      BY <1>o, <3>4, <3>5
  <2>2. CASE LogBufferFor(p)
    <3>1. /\ logs' = [logs EXCEPT ![ManagerOf(p)] = @ \cup {id}]
          /\ late' = IF rows[id] # NoRow THEN late ELSE [late EXCEPT ![ManagerOf(p)] = @ \cup {id}]
          /\ proc[p].pc # "dropLog"
      BY <2>2 DEF LogBufferFor, At
    <3>2. /\ logs' \in [Managers -> SUBSET Ids] /\ late' \in [Managers -> SUBSET Ids]
          /\ \A m \in Managers : late[m] \subseteq late'[m]
      BY <1>c, <1>t, <3>1 DEF TypeOK
    <3> SUFFICES ASSUME NEW m \in Managers, NEW a \in logs'[m], rows'[a] = NoRow, a \notin late'[m]
                 PROVE  \E q \in Procs : /\ ManagerOf(q) = m /\ proc'[q].pc = "dropLog"
                                         /\ proc'[q].id = a
      BY <3>2 DEF LogBuffersAreDropped
    <3>3. a \in logs[m] /\ a \notin late[m]
      BY <1>c, <1>t, <1>u, <3>1, <3>2 DEF TypeOK
    <3>4. PICK q \in Procs : ManagerOf(q) = m /\ proc[q].pc = "dropLog" /\ proc[q].id = a
      BY <1>t, <1>u, <3>3 DEF Rest, LogBuffersAreDropped
    <3>5. q # p
      BY <3>1, <3>4
    <3> QED
      BY <1>o, <3>4, <3>5
  <2> QED
    BY <2>1, <2>2
<1>6. TypeOK'
  BY <1>5, <1>m, <1>t, <1>u DEF TypeOK, ProcType, sweepVars
<1> QED
  BY <1>1, <1>2, <1>3, <1>4, <1>5, <1>6 DEF IInv, Rest

-----------------------------------------------------------------------------
(* The reaper between two rows: only its lists change.                     *)
LEMMA SweepIInv ==
    ASSUME IInv, proc' \in [Procs -> ProcType], Others(Reaper), Frees(Reaper),
           proc[Reaper].pc \in Resting, expired' \subseteq Ids, counted' \subseteq Ids,
           swept' \subseteq Ids, sweepAt' \in Nat, sweepAt' <= now,
           \A id \in expired' : Past(id), GoneListed', SweptWasDeleted', FaultOK,
           UNCHANGED <<storeVars, daemonVars, stock, logs, gauge, histVars, worldVars>>
    PROVE  IInv'
<1>t. /\ TypeOK /\ Rest /\ proc \in [Procs -> ProcType] /\ Reaper \in Procs
      /\ NoCtr \notin Containers /\ NoId \notin Ids
  BY NoneAssumption DEF IInv, Rest, TypeOK, ProcType, Procs
<1>u. /\ rows' = rows /\ ctr' = ctr /\ warmLabel' = warmLabel /\ used' = used /\ stock' = stock
      /\ logs' = logs /\ gauge' = gauge /\ touched' = touched /\ deleted' = deleted
      /\ claimed' = claimed /\ orphans' = orphans /\ late' = late /\ minted' = minted
      /\ dueAt' = dueAt /\ up' = up /\ now' = now /\ exits' = exits
  BY DEF storeVars, daemonVars, histVars, worldVars
<1>o. \A q \in Procs : q # Reaper => proc'[q] = proc[q]
  BY DEF Others
<1>p. /\ proc'[Reaper].pc \notin {"put", "remove", "deleteRow"}
      /\ proc[Reaper].pc \notin {"put", "dropLog"}
  BY DEF Frees, Resting
<1>1. Fresh' /\ Known' /\ Bindings' /\ Gone' /\ Expiries' /\ DeletedNeverRuns'
  <2>1. stock' \subseteq stock /\ \A q \in Procs : proc'[q] = proc[q] \/ Keeps(q) \/ Frees(q)
    BY <1>o, <1>u
  <2> QED
    BY <1>t, <1>u, <2>1, QuietRows DEF Rest
<1>2. Shapes' /\ PoolSets'
  <2>1. Shape(proc[Reaper])'
    BY DEF Shape, Resting, Frees
  <2>2. \A q \in Procs : q # Reaper => Shape(proc[q])'
    BY <1>o, <1>t, <1>u DEF Rest, Shapes, Shape
  <2> QED
    BY <1>t, <1>u, <2>1, <2>2 DEF Rest, Shapes, PoolSets
<1>3. ColdSandboxKeepsContainer' /\ ColdPending' /\ NoSilentLeak' /\ Removed'
  <2>1. /\ touched \subseteq touched' /\ orphans \subseteq orphans'
        /\ \A q \in Procs : \/ proc'[q] = proc[q]
                            \/ proc[q].pc # "put" /\ proc'[q].pc \notin {"put", "deleteRow"}
    BY <1>o, <1>p, <1>u
  <2> QED
    BY <1>t, <1>u, <2>1, QuietDaemon DEF Rest
<1>4. Due'
  BY <1>p, <1>u DEF Due, Past
<1>5. LogBuffersAreDropped'
  <2>1. \A q \in Procs : proc'[q] = proc[q] \/ proc[q].pc # "dropLog"
    BY <1>o, <1>p
  <2> QED
    BY <1>t, <1>u, <2>1, QuietLogs DEF Rest
<1>6. TypeOK'
  BY <1>t, <1>u DEF TypeOK, ProcType, FaultOK
<1> QED
  BY <1>1, <1>2, <1>3, <1>4, <1>5, <1>6 DEF IInv, Rest

(* What the query returns is past its expiry: both times are cut to whole  *)
(* seconds, and the comparison is strict.                                  *)
LEMMA ExpiredBeforeIsPast ==
    ASSUME IInv, NEW id \in ExpiredBefore(sweepAt)
    PROVE  id \in Ids /\ Past(id) /\ rows[id] # NoRow
<1>1. /\ id \in Ids /\ rows[id].expires # Never /\ rows[id].expires < Unix(sweepAt)
      /\ rows[id] # NoRow
  BY NoRowFacts DEF ExpiredBefore
<1>2. rows[id].expires = Stored(dueAt[id])
  BY <1>1 DEF IInv, Rest, Expiries
<1>3. dueAt[id] \in Nat /\ dueAt[id] # Never /\ rows[id].expires = dueAt[id] \div 2
  BY <1>1, <1>2 DEF Stored, Unix, IInv, TypeOK
<1>4. sweepAt \in Nat /\ now \in Nat /\ sweepAt <= now
  BY DEF IInv, TypeOK, Rest, Due
<1>5. dueAt[id] < sweepAt
  BY <1>1, <1>3, <1>4 DEF Unix
<1> QED
  BY <1>1, <1>3, <1>4, <1>5 DEF Past

LEMMA ReaperIInv ==
    ASSUME IInv, ReaperTick \/ ReaperQuery \/ ReaperNext
    PROVE  IInv'
<1>t. /\ TypeOK /\ Rest /\ proc \in [Procs -> ProcType] /\ Reaper \in Procs
      /\ proc[Reaper] \in ProcType /\ Shape(proc[Reaper]) /\ now \in Nat
  BY DEF IInv, Rest, TypeOK, ProcType, Procs, Shapes
<1>c. /\ proc[Reaper].pc \in {"idle", "query", "next"} /\ proc[Reaper].pc \in Resting
      /\ proc[Reaper].id = NoId /\ proc[Reaper].sb = NoRow
  BY <1>t DEF ReaperTick, ReaperQuery, ReaperNext, At, Shape, Resting
<1>g. ASSUME NEW l \in Resting, Goto(Reaper, l)
      PROVE  proc' \in [Procs -> ProcType] /\ Others(Reaper) /\ Frees(Reaper)
  <2>1. l \in Labels
    BY DEF Resting, Labels
  <2> QED
    BY <1>c, <1>g, <1>t, <2>1, GotoFacts DEF Frees
<1>1. CASE ReaperTick
  <2>1. /\ sweepAt' = now /\ Goto(Reaper, "query") /\ expired' = expired /\ counted' = counted
        /\ swept' = swept /\ faults' = faults /\ "query" \in Resting
        /\ UNCHANGED <<storeVars, daemonVars, stock, logs, gauge, histVars, worldVars>>
    BY <1>1 DEF ReaperTick, Resting
  <2>2. proc' \in [Procs -> ProcType] /\ Others(Reaper) /\ Frees(Reaper)
    BY <1>g, <2>1
  <2>3. /\ GoneListed' /\ SweptWasDeleted' /\ FaultOK /\ \A id \in expired' : Past(id)
    BY <1>t, <2>1 DEF Rest, GoneListed, SweptWasDeleted, FaultOK, TypeOK, Due, storeVars, histVars
  <2>4. /\ expired' \subseteq Ids /\ counted' \subseteq Ids /\ swept' \subseteq Ids
        /\ sweepAt' \in Nat /\ sweepAt' <= now
    BY <1>t, <2>1 DEF TypeOK
  <2> QED
    BY <1>c, <2>1, <2>2, <2>3, <2>4, SweepIInv
<1>2. CASE ReaperQuery
  <2>1. /\ expired' = ExpiredBefore(sweepAt) \/ expired' = {}
        /\ Goto(Reaper, "next") /\ sweepAt' = sweepAt /\ counted' = counted
        /\ swept' = swept /\ "next" \in Resting
        /\ UNCHANGED <<storeVars, daemonVars, stock, logs, gauge, histVars, worldVars>>
    BY <1>2 DEF ReaperQuery, Resting
  <2>2. proc' \in [Procs -> ProcType] /\ Others(Reaper) /\ Frees(Reaper)
    BY <1>g, <2>1
  <2>3. \A id \in expired' : id \in Ids /\ Past(id) /\ rows[id] # NoRow
    BY <2>1, ExpiredBeforeIsPast
  <2>4. FaultOK
    BY <1>2, <1>t, FaultFacts DEF ReaperQuery
  <2>5. GoneListed' /\ SweptWasDeleted'
    BY <1>t, <2>1, <2>3 DEF Rest, GoneListed, SweptWasDeleted, storeVars, histVars
  <2>6. /\ expired' \subseteq Ids /\ counted' \subseteq Ids /\ swept' \subseteq Ids
        /\ sweepAt' \in Nat /\ sweepAt' <= now
    BY <1>t, <2>1, <2>3 DEF TypeOK, Rest, Due
  <2> QED
    BY <1>c, <2>1, <2>2, <2>3, <2>4, <2>5, <2>6, SweepIInv
<1>3. CASE ReaperNext
  <2>1. ASSUME NEW id \in expired, expired' = expired \ {id}, sweepAt' = sweepAt, swept' = swept,
               DeleteGet(Reaper, id), counted' = counted, UNCHANGED <<stock, logs, gauge>>
        PROVE  IInv'
    <3> DEFINE l == IF rows[id].rid # NoCtr THEN "remove" ELSE "deleteRow"
    <3>1. /\ Load(Reaper, id, l) /\ touched' = touched \cup {id}
          /\ UNCHANGED <<storeVars, daemonVars, stock, logs, gauge>>
          /\ UNCHANGED <<minted, dueAt, deleted, claimed, orphans, late, worldVars, faults>>
      BY <2>1 DEF DeleteGet
    <3>2. /\ l \in {"remove", "deleteRow", "stop", "execLog", "logsLog"}
          /\ l = "remove" => rows[id].rid # NoCtr
          /\ l = "deleteRow" => rows[id].rid = NoCtr
      OBVIOUS
    <3> HIDE DEF l
    <3>3. id \in Ids /\ expired' \subseteq expired /\ proc[Reaper].pc \in {"idle", "next"}
      BY <1>3, <1>t, <2>1 DEF TypeOK, ReaperNext, At
    <3> QED
      BY <1>t, <2>1, <3>1, <3>2, <3>3, LoadIInv
  <2>2. ASSUME NEW id \in expired, expired' = expired \ {id}, sweepAt' = sweepAt, swept' = swept,
               \/ rows[id] = NoRow /\ Works /\ counted' = counted \cup {id}
               \/ Fails /\ counted' = counted,
               UNCHANGED <<storeVars, daemonVars, proc, histVars, worldVars>>,
               UNCHANGED <<stock, logs, gauge>>
        PROVE  IInv'
    <3>1. proc' \in [Procs -> ProcType] /\ Others(Reaper) /\ Frees(Reaper)
      BY <1>c, <1>t, <2>2 DEF Others, Frees
    <3>2. FaultOK
      BY <1>t, <2>2, FaultFacts
    <3>3. GoneListed' /\ SweptWasDeleted' /\ \A a \in expired' : Past(a)
      BY <1>t, <2>2 DEF Rest, GoneListed, SweptWasDeleted, Due, storeVars, histVars
    <3>4. /\ expired' \subseteq Ids /\ counted' \subseteq Ids /\ swept' \subseteq Ids
          /\ sweepAt' \in Nat /\ sweepAt' <= now
      BY <1>t, <2>2 DEF TypeOK, Rest, Due
    <3>5. UNCHANGED <<storeVars, daemonVars, stock, logs, gauge, histVars, worldVars>>
      BY <2>2
    <3> QED
      BY <1>c, <3>1, <3>2, <3>3, <3>4, <3>5, SweepIInv
  <2>3. ASSUME sweepAt' = 0, swept' = swept \cup counted, counted' = {}, Goto(Reaper, "idle"),
               UNCHANGED <<storeVars, daemonVars, expired, histVars, worldVars, faults>>,
               UNCHANGED <<stock, logs, gauge>>
        PROVE  IInv'
    <3>1. proc' \in [Procs -> ProcType] /\ Others(Reaper) /\ Frees(Reaper)
      BY <1>g, <2>3 DEF Resting
    <3>2. FaultOK
      BY <1>t, <2>3 DEF FaultOK, TypeOK
    <3>3. GoneListed' /\ SweptWasDeleted' /\ \A a \in expired' : Past(a)
      BY <1>t, <2>3 DEF Rest, GoneListed, SweptWasDeleted, Due, storeVars, histVars
    <3>4. /\ expired' \subseteq Ids /\ counted' \subseteq Ids /\ swept' \subseteq Ids
          /\ sweepAt' \in Nat /\ sweepAt' <= now
      BY <1>t, <2>3 DEF TypeOK, Rest, Due
    <3>5. UNCHANGED <<storeVars, daemonVars, stock, logs, gauge, histVars, worldVars>>
      BY <2>3
    <3> QED
      BY <1>c, <3>1, <3>2, <3>3, <3>4, <3>5, SweepIInv
  <2> QED
    BY <1>3, <2>1, <2>2, <2>3 DEF ReaperNext
<1> QED
  BY <1>1, <1>2, <1>3

-----------------------------------------------------------------------------
(* The pool warms a container that nobody has seen.                        *)
LEMMA PoolSpawnIInv ==
    ASSUME IInv, NEW c \in Containers, PoolSpawn(c)
    PROVE  IInv'
<1>t. /\ TypeOK /\ Rest /\ proc \in [Procs -> ProcType] /\ NoCtr \notin Containers
      /\ NoId \notin Ids
  BY NoneAssumption DEF IInv, Rest, TypeOK, ProcType
<1>u. /\ rows' = rows /\ logs' = logs /\ gauge' = gauge /\ sweepVars' = sweepVars
      /\ touched' = touched /\ deleted' = deleted /\ claimed' = claimed /\ orphans' = orphans
      /\ late' = late /\ minted' = minted /\ dueAt' = dueAt /\ up' = up /\ now' = now
      /\ exits' = exits /\ faults' = faults /\ proc' = proc
      /\ c \notin used /\ used' = used \cup {c} /\ stock' = stock \cup {c}
      /\ ctr' = [ctr EXCEPT ![c] = "running"] /\ warmLabel' = warmLabel \cup {c}
  BY DEF PoolSpawn, Pool!Stock, storeVars
<1>n. /\ \A a \in Ids : rows[a].rid # c
      /\ \A q \in Procs : proc[q].sb.rid # c
  BY <1>t, <1>u DEF Rest, Bindings
<1>1. Shapes' /\ Fresh' /\ Known' /\ Gone' /\ Expiries' /\ DeletedNeverRuns'
  BY <1>t, <1>u DEF Rest, Shapes, Shape, Fresh, Known, Gone, Expiries, DeletedNeverRuns, Running
<1>2. Bindings' /\ PoolSets'
  BY <1>n, <1>t, <1>u DEF Rest, Bindings, PoolSets
<1>3. ColdSandboxKeepsContainer'
  BY <1>n, <1>t, <1>u DEF Rest, ColdSandboxKeepsContainer, Running, Known, TypeOK
<1>4. ColdPending' /\ Removed'
  <2>1. \A q \in Procs : proc[q].sb.rid \in Containers \cup {NoCtr}
    BY <1>t DEF ProcType, Sandbox
  <2>2. \A q \in Procs : proc[q].pc = "put" => proc[q].sb.rid \in Containers
    BY <1>t DEF Rest, Shapes, Shape
  <2> QED
    BY <1>n, <1>t, <1>u, <2>1, <2>2 DEF Rest, ColdPending, Removed, TypeOK
<1>5. NoSilentLeak'
  <2>1. InRows' = InRows /\ Pending' = Pending /\ c \notin claimed
    BY <1>t, <1>u DEF InRows, Pending, Rest, PoolSets
  <2> QED
    BY <1>t, <1>u, <2>1 DEF Rest, NoSilentLeak, TypeOK
<1>6. GoneListed' /\ SweptWasDeleted' /\ Due' /\ LogBuffersAreDropped'
  BY <1>t, <1>u DEF Rest, GoneListed, SweptWasDeleted, Due, Past, LogBuffersAreDropped, sweepVars
<1>7. TypeOK'
  BY <1>t, <1>u DEF TypeOK, sweepVars
<1> QED
  BY <1>1, <1>2, <1>3, <1>4, <1>5, <1>6, <1>7 DEF IInv, Rest

-----------------------------------------------------------------------------
(* Containers of the pool are removed: it holds no cold sandbox's.         *)
LEMMA RemainingFacts ==
    ASSUME IInv, NEW gone \in SUBSET warmLabel, ctr' = Remaining(gone),
           rows' = rows, warmLabel' = warmLabel, claimed' = claimed, touched' = touched,
           orphans \subseteq orphans', Pending \subseteq Pending' \cup orphans',
           \A q \in Procs : proc'[q] = proc[q] \/ Frees(q)
    PROVE  /\ ctr' \in [Containers -> {"none", "running", "exited"}]
           /\ ColdSandboxKeepsContainer' /\ ColdPending' /\ NoSilentLeak' /\ Removed'
<1>t. TypeOK /\ Rest /\ proc \in [Procs -> ProcType]
  BY DEF IInv, TypeOK, ProcType
<1>1. /\ ctr' \in [Containers -> {"none", "running", "exited"}]
      /\ \A c \in Containers : ctr'[c] = ctr[c] \/ (ctr'[c] = "none" /\ c \in warmLabel)
  BY <1>t DEF Remaining, TypeOK
<1>f. \A q \in Procs : proc'[q].pc \in {"put", "deleteRow"} => proc'[q] = proc[q]
  BY DEF Frees, Resting
<1>2. ColdSandboxKeepsContainer'
  BY <1>1, <1>t DEF Rest, ColdSandboxKeepsContainer, Running, Known
<1>3. ColdPending'
  BY <1>1, <1>f, <1>t DEF Rest, ColdPending, Shapes, Shape
<1>4. Removed'
  <2>1. \A q \in Procs : proc[q].sb.rid \in Containers \cup {NoCtr}
    BY <1>t DEF ProcType, Sandbox
  <2> QED
    BY <1>1, <1>f, <1>t, <2>1 DEF Rest, Removed
<1>5. NoSilentLeak'
  <2>1. InRows' = InRows
    BY DEF InRows
  <2> QED
    BY <1>1, <1>t, <2>1 DEF Rest, NoSilentLeak
<1> QED
  BY <1>1, <1>2, <1>3, <1>4, <1>5

(* Where requests end, the containers without a row are counted as lost.   *)
LEMMA EndFacts ==
    ASSUME IInv, NEW ps \in SUBSET Procs, End(ps)
    PROVE  /\ proc' \in [Procs -> ProcType] /\ exits' \in 0..MaxExits
           /\ \A q \in Procs : q \in ps => Frees(q) /\ proc'[q].pc = "idle"
           /\ \A q \in Procs : q \notin ps => proc'[q] = proc[q]
           /\ orphans \subseteq orphans' /\ orphans' \subseteq Containers
           /\ Pending \subseteq Pending' \cup orphans'
<1>t. TypeOK /\ Rest /\ proc \in [Procs -> ProcType]
  BY DEF IInv, TypeOK, ProcType
<1>1. /\ proc' = [q \in Procs |-> IF q \in ps THEN Idle ELSE proc[q]]
      /\ orphans' = orphans \cup {proc[q].sb.rid : q \in {o \in ps : proc[o].pc = "put"}}
      /\ exits < MaxExits /\ exits' = exits + 1
  BY DEF End, Abandon
<1>2. /\ proc' \in [Procs -> ProcType] /\ \A q \in Procs : q \notin ps => proc'[q] = proc[q]
      /\ \A q \in Procs : q \in ps => Frees(q) /\ proc'[q].pc = "idle"
  BY <1>1, <1>t, NoRowFacts DEF Frees, Resting
<1>3. exits' \in 0..MaxExits
  BY <1>1, <1>t, BoundAssumption DEF TypeOK
<1>4. orphans \subseteq orphans' /\ orphans' \subseteq Containers
  BY <1>1, <1>t DEF TypeOK, Rest, Shapes, Shape
<1>5. Pending \subseteq Pending' \cup orphans'
  BY <1>1, <1>2 DEF Pending
<1> QED
  BY <1>2, <1>3, <1>4, <1>5

(* An exit of kpd or of kpmcp, and the start of the next kpd.              *)
LEMMA ExitIInv ==
    ASSUME IInv, Exit \/ McpExit \/ Restart
    PROVE  IInv'
<1>t. /\ TypeOK /\ Rest /\ proc \in [Procs -> ProcType] /\ Reaper \in Procs /\ Reaper \notin Mcp
      /\ Mcp \subseteq Procs
  BY NoneAssumption DEF IInv, Rest, TypeOK, ProcType, Procs
<1>u. /\ rows' = rows /\ warmLabel' = warmLabel /\ used' = used /\ touched' = touched
      /\ deleted' = deleted /\ claimed' = claimed /\ late' = late /\ minted' = minted
      /\ dueAt' = dueAt /\ now' = now /\ swept' = swept
  BY DEF Exit, McpExit, Restart, storeVars, daemonVars, memVars, sweepVars, histVars
(* What ends, what is removed, and what each process has in memory.        *)
<1>m. /\ proc' \in [Procs -> ProcType] /\ exits' \in 0..MaxExits
      /\ \A q \in Procs : proc'[q] = proc[q] \/ (Frees(q) /\ proc'[q].pc = "idle")
      /\ orphans \subseteq orphans' /\ orphans' \subseteq Containers
      /\ Pending \subseteq Pending' \cup orphans'
  <2>1. CASE Exit
    <3>1. Procs \ Mcp \in SUBSET Procs /\ End(Procs \ Mcp)
      BY <2>1 DEF Exit
    <3>2. /\ proc' \in [Procs -> ProcType] /\ exits' \in 0..MaxExits
          /\ \A q \in Procs : q \in Procs \ Mcp => Frees(q) /\ proc'[q].pc = "idle"
          /\ \A q \in Procs : q \notin Procs \ Mcp => proc'[q] = proc[q]
          /\ orphans \subseteq orphans' /\ orphans' \subseteq Containers
          /\ Pending \subseteq Pending' \cup orphans'
      BY <3>1, EndFacts
    <3> QED
      BY <3>2
  <2>2. CASE McpExit
    <3>1. Mcp \in SUBSET Procs /\ End(Mcp)
      BY <1>t, <2>2 DEF McpExit
    <3>2. /\ proc' \in [Procs -> ProcType] /\ exits' \in 0..MaxExits
          /\ \A q \in Procs : q \in Mcp => Frees(q) /\ proc'[q].pc = "idle"
          /\ \A q \in Procs : q \notin Mcp => proc'[q] = proc[q]
          /\ orphans \subseteq orphans' /\ orphans' \subseteq Containers
          /\ Pending \subseteq Pending' \cup orphans'
      BY <3>1, EndFacts
    <3> QED
      BY <3>2
  <2>3. CASE Restart
    BY <1>t, <2>3 DEF Restart, histVars, TypeOK, Pending
  <2> QED
    BY <2>1, <2>2, <2>3
<1>d. \E gone \in SUBSET warmLabel : ctr' = Remaining(gone)
  <2>1. CASE Exit
    BY <1>t, <2>1 DEF Exit, Rest, PoolSets
  <2>2. CASE McpExit
    <3>1. ctr' = Remaining({})
      BY <1>t, <2>2 DEF McpExit, daemonVars, Remaining, TypeOK
    <3> QED
      BY <3>1
  <2>3. CASE Restart
    BY <2>3 DEF Restart, CleanPoolOrphans
  <2> QED
    BY <2>1, <2>2, <2>3
<1>s. /\ stock' \subseteq stock /\ expired' \subseteq expired /\ counted' \subseteq counted
      /\ sweepAt' \in {0, sweepAt} /\ gauge' \in {0, gauge} /\ up' \in BOOLEAN /\ FaultOK
  <2>1. CASE Exit \/ McpExit
    BY <1>t, <2>1 DEF Exit, McpExit, sweepVars, TypeOK, FaultOK
  <2>2. CASE Restart
    BY <1>t, <2>2, FaultFacts DEF Restart, CleanPoolOrphans, memVars, sweepVars
  <2> QED
    BY <2>1, <2>2
<1>1. Fresh' /\ Known' /\ Bindings' /\ Gone' /\ Expiries' /\ DeletedNeverRuns'
  BY <1>m, <1>s, <1>t, <1>u, QuietRows DEF Rest
<1>2. Shapes' /\ PoolSets'
  <2>1. \A q \in Procs : Shape(proc[q])'
    BY <1>m, <1>t, <1>u DEF Rest, Shapes, Shape, Resting, Frees
  <2> QED
    BY <1>s, <1>t, <1>u, <2>1 DEF Rest, Shapes, PoolSets
<1>3. /\ ctr' \in [Containers -> {"none", "running", "exited"}]
      /\ ColdSandboxKeepsContainer' /\ ColdPending' /\ NoSilentLeak' /\ Removed'
  BY <1>d, <1>m, <1>u, RemainingFacts
<1>4. GoneListed' /\ SweptWasDeleted' /\ Due'
  <2>1. GoneListed' /\ SweptWasDeleted'
    BY <1>s, <1>t, <1>u DEF Rest, GoneListed, SweptWasDeleted
  <2>2. sweepAt' <= now
    BY <1>s, <1>t DEF Rest, Due, TypeOK
  <2> QED
    BY <1>m, <1>s, <1>t, <1>u, <2>1, <2>2 DEF Rest, Due, Past
<1>5. logs' \in [Managers -> SUBSET Ids] /\ LogBuffersAreDropped'
  <2>1. /\ logs' \in [Managers -> SUBSET Ids]
        /\ \A m \in Managers, a \in Ids : a \in logs'[m] =>
              /\ a \in logs[m]
              /\ \A q \in Procs : ManagerOf(q) = m => proc'[q] = proc[q]
    <3>1. CASE Exit
      <4>1. logs' = [logs EXCEPT !["kpd"] = {}] /\ \A q \in Procs : q \in Mcp => proc'[q] = proc[q]
        BY <3>1 DEF Exit, End
      <4> QED
        BY <1>t, <4>1 DEF TypeOK, Managers, ManagerOf
    <3>2. CASE McpExit
      <4>1. logs' = [logs EXCEPT !["kpmcp"] = {}] /\ \A q \in Procs : q \notin Mcp => proc'[q] = proc[q]
        BY <3>2 DEF McpExit, End
      <4> QED
        BY <1>t, <4>1 DEF TypeOK, Managers, ManagerOf
    <3>3. CASE Restart
      BY <1>t, <3>3 DEF Restart, memVars, TypeOK
    <3> QED
      BY <3>1, <3>2, <3>3
  <2> QED
    BY <1>t, <1>u, <2>1 DEF Rest, LogBuffersAreDropped
<1>6. TypeOK'
  BY <1>3, <1>5, <1>m, <1>s, <1>t, <1>u DEF TypeOK, ProcType, FaultOK
<1> QED
  BY <1>1, <1>2, <1>3, <1>4, <1>5, <1>6 DEF IInv, Rest

(* Time passes: what is past its expiry stays so.                          *)
LEMMA TickIInv ==
    ASSUME IInv, Tick
    PROVE  IInv'
<1>t. TypeOK /\ Rest
  BY DEF IInv
<1>u. /\ rows' = rows /\ ctr' = ctr /\ warmLabel' = warmLabel /\ used' = used /\ stock' = stock
      /\ logs' = logs /\ gauge' = gauge /\ sweepVars' = sweepVars /\ touched' = touched
      /\ deleted' = deleted /\ claimed' = claimed /\ orphans' = orphans /\ late' = late
      /\ minted' = minted /\ dueAt' = dueAt /\ up' = up /\ exits' = exits /\ faults' = faults
      /\ proc' = proc /\ now' = now + 1 /\ now < MaxTime
  BY DEF Tick, storeVars, daemonVars, memVars, histVars
<1>1. Shapes' /\ Fresh' /\ Known' /\ Bindings' /\ Gone' /\ Expiries' /\ DeletedNeverRuns' /\ PoolSets'
  BY <1>t, <1>u DEF Rest, Shapes, Shape, Fresh, Known, Bindings, Gone, Expiries, DeletedNeverRuns,
                    Running, PoolSets
<1>2. ColdSandboxKeepsContainer' /\ ColdPending' /\ NoSilentLeak' /\ Removed'
  BY <1>t, <1>u DEF Rest, ColdSandboxKeepsContainer, Running, ColdPending, NoSilentLeak, InRows,
                    Pending, Removed
<1>3. GoneListed' /\ SweptWasDeleted' /\ LogBuffersAreDropped'
  BY <1>t, <1>u DEF Rest, GoneListed, SweptWasDeleted, LogBuffersAreDropped, sweepVars
<1>4. Due'
  <2>1. now \in Nat /\ sweepAt \in Nat
    BY <1>t DEF TypeOK
  <2>2. \A a \in Ids : Past(a) => Past(a)'
    BY <1>t, <1>u, <2>1 DEF Past, TypeOK, Never
  <2>3. expired \subseteq Ids /\ (proc[Reaper].pc \in {"remove", "deleteRow"} => proc[Reaper].id \in Ids)
    BY <1>t DEF TypeOK, Rest, Shapes, Shape, Resting, Procs
  <2> QED
    BY <1>t, <1>u, <2>1, <2>2, <2>3 DEF Rest, Due, sweepVars
<1>5. TypeOK'
  BY <1>t, <1>u, BoundAssumption DEF TypeOK, sweepVars
<1> QED
  BY <1>1, <1>2, <1>3, <1>4, <1>5 DEF IInv, Rest

-----------------------------------------------------------------------------
LEMMA NextIInv == IInv /\ [Next]_vars => IInv'
<1> SUFFICES ASSUME IInv, [Next]_vars PROVE IInv'
  OBVIOUS
<1>c. ASSUME NEW p \in Procs, Continue(p) PROVE IInv'
  <2>1. CASE \E c \in Containers : CreateRuntime(p, c)
    BY <2>1, CreateRuntimeIInv
  <2>2. CASE CreateRuntimeFails(p) \/ RefreshList(p) \/ RefreshSet(p) \/ ExecRuntime(p)
    BY <2>2, CountingIInv
  <2>3. CASE CreatePutError(p) \/ CreatePut(p) \/ StopPut(p)
    BY <2>3, PutIInv
  <2>4. CASE DeleteRemove(p) \/ StopRuntime(p)
    BY <2>4, DaemonIInv
  <2>5. CASE DeleteRow(p)
    BY <2>5, DeleteRowIInv
  <2>6. CASE DropLog(p) \/ LogBufferFor(p)
    BY <2>6, BuffersIInv
  <2> QED
    BY <1>c, <2>1, <2>2, <2>3, <2>4, <2>5, <2>6 DEF Continue
<1>1. ASSUME NEW p \in Workers, Call(p) PROVE IInv'
  <2>1. PICK id \in Ids :
           \/ \E ttl \in TTLs, c \in Containers : CreateClaims(p, id, ttl, c)
           \/ LogsGet(p, id)
           \/ Tool(p, id)
    BY <1>1 DEF Call
  <2>2. CASE \E ttl \in TTLs, c \in Containers : CreateClaims(p, id, ttl, c)
    BY <2>2, CreateClaimsIInv
  <2>3. CASE \E ttl \in TTLs : CreateMisses(p, id, ttl)
    BY <2>3, CreateMissesIInv
  <2>4. CASE DeleteCall(p, id) \/ StopGet(p, id) \/ ExecGet(p, id) \/ LogsGet(p, id)
    BY <2>4, CallsIInv
  <2> QED
    BY <2>1, <2>2, <2>3, <2>4 DEF Tool
<1>2. ASSUME NEW p \in Workers, Continue(p) PROVE IInv'
  BY <1>2, <1>c DEF Procs
<1>3. CASE ReaperStep
  <2>1. Reaper \in Procs
    BY DEF Procs
  <2> QED
    BY <1>3, <1>c, <2>1, ReaperIInv DEF ReaperStep
<1>4. CASE \E c \in Containers : PoolSpawn(c)
  BY <1>4, PoolSpawnIInv
<1>5. CASE Exit \/ McpExit \/ Restart
  BY <1>5, ExitIInv
<1>6. CASE Tick
  BY <1>6, TickIInv
<1>7. CASE UNCHANGED vars
  <2>u. /\ rows' = rows /\ ctr' = ctr /\ warmLabel' = warmLabel /\ used' = used /\ stock' = stock
        /\ logs' = logs /\ gauge' = gauge /\ sweepVars' = sweepVars /\ touched' = touched
        /\ deleted' = deleted /\ claimed' = claimed /\ orphans' = orphans /\ late' = late
        /\ minted' = minted /\ dueAt' = dueAt /\ up' = up /\ exits' = exits /\ faults' = faults
        /\ proc' = proc /\ now' = now
    BY <1>7 DEF vars, storeVars, daemonVars, memVars, histVars, worldVars
  <2>1. TypeOK'
    BY <2>u DEF IInv, TypeOK, sweepVars
  <2>2. Shapes' /\ Fresh' /\ Known' /\ Bindings' /\ Gone' /\ Expiries' /\ DeletedNeverRuns' /\ PoolSets'
    BY <2>u DEF IInv, Rest, Shapes, Shape, Fresh, Known, Bindings, Gone, Expiries,
                DeletedNeverRuns, Running, PoolSets
  <2>3. ColdSandboxKeepsContainer' /\ ColdPending' /\ NoSilentLeak' /\ Removed'
    BY <2>u DEF IInv, Rest, ColdSandboxKeepsContainer, Running, ColdPending, NoSilentLeak, InRows,
                Pending, Removed
  <2>4. GoneListed' /\ SweptWasDeleted' /\ Due' /\ LogBuffersAreDropped'
    BY <2>u DEF IInv, Rest, GoneListed, SweptWasDeleted, Due, Past, LogBuffersAreDropped, sweepVars
  <2> QED
    BY <2>1, <2>2, <2>3, <2>4 DEF IInv, Rest
<1> QED
  BY <1>1, <1>2, <1>3, <1>4, <1>5, <1>6, <1>7 DEF Next

(* A row, an operation however old its row, and the pool agree on whose    *)
(* each container is.                                                      *)
LEMMA OwnersDiffer == IInv => OneOwner
<1> SUFFICES ASSUME IInv PROVE OneOwner
  OBVIOUS
<1>1. /\ Shapes /\ Fresh /\ Bindings /\ NoCtr \notin Containers
      /\ rows \in [Ids -> Sandbox] /\ proc \in [Procs -> ProcType]
  BY NoneAssumption DEF IInv, Rest, TypeOK, ProcType
<1>2. \A p \in Procs : proc[p].pc = "put" =>
         /\ proc[p].sb.rid \in Containers /\ rows[proc[p].id] = NoRow
         /\ \A q \in Procs : proc[q].id = proc[p].id => q = p
  BY <1>1 DEF Shapes, Shape, Fresh, Creating
<1>3. \A a, b \in Ids : rows[a].rid = rows[b].rid /\ rows[a].rid # NoCtr => a = b
  BY <1>1 DEF Bindings
<1>4. \A p, q \in Procs : proc[p].pc = "put" /\ proc[q].pc = "put" /\ p # q
                             => proc[p].sb.rid # proc[q].sb.rid
  BY <1>1, <1>2 DEF Bindings
<1>5. InRows \cap Pending = {}
  <2> SUFFICES ASSUME NEW a \in Ids, NEW p \in Procs, proc[p].pc = "put",
                      rows[a].rid = proc[p].sb.rid
               PROVE  FALSE
    BY DEF InRows, Pending
  <2>1. rows[a].rid # NoCtr /\ proc[p].id = a
    BY <1>1, <1>2 DEF Bindings
  <2> QED
    BY <1>2, <2>1, NoRowFacts
<1>6. stock \cap (InRows \cup Pending) = {}
  <2>1. \A a \in Ids : rows[a].rid \in Containers \cup {NoCtr}
    BY <1>1 DEF Sandbox
  <2> QED
    BY <1>1, <1>2, <2>1 DEF Bindings, InRows, Pending
<1> QED
  BY <1>3, <1>4, <1>5, <1>6 DEF OneOwner

-----------------------------------------------------------------------------
(* The invariant holds: for any number of sandboxes, containers and        *)
(* goroutines, whatever calls fail and whenever a process exits.           *)
THEOREM LifecycleInductive == Spec => []IInv
BY InitIInv, NextIInv, PTL DEF Spec

(* The manager's variables keep their types, and no stored row is in state *)
(* created.                                                                *)
THEOREM LifecycleTypeCorrect == Spec => []TypeOK
<1>1. IInv => TypeOK
  BY DEF IInv
<1> QED
  BY <1>1, LifecycleInductive, PTL

(* No container is in two rows, in a row and in a Create that is about to  *)
(* write its row, or in either and in the pool.                            *)
THEOREM LifecycleOneOwner == Spec => []OneOwner
BY OwnersDiffer, LifecycleInductive, PTL

(* Only Stop and Delete take the container away from a running sandbox     *)
(* that was cold-started.                                                  *)
THEOREM LifecycleColdSandboxKeepsContainer == Spec => []ColdSandboxKeepsContainer
<1>1. IInv => ColdSandboxKeepsContainer
  BY DEF IInv, Rest
<1> QED
  BY <1>1, LifecycleInductive, PTL

(* Every container belongs to a row, to a Create about to write its row or *)
(* to the pool, unless a failing call or an exit made kpd lose it.         *)
THEOREM LifecycleNoSilentLeak == Spec => []NoSilentLeak
<1>1. IInv => NoSilentLeak
  BY DEF IInv, Rest
<1> QED
  BY <1>1, LifecycleInductive, PTL

(* A sandbox some Delete has removed never shows up as running again.      *)
THEOREM LifecycleDeletedNeverRuns == Spec => []DeletedNeverRuns
<1>1. IInv => DeletedNeverRuns
  BY DEF IInv, Rest
<1> QED
  BY <1>1, LifecycleInductive, PTL

(* A log buffer without its sandbox is about to be dropped, or was made by *)
(* a call that overlapped the Delete, or belongs to the other process.     *)
THEOREM LifecycleLogBuffersAreDropped == Spec => []LogBuffersAreDropped
<1>1. IInv => LogBuffersAreDropped
  BY DEF IInv, Rest
<1> QED
  BY <1>1, LifecycleInductive, PTL

(* The reaper counts only sandboxes that some Delete has removed.          *)
THEOREM LifecycleSweptWasDeleted == Spec => []SweptWasDeleted
<1>1. IInv => SweptWasDeleted
  BY DEF IInv, Rest
<1> QED
  BY <1>1, LifecycleInductive, PTL

(* The reaper deletes no row before the expiry its sandbox was created     *)
(* with, although it compares whole seconds.                               *)
THEOREM LifecycleReaperIsNeverEarly == Spec => ReaperIsNeverEarly
<1>1. IInv => (proc[Reaper].pc = "deleteRow"
                 => dueAt[proc[Reaper].id] # Never /\ dueAt[proc[Reaper].id] < now)
  BY DEF IInv, Rest, Due, Past
<1>2. IInv /\ [Next]_vars =>
         [LET id == proc[Reaper].id
          IN  proc[Reaper].pc = "deleteRow" /\ proc'[Reaper].pc = "dropLog"
                 => dueAt[id] # Never /\ dueAt[id] < now]_vars
  BY <1>1
<1> QED
  BY <1>2, LifecycleInductive, PTL DEF Spec, ReaperIsNeverEarly
=============================================================================
