------------------------------ MODULE Lifecycle ------------------------------
(***************************************************************************)
(* The life of a sandbox in kpd: Manager.Create, Exec, Logs, Stop and      *)
(* Delete (internal/sandbox/manager.go) running concurrently with each     *)
(* other and with the reaper (internal/sandbox/reaper.go), over the SQLite *)
(* rows, the container daemon and the warm pool, across exits and restarts *)
(* of the process.  kpmcp (cmd/kpmcp, internal/mcp) is a second process    *)
(* with a manager of its own over the same database and daemon: its tools  *)
(* are the same calls, but its manager is never started, so its pools stay *)
(* empty, it has no reaper, and its metrics go nowhere.                    *)
(*                                                                         *)
(* The manager holds no lock across an operation.  A step here is one call *)
(* of the store or of the runtime, or one critical section in memory; any  *)
(* other operation may run between two of them.  Rows and containers       *)
(* outlive the process, everything else in it does not.  The pool appears  *)
(* as the Dispenser it implements (module Pool).                           *)
(***************************************************************************)
EXTENDS Integers, FiniteSets

CONSTANTS
    Ids,         \* the sandbox ids uuid.NewString may return
    NoId,        \* no sandbox id
    Containers,  \* container ids the daemon may hand out
    NoCtr,       \* the empty RuntimeID
    Workers,     \* the goroutines that serve requests, of kpd and of kpmcp
    Mcp,         \* those of kpmcp
    Reaper,      \* the reaper's goroutine
    TTLs,        \* the TTLs a request can resolve to, in ticks; 0: none
    PoolTarget,  \* size of the warm pool
    MaxWarm,     \* bound: containers the pool warms
    ReaperOn,    \* the reaper's interval is positive
    MaxTime,     \* bound: the clock
    MaxFaults,   \* bound: failing calls of the store and of the runtime
    MaxExits     \* bound: exits of the process

ASSUME NoneAssumption ==
    NoId \notin Ids /\ NoCtr \notin Containers /\ Reaper \notin Workers /\ Mcp \subseteq Workers
ASSUME BoundAssumption ==
    /\ PoolTarget \in Nat /\ MaxWarm \in Nat /\ MaxTime \in Nat /\ MaxFaults \in Nat
    /\ MaxExits \in Nat /\ TTLs \subseteq Nat /\ ReaperOn \in BOOLEAN

VARIABLES
    rows,       \* the table sandboxes
    ctr,        \* state of each container in the daemon
    warmLabel,  \* containers labelled kotakpasir.role=pool-warm
    used,       \* container ids handed out by the daemon so far
    proc,       \* the operation each goroutine is in
    stock,      \* ids ready in the warm pool
    logs,       \* m.logs of each process: sandbox ids that have a log buffer
    gauge,      \* kpd_sandbox_active
    expired,    \* the rest of the list the reaper's sweep is working through
    sweepAt,    \* the tick time the sweep was started with
    counted,    \* sandboxes this sweep has counted so far
    swept,      \* sandboxes counted in kpd_reaper_swept_total
    up,         \* kpd is running
    now,        \* clock, two ticks a second
    minted,     \* ids given to sandboxes so far
    dueAt,      \* the expiry each sandbox was created with, in ticks
    touched,    \* ids some Stop or Delete has found in the store
    deleted,    \* ids some Delete has removed from the store
    claimed,    \* containers tryClaim has returned
    orphans,    \* containers given up after a failure (see Abandon)
    late,       \* buffers that outlive their row (see LogBufferFor, DeleteRow)
    faults, exits

storeVars  == <<rows>>
daemonVars == <<ctr, warmLabel, used>>
sweepVars  == <<expired, sweepAt, counted, swept>>
memVars    == <<stock, logs, gauge, sweepVars>>
histVars   == <<minted, dueAt, touched, deleted, claimed, orphans, late>>
worldVars  == <<up, now, exits>>
vars == <<storeVars, daemonVars, memVars, histVars, worldVars, proc, faults>>

Procs  == Workers \cup {Reaper}
Managers == {"kpd", "kpmcp"}
ManagerOf(p) == IF p \in Mcp THEN "kpmcp" ELSE "kpd"
Never  == -1          \* expires_at IS NULL
NoRow  == [state |-> "absent", rid |-> NoCtr, expires |-> Never]
Idle   == [pc |-> "idle", id |-> NoId, sb |-> NoRow, n |-> 0]

(* time.Time.Unix: whole seconds, the fraction is cut off.                 *)
Unix(t) == t \div 2

Pool == INSTANCE Dispenser WITH
    Items <- Containers, taken <- claimed, open <- up

Running == {id \in Ids : rows[id].state = "running"}

Init ==
    /\ rows = [id \in Ids |-> NoRow]
    /\ ctr = [c \in Containers |-> "none"] /\ warmLabel = {} /\ used = {}
    /\ proc = [p \in Procs |-> Idle]
    /\ stock = {} /\ logs = [m \in Managers |-> {}] /\ gauge = 0
    /\ expired = {} /\ sweepAt = 0 /\ counted = {} /\ swept = {}
    /\ up = TRUE /\ now = 0 /\ exits = 0 /\ faults = 0
    /\ minted = {} /\ dueAt = [id \in Ids |-> Never]
    /\ touched = {} /\ deleted = {} /\ claimed = {} /\ orphans = {}
    /\ late = [m \in Managers |-> {}]

-----------------------------------------------------------------------------
At(p, label)   == (up \/ p \in Mcp) /\ proc[p].pc = label
Goto(p, label) == proc' = [proc EXCEPT ![p].pc = label]
(* The operation returns: a worker is free again, the reaper goes on with  *)
(* its list.                                                               *)
Return(p) ==
    proc' = [proc EXCEPT ![p] = [Idle EXCEPT !.pc = IF p = Reaper THEN "next"
                                                                  ELSE "idle"]]

(* A call of the store or of the runtime works, or it fails.               *)
Works == faults' = faults
Fails == faults < MaxFaults /\ faults' = faults + 1

(* store.Put is an upsert: a row that is not there is made.                *)
Put(id, sb) == rows' = [rows EXCEPT ![id] = sb]

(* A container that nothing in kpd will look at again.                     *)
Abandon(cs) == orphans' = orphans \cup cs

(* Create up to and including tryClaim: the request resolved, a fresh id,  *)
(* the expiry, and a warm container if the pool matches and has one.       *)
NewSandbox(p, id, ttl, state, rid, label) ==
    LET due == IF ttl > 0 THEN now + ttl ELSE Never
    IN  /\ At(p, "idle") /\ id \notin minted
        /\ Unix(due) < Unix(MaxTime) \* bound: the clock gets past every expiry
        /\ minted' = minted \cup {id}
        /\ dueAt' = [dueAt EXCEPT ![id] = due]
        /\ proc' = [proc EXCEPT ![p] =
              [pc |-> label, id |-> id, n |-> 0,
               sb |-> [state |-> state, rid |-> rid,
                       expires |-> IF due = Never THEN Never ELSE Unix(due)]]]

(* Mutant of CreateClaims: the claimed id stays in the pool.               *)
CreateClaimsKeeps(p, id, ttl, c) ==
    /\ NewSandbox(p, id, ttl, "running", c, "put") /\ p \notin Mcp
    /\ c \in stock /\ claimed' = claimed \cup {c}
    /\ UNCHANGED <<storeVars, daemonVars, memVars, touched, deleted, orphans, late,
                   worldVars, faults>>

CreateClaims(p, id, ttl, c) ==
    /\ NewSandbox(p, id, ttl, "running", c, "put") /\ p \notin Mcp
    /\ Pool!Take(c)
    /\ UNCHANGED <<rows, ctr, warmLabel, logs, gauge, sweepVars, touched, deleted,
                   orphans, late, now, exits, faults>>

CreateMisses(p, id, ttl) ==
    /\ NewSandbox(p, id, ttl, "created", NoCtr, "create")
    /\ UNCHANGED <<storeVars, daemonVars, memVars, touched, deleted, claimed,
                   orphans, late, worldVars, faults>>

CreateRuntime(p, c) ==
    /\ At(p, "create") /\ c \notin used
    /\ Works
    /\ ctr' = [ctr EXCEPT ![c] = "running"]
    /\ used' = used \cup {c}
    /\ proc' = [proc EXCEPT ![p].sb.rid = c, ![p].sb.state = "running", ![p].pc = "put"]
    /\ UNCHANGED <<storeVars, warmLabel, memVars, histVars, worldVars>>

(* Mutant of CreateRuntimeFails: sb.State is not set to StateError.        *)
CreateRuntimeFailsUnmarked(p) ==
    /\ At(p, "create")
    /\ Fails
    /\ Goto(p, "putError")
    /\ UNCHANGED <<storeVars, daemonVars, memVars, histVars, worldVars>>

CreateRuntimeFails(p) ==
    /\ At(p, "create")
    /\ Fails
    /\ proc' = [proc EXCEPT ![p].sb.state = "error", ![p].pc = "putError"]
    /\ UNCHANGED <<storeVars, daemonVars, memVars, histVars, worldVars>>

(* The row of a failed Create; the error of this Put is ignored.           *)
CreatePutError(p) ==
    /\ At(p, "putError")
    /\ \/ Works /\ Put(proc[p].id, proc[p].sb)
       \/ Fails /\ rows' = rows
    /\ Return(p)
    /\ UNCHANGED <<daemonVars, memVars, histVars, worldVars>>

(* The row of a sandbox whose container runs.  When Put fails, Create      *)
(* returns the error and leaves the container as it is.                    *)
CreatePut(p) ==
    /\ At(p, "put")
    /\ \/ /\ Works
          /\ Put(proc[p].id, proc[p].sb)
          /\ Goto(p, "list")
          /\ orphans' = orphans
       \/ /\ Fails
          /\ rows' = rows
          /\ Abandon({proc[p].sb.rid})
          /\ Return(p)
    /\ UNCHANGED <<daemonVars, memVars, minted, dueAt, touched, deleted, claimed,
                   late, worldVars>>

-----------------------------------------------------------------------------
(* refreshActive: count the running rows, then, as a step of its own, set  *)
(* the gauge to that count.  kpmcp's recorder drops it.                    *)
RefreshList(p) ==
    /\ At(p, "list")
    /\ \/ Works /\ proc' = [proc EXCEPT ![p].n = Cardinality(Running),
                                        ![p].pc = "set"]
       \/ Fails /\ Return(p)
    /\ UNCHANGED <<storeVars, daemonVars, memVars, histVars, worldVars>>

RefreshSet(p) ==
    /\ At(p, "set")
    /\ gauge' = IF p \in Mcp THEN gauge ELSE proc[p].n
    /\ Return(p)
    /\ UNCHANGED <<storeVars, daemonVars, stock, logs, sweepVars, histVars,
                   worldVars, faults>>

-----------------------------------------------------------------------------
(* store.Get: the operation goes on with the row it read.                  *)
Load(p, id, label) ==
    /\ rows[id] # NoRow
    /\ proc' = [proc EXCEPT ![p] = [pc |-> label, id |-> id, sb |-> rows[id],
                                    n |-> 0]]

(* Mutant of DeleteGet: only a running sandbox has its container removed.  *)
DeleteGetRunningOnly(p, id) ==
    /\ Load(p, id, IF rows[id].state = "running" THEN "remove" ELSE "deleteRow")
    /\ touched' = touched \cup {id}
    /\ UNCHANGED <<storeVars, daemonVars, minted, dueAt, deleted, claimed, orphans,
                   late, worldVars, faults>>

(* Delete skips the runtime for a row without a container.                 *)
DeleteGet(p, id) ==
    /\ Load(p, id, IF rows[id].rid # NoCtr THEN "remove" ELSE "deleteRow")
    /\ touched' = touched \cup {id}
    /\ UNCHANGED <<storeVars, daemonVars, minted, dueAt, deleted, claimed, orphans,
                   late, worldVars, faults>>

(* Any container of the row is force-removed.  docker's Remove reports no  *)
(* error, and Delete would ignore one.                                     *)
DeleteRemove(p) ==
    /\ At(p, "remove")
    /\ \/ /\ Works
          /\ ctr' = [ctr EXCEPT ![proc[p].sb.rid] = "none"]
          /\ orphans' = orphans
       \/ /\ Fails
          /\ ctr' = ctr
          /\ Abandon({proc[p].sb.rid})
    /\ Goto(p, "deleteRow")
    /\ UNCHANGED <<storeVars, warmLabel, used, memVars, minted, dueAt, touched,
                   deleted, claimed, late, worldVars>>

(* store.Delete: ErrNotFound when another Delete was faster.  The reaper    *)
(* counts a sandbox that is gone, whoever deleted it.  A buffer that the    *)
(* other process has for this sandbox will not be dropped.                  *)
DeleteRow(p) ==
    LET id == proc[p].id
        other(m) == m # ManagerOf(p) /\ id \in logs[m]
        Count == counted' = IF p = Reaper THEN counted \cup {id} ELSE counted
    IN  /\ At(p, "deleteRow")
        /\ \/ /\ Works /\ rows[id] # NoRow
              /\ rows' = [rows EXCEPT ![id] = NoRow]
              /\ deleted' = deleted \cup {id}
              /\ late' = [m \in Managers |-> IF other(m) THEN late[m] \cup {id}
                                                        ELSE late[m]]
              /\ Count
              /\ Goto(p, "dropLog")
           \/ /\ Works /\ rows[id] = NoRow
              /\ Count
              /\ Return(p)
              /\ UNCHANGED <<rows, deleted, late>>
           \/ /\ Fails
              /\ Return(p)
              /\ UNCHANGED <<rows, deleted, late, counted>>
        /\ UNCHANGED <<daemonVars, stock, logs, gauge, expired, sweepAt, swept, minted,
                       dueAt, touched, claimed, orphans, worldVars>>

(* Mutant of DropLog: the buffer stays.                                    *)
DropLogNot(p) ==
    /\ At(p, "dropLog")
    /\ Goto(p, "list")
    /\ UNCHANGED <<storeVars, daemonVars, memVars, histVars, worldVars, faults>>

DropLog(p) ==
    /\ At(p, "dropLog")
    /\ logs' = [logs EXCEPT ![ManagerOf(p)] = @ \ {proc[p].id}]
    /\ Goto(p, "list")
    /\ UNCHANGED <<storeVars, daemonVars, stock, gauge, sweepVars, histVars,
                   worldVars, faults>>

-----------------------------------------------------------------------------
StopGet(p, id) ==
    /\ At(p, "idle") /\ Load(p, id, "stop")
    /\ touched' = touched \cup {id}
    /\ UNCHANGED <<storeVars, daemonVars, memVars, minted, dueAt, deleted, claimed,
                   orphans, late, worldVars, faults>>

(* rt.Stop: an error when there is no such container.                      *)
StopRuntime(p) ==
    LET c == proc[p].sb.rid
        exists == c \in Containers /\ ctr[c] # "none"
    IN  /\ At(p, "stop")
        /\ \/ /\ Works /\ exists
              /\ ctr' = [ctr EXCEPT ![c] = "exited"]
              /\ Goto(p, "putStopped")
           \/ /\ Works /\ ~exists
              /\ ctr' = ctr
              /\ Return(p)
           \/ /\ Fails
              /\ ctr' = ctr
              /\ Return(p)
        /\ UNCHANGED <<storeVars, warmLabel, used, memVars, histVars, worldVars>>

(* Mutant of StopPut: the row is written back as it was read.              *)
StopPutUnchanged(p) ==
    /\ At(p, "putStopped")
    /\ Works
    /\ Put(proc[p].id, proc[p].sb)
    /\ Goto(p, "list")
    /\ UNCHANGED <<daemonVars, memVars, histVars, worldVars>>

(* Stop writes back the row it has read, whether or not it still is in the *)
(* table.                                                                  *)
StopPut(p) ==
    /\ At(p, "putStopped")
    /\ \/ /\ Works
          /\ Put(proc[p].id, [proc[p].sb EXCEPT !.state = "stopped"])
          /\ Goto(p, "list")
       \/ /\ Fails
          /\ rows' = rows
          /\ Return(p)
    /\ UNCHANGED <<daemonVars, memVars, histVars, worldVars>>

-----------------------------------------------------------------------------
(* Exec refuses a sandbox that is not running; Logs does not.  kpmcp has   *)
(* no tool for Logs.                                                       *)
ExecGet(p, id) ==
    /\ At(p, "idle") /\ rows[id].state = "running" /\ Load(p, id, "execLog")
    /\ UNCHANGED <<storeVars, daemonVars, memVars, histVars, worldVars, faults>>

LogsGet(p, id) ==
    /\ At(p, "idle") /\ p \notin Mcp /\ Load(p, id, "logsLog")
    /\ UNCHANGED <<storeVars, daemonVars, memVars, histVars, worldVars, faults>>

(* logBufferFor: the buffer is made on first use, also when the row that   *)
(* was read is gone by now.                                                *)
LogBufferFor(p) ==
    /\ \/ At(p, "execLog") /\ Goto(p, "exec")
       \/ At(p, "logsLog") /\ Return(p)
    /\ logs' = [logs EXCEPT ![ManagerOf(p)] = @ \cup {proc[p].id}]
    /\ late' = IF rows[proc[p].id] # NoRow THEN late
               ELSE [late EXCEPT ![ManagerOf(p)] = @ \cup {proc[p].id}]
    /\ UNCHANGED <<storeVars, daemonVars, stock, gauge, sweepVars, minted, dueAt,
                   touched, deleted, claimed, orphans, worldVars, faults>>

(* rt.Exec returns; its output goes to the buffer, which is not modelled.  *)
ExecRuntime(p) ==
    /\ At(p, "exec")
    /\ Return(p)
    /\ UNCHANGED <<storeVars, daemonVars, memVars, histVars, worldVars, faults>>

-----------------------------------------------------------------------------
(* Mutants of ExpiredBefore: rows that expire within the current second,   *)
(* and running rows only.                                                  *)
ExpiredThisSecond(t) ==
    {id \in Ids : rows[id].expires # Never /\ rows[id].expires <= Unix(t)}
ExpiredRunning(t) ==
    {id \in Running : rows[id].expires # Never /\ rows[id].expires < Unix(t)}

(* The rows the sweep asks for: both times in whole seconds.               *)
ExpiredBefore(t) ==
    {id \in Ids : rows[id].expires # Never /\ rows[id].expires < Unix(t)}

ReaperTick ==
    /\ At(Reaper, "idle") /\ ReaperOn
    /\ sweepAt' = now
    /\ Goto(Reaper, "query")
    /\ UNCHANGED <<storeVars, daemonVars, stock, logs, gauge, expired, counted, swept,
                   histVars, worldVars, faults>>

ReaperQuery ==
    /\ At(Reaper, "query")
    /\ \/ Works /\ expired' = ExpiredBefore(sweepAt)
       \/ Fails /\ expired' = {}
    /\ Goto(Reaper, "next")
    /\ UNCHANGED <<storeVars, daemonVars, stock, logs, gauge, sweepAt, counted, swept,
                   histVars, worldVars>>

(* Mutant of ReaperNext: a Delete that fails is counted too.               *)
ReaperNextCountsAll ==
    /\ At(Reaper, "next")
    /\ \/ \E id \in expired :
             /\ expired' = expired \ {id} /\ sweepAt' = sweepAt /\ swept' = swept
             /\ \/ DeleteGet(Reaper, id) /\ counted' = counted
                \/ /\ \/ rows[id] = NoRow /\ Works /\ counted' = counted \cup {id}
                      \/ Fails /\ counted' = counted \cup {id}
                   /\ UNCHANGED <<storeVars, daemonVars, proc, histVars, worldVars>>
       \/ /\ expired = {} /\ sweepAt' = 0
          /\ swept' = swept \cup counted /\ counted' = {}
          /\ Goto(Reaper, "idle")
          /\ UNCHANGED <<storeVars, daemonVars, expired, histVars, worldVars, faults>>
    /\ UNCHANGED <<stock, logs, gauge>>

(* The sweep's loop: Manager.Delete for each id; an id that is gone by now *)
(* counts as swept, an error does not and does not end the sweep.  The     *)
(* counter is raised at the end.                                           *)
ReaperNext ==
    /\ At(Reaper, "next")
    /\ \/ \E id \in expired :
             /\ expired' = expired \ {id} /\ sweepAt' = sweepAt /\ swept' = swept
             /\ \/ DeleteGet(Reaper, id) /\ counted' = counted
                \/ /\ \/ rows[id] = NoRow /\ Works /\ counted' = counted \cup {id}
                      \/ Fails /\ counted' = counted
                   /\ UNCHANGED <<storeVars, daemonVars, proc, histVars, worldVars>>
       \/ /\ expired = {} /\ sweepAt' = 0
          /\ swept' = swept \cup counted /\ counted' = {}
          /\ Goto(Reaper, "idle")
          /\ UNCHANGED <<storeVars, daemonVars, expired, histVars, worldVars, faults>>
    /\ UNCHANGED <<stock, logs, gauge>>

DeleteCall(p, id) ==
    /\ At(p, "idle") /\ DeleteGet(p, id)
    /\ UNCHANGED memVars

-----------------------------------------------------------------------------
(* The pool warms one more container, labelled as its own.                 *)
PoolSpawn(c) ==
    /\ Cardinality(stock) < PoolTarget /\ Cardinality(warmLabel) < MaxWarm
    /\ Pool!Stock(c)
    /\ ctr' = [ctr EXCEPT ![c] = "running"]
    /\ warmLabel' = warmLabel \cup {c}
    /\ UNCHANGED <<storeVars, logs, gauge, sweepVars, minted, dueAt, touched, deleted,
                   orphans, late, now, exits, proc, faults>>

Remaining(gone) == [c \in Containers |-> IF c \in gone THEN "none" ELSE ctr[c]]

(* The requests of the goroutines `ps` end where they are; a container      *)
(* whose row was not written yet is known to nobody.                       *)
End(ps) ==
    /\ exits < MaxExits /\ exits' = exits + 1
    /\ Abandon({proc[p].sb.rid : p \in {q \in ps : proc[q].pc = "put"}})
    /\ proc' = [p \in Procs |-> IF p \in ps THEN Idle ELSE proc[p]]

(* kpd ends.  `gone` are the warm containers Manager.Shutdown still got to *)
(* remove: none in a crash, all of them in a shutdown that goes well.      *)
Exit ==
    /\ up /\ up' = FALSE
    /\ End(Procs \ Mcp)
    /\ \E gone \in SUBSET stock : ctr' = Remaining(gone)
    /\ stock' = {} /\ logs' = [logs EXCEPT !["kpd"] = {}] /\ gauge' = 0
    /\ expired' = {} /\ sweepAt' = 0 /\ counted' = {}
    /\ UNCHANGED <<storeVars, warmLabel, used, minted, dueAt, touched, deleted,
                   claimed, late, swept, now, faults>>

(* The agent closes kpmcp's stdin and starts another; its manager has no   *)
(* Start to run and nothing to shut down.                                  *)
McpExit ==
    /\ End(Mcp) /\ Mcp # {}
    /\ logs' = [logs EXCEPT !["kpmcp"] = {}]
    /\ UNCHANGED <<storeVars, daemonVars, stock, gauge, sweepVars, minted, dueAt,
                   touched, deleted, claimed, late, up, now, faults>>

(* Mutant of CleanPoolOrphans: every managed container.                    *)
CleanManaged ==
    Works /\ ctr' = Remaining(Containers)

(* CleanPoolOrphans: every container with the pool's label, best effort.   *)
CleanPoolOrphans ==
    \/ Works /\ ctr' = Remaining(warmLabel)
    \/ Fails /\ \E gone \in SUBSET warmLabel : ctr' = Remaining(gone)

(* Manager.Start, before the API is served and the reaper runs.            *)
Restart ==
    /\ ~up
    /\ up' = TRUE
    /\ CleanPoolOrphans
    /\ UNCHANGED <<storeVars, warmLabel, used, memVars, histVars, now, exits, proc>>

Tick ==
    /\ now < MaxTime
    /\ now' = now + 1
    /\ UNCHANGED <<storeVars, daemonVars, memVars, histVars, up, exits, proc, faults>>

-----------------------------------------------------------------------------
(* The steps an operation takes once it has begun.                         *)
Continue(p) ==
    \/ \E c \in Containers : CreateRuntime(p, c)
    \/ CreateRuntimeFails(p) \/ CreatePutError(p) \/ CreatePut(p)
    \/ RefreshList(p) \/ RefreshSet(p)
    \/ DeleteRemove(p) \/ DeleteRow(p) \/ DropLog(p)
    \/ StopRuntime(p) \/ StopPut(p)
    \/ LogBufferFor(p) \/ ExecRuntime(p)

(* The calls kpmcp has a tool for.                                         *)
Tool(p, id) ==
    \/ \E ttl \in TTLs : CreateMisses(p, id, ttl)
    \/ DeleteCall(p, id) \/ StopGet(p, id) \/ ExecGet(p, id)

(* A client's request reaches an idle worker.                              *)
Call(p) ==
    \E id \in Ids :
        \/ \E ttl \in TTLs, c \in Containers : CreateClaims(p, id, ttl, c)
        \/ LogsGet(p, id)
        \/ Tool(p, id)

ReaperStep == ReaperTick \/ ReaperQuery \/ ReaperNext \/ Continue(Reaper)

Next ==
    \/ \E p \in Workers : Call(p) \/ Continue(p)
    \/ ReaperStep
    \/ \E c \in Containers : PoolSpawn(c)
    \/ Exit \/ Restart \/ McpExit \/ Tick

(* Goroutines are scheduled and their calls return, the ticker of the      *)
(* reaper goes on, the clock advances, and the process is restarted        *)
(* (Restart=on-failure in the unit file of docs/deployment.md).            *)
Spec ==
    /\ Init /\ [][Next]_vars
    /\ \A p \in Workers : WF_vars(Continue(p))
    /\ WF_vars(ReaperStep) /\ WF_vars(Tick) /\ WF_vars(Restart)
-----------------------------------------------------------------------------
(* A Sandbox value; StateCreated is the state Create starts from and never *)
(* the one it stores.                                                      *)
Sandbox == [state : {"absent", "created", "running", "stopped", "error"},
            rid : Containers \cup {NoCtr}, expires : Nat \cup {Never}]
Labels == {"idle", "create", "put", "putError", "list", "set", "remove", "deleteRow",
           "dropLog", "stop", "putStopped", "execLog", "logsLog", "exec", "query",
           "next"}

(* Containers a row, or a Create that is about to write its row, refers to.*)
InRows  == {rows[id].rid : id \in Ids} \ {NoCtr}
Pending == {proc[p].sb.rid : p \in {q \in Procs : proc[q].pc = "put"}}

(* The variables keep their types, and no stored row is in state created.  *)
TypeOK ==
    /\ rows \in [Ids -> Sandbox] /\ \A id \in Ids : rows[id].state # "created"
    /\ ctr \in [Containers -> {"none", "running", "exited"}]
    /\ warmLabel \subseteq Containers /\ used \subseteq Containers
    /\ proc \in [Procs -> [pc : Labels, id : Ids \cup {NoId}, sb : Sandbox, n : Nat]]
    /\ stock \subseteq Containers /\ logs \in [Managers -> SUBSET Ids] /\ gauge \in Nat
    /\ expired \subseteq Ids /\ sweepAt \in Nat /\ counted \subseteq Ids /\ swept \subseteq Ids
    /\ up \in BOOLEAN /\ now \in 0..MaxTime /\ exits \in 0..MaxExits
    /\ faults \in 0..MaxFaults
    /\ minted \subseteq Ids /\ dueAt \in [Ids -> Nat \cup {Never}]
    /\ touched \subseteq Ids /\ deleted \subseteq Ids
    /\ claimed \subseteq Containers /\ orphans \subseteq Containers
    /\ late \in [Managers -> SUBSET Ids]

(* "Two different sandboxes never share a container, even sequentially"    *)
(* (docs/warm-pool.md): no container is in two rows, in a row and in a     *)
(* Create that has not written its row, or in either and still in the pool.*)
OneOwner ==
    /\ \A a, b \in Ids : rows[a].rid = rows[b].rid /\ rows[a].rid # NoCtr => a = b
    /\ \A p, q \in Procs : proc[p].pc = "put" /\ proc[q].pc = "put" /\ p # q
                              => proc[p].sb.rid # proc[q].sb.rid
    /\ InRows \cap Pending = {}
    /\ stock \cap (InRows \cup Pending) = {}

(* Only Stop and Delete take the container away from a running sandbox     *)
(* that was cold-started: no restart, reload of the pool or other          *)
(* operation does.                                                         *)
ColdSandboxKeepsContainer ==
    \A id \in Running \ touched :
        rows[id].rid \notin warmLabel => ctr[rows[id].rid] = "running"

(* "In-flight sandboxes survive a restart" (docs/deployment.md): the same  *)
(* for every running sandbox, those claimed from the warm pool included.   *)
SandboxKeepsContainer ==
    \A id \in Running \ touched : ctr[rows[id].rid] = "running"

(* Every container that exists belongs to a row, to a Create about to      *)
(* write its row, or to the pool (which the next Start cleans), unless a   *)
(* failing call or a crash made kpd lose it: no interleaving alone does.   *)
NoSilentLeak ==
    {c \in Containers : ctr[c] # "none"}
        \subseteq InRows \cup Pending \cup (warmLabel \ claimed) \cup orphans

(* A sandbox some Delete has removed never shows up as running again,      *)
(* whatever Stop, Exec, the reaper or a restart do afterwards.             *)
DeletedNeverRuns == deleted \cap Running = {}

(* "Stop and permanently delete a sandbox" (internal/mcp/server.go): once  *)
(* a Delete has removed the row, there is none again.                      *)
DeletedForGood == \A id \in deleted : rows[id] = NoRow

(* The reaper deletes no sandbox before the expiry it was created with,    *)
(* although the store keeps that time, and the query compares it, in whole *)
(* seconds.                                                                *)
ReaperIsNeverEarly ==
    [][LET id == proc[Reaper].id
       IN  proc[Reaper].pc = "deleteRow" /\ proc'[Reaper].pc = "dropLog"
              => dueAt[id] # Never /\ dueAt[id] < now]_vars

(* A sandbox with an expiry is eventually deleted: stopped and failed ones *)
(* too, and ones a racing Stop has written back, after failing calls and   *)
(* across restarts.                                                        *)
ExpiredIsReaped ==
    \A id \in Ids : rows[id].expires # Never ~> rows[id] = NoRow

(* kpd_reaper_swept_total counts only sandboxes that a Delete, the         *)
(* reaper's or another's, has removed, whichever of two was faster.        *)
SweptWasDeleted == swept \cup counted \subseteq deleted

(* A log buffer without its sandbox is on its way to be dropped, or an     *)
(* Exec or Logs that overlapped the Delete made it again, or the other     *)
(* process has deleted the sandbox: nothing else leaves one behind.        *)
LogBuffersAreDropped ==
    \A m \in Managers : \A id \in logs[m] :
        \/ rows[id] # NoRow \/ id \in late[m]
        \/ \E p \in Procs : ManagerOf(p) = m /\ proc[p].pc = "dropLog" /\ proc[p].id = id

(* Number of sandboxes in state=running (help text of kpd_sandbox_active): *)
(* once the operations have returned, the gauge is the number of running   *)
(* rows.                                                                   *)
GaugeCountsRunning ==
    up /\ (\A p \in Procs : proc[p].pc = "idle") => gauge = Cardinality(Running)

(* dropLogBuffer removes the buffer of a sandbox on Delete: once the       *)
(* operations have returned, no log buffer is left without its sandbox.    *)
LogsHaveSandbox ==
    (\A p \in Procs : proc[p].pc = "idle") =>
        \A m \in Managers : \A id \in logs[m] : rows[id] # NoRow
=============================================================================
