------------------------------- MODULE Client -------------------------------
(***************************************************************************)
(* The clients of kpd: commands of the CLI (cmd/kp) and calls of the Go    *)
(* SDK (pkg/kotakpasir), the requests they send, and the handlers of the   *)
(* HTTP API (internal/api) that answer them.                               *)
(*                                                                         *)
(* A request is answered in one or two steps of the server, between which  *)
(* other requests and the reaper change the table; a client that gives up  *)
(* (after 30 seconds, or on Ctrl-C) does not stop the request it has sent. *)
(* Of the manager (module Lifecycle) the clients see the rows only.        *)
(***************************************************************************)
EXTENDS Integers, FiniteSets

CONSTANTS
    Ids,      \* sandbox ids
    NoId,     \* no sandbox id
    Clients,  \* processes that use the SDK, each with one call at a time
    Others,   \* bound: places for requests of nobody in Clients (see Elsewhere)
    TTLs      \* TTLs asked for, in half seconds; 0: none

ASSUME ClientAssumption ==
    /\ NoId \notin Ids /\ TTLs \subseteq Nat /\ Others \cap Clients = {}

VARIABLES
    rows,     \* the state of each sandbox in the table, or "absent"
    expiring, \* ids whose row has an expiry
    minted,   \* ids given to sandboxes so far
    call,     \* the command each client is in
    req,      \* the requests at the server, of Clients and of others
    seen,     \* the states that held at some moment of each client's command
    asked     \* ids created for a command with a TTL

dbVars == <<rows, expiring, minted, asked>>
vars == <<dbVars, call, req, seen>>

Slots  == Clients \cup Others
NoReq  == [op |-> "none", st |-> "none"]
NoCall == [pc |-> "idle", cmd |-> "none", id |-> NoId, target |-> "none",
           prev |-> [id \in Ids |-> "absent"], kind |-> "none"]
Table  == {<<id, rows[id]>> : id \in Ids}

Init ==
    /\ rows = [id \in Ids |-> "absent"] /\ expiring = {} /\ minted = {} /\ asked = {}
    /\ call = [k \in Clients |-> NoCall] /\ req = [x \in Slots |-> NoReq]
    /\ seen = [k \in Clients |-> {}]

-----------------------------------------------------------------------------
(* The server.                                                             *)

NewRequest(op, id, input, ttl) ==
    [op |-> op, id |-> id, input |-> input, ttl |-> ttl, auth |-> input # "noToken",
     st |-> "new", status |-> 0, view |-> {}, wrote |-> FALSE]

(* The handler returns; only the answers to Clients are looked at.         *)
Reply(x, status, view, wrote) ==
    req' = [req EXCEPT ![x] = IF x \in Others THEN NoReq
                              ELSE [@ EXCEPT !.st = "answered", !.status = status,
                                             !.view = view, !.wrote = wrote]]
Refuse(x, status) == Reply(x, status, {}, FALSE) /\ UNCHANGED dbVars
At(x, op, st) == req[x].op = op /\ req[x].st = st
Row(x) == rows[req[x].id]

authMiddleware(x) == req[x].st = "new" /\ ~req[x].auth /\ Refuse(x, 401)

(* The manager's Create makes a row, in state error when the runtime fails,*)
(* or none when the store fails.  ttl_seconds is a whole number.           *)
handleCreate(x) ==
    /\ At(x, "create", "new") /\ req[x].auth
    /\ \/ req[x].input # "good" /\ Refuse(x, 400)
       \/ req[x].input = "good" /\ Refuse(x, 500)
       \/ /\ req[x].input = "good"
          /\ \E id \in Ids \ minted, s \in {"running", "error"} :
                /\ rows' = [rows EXCEPT ![id] = s]
                /\ minted' = minted \cup {id}
                /\ expiring' = expiring \cup IF req[x].ttl \div 2 > 0 THEN {id} ELSE {}
                /\ asked' = asked \cup IF req[x].ttl > 0 THEN {id} ELSE {}
                /\ IF s = "running" THEN Reply(x, 201, {<<id, s>>}, TRUE)
                                    ELSE Reply(x, 500, {}, TRUE)

handleGet(x) ==
    /\ At(x, "get", "new") /\ req[x].auth
    /\ \/ Refuse(x, 500)
       \/ Row(x) = "absent" /\ Refuse(x, 404)
       \/ /\ Row(x) # "absent" /\ Reply(x, 200, {<<req[x].id, Row(x)>>}, FALSE)
          /\ UNCHANGED dbVars

handleList(x) ==
    /\ At(x, "list", "new") /\ req[x].auth
    /\ \/ Refuse(x, 500)
       \/ Reply(x, 200, {e \in Table : e[2] # "absent"}, FALSE) /\ UNCHANGED dbVars

(* Stop, Delete and Exec read the row first; Exec wants a command, and a   *)
(* running sandbox.                                                        *)
Load(x) ==
    /\ req[x].op \in {"stop", "delete", "exec"} /\ req[x].st = "new" /\ req[x].auth
    /\ IF req[x].op = "exec" /\ req[x].input = "empty" THEN Refuse(x, 400)
       ELSE \/ Refuse(x, 500)
            \/ Row(x) = "absent" /\ Refuse(x, 404)
            \/ /\ Row(x) # "absent" /\ (req[x].op = "exec" => Row(x) = "running")
               /\ req' = [req EXCEPT ![x].st = "loaded"]
               /\ UNCHANGED dbVars

(* Stop writes its row back even if it has been deleted since.             *)
handleStop(x) ==
    /\ At(x, "stop", "loaded")
    /\ \/ Refuse(x, 500)
       \/ /\ rows' = [rows EXCEPT ![req[x].id] = "stopped"]
          /\ Reply(x, 204, {}, TRUE)
          /\ UNCHANGED <<expiring, minted, asked>>

handleDelete(x) ==
    /\ At(x, "delete", "loaded")
    /\ \/ Refuse(x, 500)
       \/ Row(x) = "absent" /\ Refuse(x, 404)
       \/ /\ Row(x) # "absent"
          /\ rows' = [rows EXCEPT ![req[x].id] = "absent"]
          /\ Reply(x, 204, {}, TRUE)
          /\ UNCHANGED <<expiring, minted, asked>>

handleExec(x) ==
    /\ At(x, "exec", "loaded")
    /\ \/ Refuse(x, 500)
       \/ Reply(x, 200, {}, FALSE) /\ UNCHANGED dbVars

(* seen of the clients whose command is under way, after a step of kpd.    *)
Witness ==
    seen' = [k \in Clients |-> IF call[k].pc \in {"idle", "done"} THEN seen[k]
                               ELSE seen[k] \cup {<<id, rows'[id]>> : id \in Ids}]

Serve(x) ==
    /\ \/ authMiddleware(x) \/ handleCreate(x) \/ handleGet(x) \/ handleList(x)
       \/ Load(x) \/ handleStop(x) \/ handleDelete(x) \/ handleExec(x)
    /\ Witness
    /\ UNCHANGED call

(* The reaper deletes a sandbox that has an expiry.                        *)
Reap(id) ==
    /\ id \in expiring /\ rows[id] # "absent"
    /\ rows' = [rows EXCEPT ![id] = "absent"]
    /\ Witness
    /\ UNCHANGED <<expiring, minted, asked, call, req>>

-----------------------------------------------------------------------------
(* The client.                                                             *)

(* The operation each command begins with.  run goes on with WaitFor,      *)
(* create (kp run --wait=false) does not, wait is WaitFor on its own,      *)
(* watchOne and watchAll poll until they fail.                             *)
FirstOp == [run |-> "create", create |-> "create", rm |-> "delete", stop |-> "stop",
            exec |-> "exec", inspect |-> "get", wait |-> "get", watchOne |-> "get", ls |-> "list",
            watchAll |-> "list"]
(* What can be wrong with a request: the token, an image or profile that   *)
(* the policy does not have, no image and no profile, no command to run.   *)
Inputs(cmd) == {"good", "noToken"} \cup CASE FirstOp[cmd] = "create" -> {"denied", "empty"}
                                         [] cmd = "exec" -> {"empty"}
                                         [] OTHER -> {}

Begin(k, cmd, id, target, input, ttl) ==
    /\ call[k].pc = "idle"
    /\ FirstOp[cmd] \in {"create", "list"} <=> id = NoId
    /\ cmd = "wait" => target \in {"running", "stopped"}
    /\ cmd # "wait" => target = IF cmd = "run" THEN "running" ELSE "none"
    /\ input \in Inputs(cmd)
    /\ call' = [call EXCEPT ![k] = [NoCall EXCEPT !.pc = "sent", !.cmd = cmd, !.id = id,
                                                  !.target = target]]
    /\ req' = [req EXCEPT ![k] = NewRequest(FirstOp[cmd], id, input, ttl)]
    /\ seen' = [seen EXCEPT ![k] = Table]
    /\ UNCHANGED dbVars

(* classifyError; both of handleCreate's refusals mention the policy or a  *)
(* profile.                                                                *)
classifyError(status, op) ==
    CASE status = 404 -> "ErrNotFound"
      [] status \in {401, 403} -> "ErrUnauthorized"
      [] status = 400 -> IF op = "create" THEN "ErrPolicyDenied" ELSE "ErrBadRequest"
      [] OTHER -> "error"

(* Mutant of do: a 404 is taken for success.                               *)
doIgnoresMissing(q) ==
    IF q.status >= 400 /\ q.status # 404 THEN classifyError(q.status, q.op) ELSE "ok"

(* do: the error of a request, or "ok".                                    *)
do(q) == IF q.status >= 400 THEN classifyError(q.status, q.op) ELSE "ok"

(* Mutant of isTerminalState: error is not terminal.                       *)
isRemoved(s) == s = "removed"

isTerminalState(s) == s \in {"removed", "error"}

Return(k, kind) == call' = [call EXCEPT ![k].pc = "done", ![k].kind = kind]
Sleep(k)        == call' = [call EXCEPT ![k].pc = "tick"]

(* WaitFor: the state a Get returned is the target, or a terminal one, or  *)
(* it polls again.                                                         *)
WaitFor(k, s) ==
    \/ s = call[k].target /\ Return(k, "ok")
    \/ s # call[k].target /\ isTerminalState(s) /\ Return(k, "error")
    \/ s # call[k].target /\ ~isTerminalState(s) /\ Sleep(k)

(* Mutant of Shown: ids that are gone stay in prev.                        *)
ShownKeeps(k, view) ==
    [id \in Ids |-> IF \E e \in view : e[1] = id THEN (CHOOSE e \in view : e[1] = id)[2]
                    ELSE call[k].prev[id]]

(* What watchOne and watchAll have printed last for each id; watchAll      *)
(* prints that an id is gone, and forgets it.                              *)
Shown(k, view) ==
    [id \in Ids |-> IF \E e \in view : e[1] = id THEN (CHOOSE e \in view : e[1] = id)[2]
                    ELSE "absent"]

(* The answer arrives.  A command that polls goes on; the others return.   *)
Receive(k) ==
    LET c == call[k]
        q == req[k]
    IN  /\ c.pc = "sent" /\ q.st = "answered"
        /\ \/ do(q) # "ok" /\ Return(k, do(q))
           \/ /\ do(q) = "ok" /\ c.cmd = "run" /\ q.op = "create" \* WaitFor begins
              /\ \E e \in q.view : call' = [call EXCEPT ![k].pc = "tick", ![k].id = e[1]]
           \/ /\ do(q) = "ok" /\ c.cmd \in {"run", "wait"} /\ q.op = "get"
              /\ \E e \in q.view : WaitFor(k, e[2])
           \/ /\ do(q) = "ok" /\ c.cmd \in {"watchOne", "watchAll"}
              /\ call' = [call EXCEPT ![k].pc = "tick", ![k].prev = Shown(k, q.view)]
           \/ /\ do(q) = "ok" /\ c.cmd \in {"create", "rm", "stop", "exec", "inspect", "ls"}
              /\ Return(k, "ok")
        /\ req' = IF call'[k].pc = "tick" THEN [req EXCEPT ![k] = NoReq] ELSE req
        /\ UNCHANGED <<dbVars, seen>>

(* The ticker of a polling command fires.                                  *)
Poll(k) ==
    LET op == IF call[k].cmd = "watchAll" THEN "list" ELSE "get"
    IN  /\ call[k].pc = "tick"
        /\ call' = [call EXCEPT ![k].pc = "sent"]
        /\ req' = [req EXCEPT ![k] = NewRequest(op, call[k].id, "good", 0)]
        /\ UNCHANGED <<dbVars, seen>>

(* The timeout of the HTTP client or of kp run, or Ctrl-C: a request that  *)
(* is not answered yet goes on without its client, which matters if it     *)
(* writes: it is then one of the others.                                   *)
GiveUp(k) ==
    /\ call[k].pc \in {"sent", "tick"}
    /\ IF req[k].st \in {"none", "answered"} \/ req[k].op \in {"get", "list", "exec"}
       THEN req' = [req EXCEPT ![k] = NoReq]
       ELSE \E x \in Others : /\ req[x] = NoReq
                              /\ req' = [req EXCEPT ![x] = req[k], ![k] = NoReq]
    /\ Return(k, "interrupted")
    /\ UNCHANGED <<dbVars, seen>>

(* A request of another client that changes the table.                     *)
Elsewhere(x, op, id, ttl) ==
    /\ req[x] = NoReq
    /\ op = "create" <=> id = NoId
    /\ req' = [req EXCEPT ![x] = NewRequest(op, id, "good", ttl)]
    /\ UNCHANGED <<dbVars, call, seen>>

(* The command ends and its outcome has been seen.                         *)
End(k) ==
    /\ call[k].pc = "done"
    /\ call' = [call EXCEPT ![k] = NoCall] /\ req' = [req EXCEPT ![k] = NoReq]
    /\ seen' = [seen EXCEPT ![k] = {}]
    /\ UNCHANGED dbVars

Proceed(k) == Serve(k) \/ Receive(k) \/ Poll(k) \/ End(k)

Next ==
    \/ \E k \in Clients : Proceed(k) \/ GiveUp(k)
    \/ \E k \in Clients, cmd \in DOMAIN FirstOp, id \in Ids \cup {NoId},
          target \in {"none", "running", "stopped"},
          input \in {"good", "noToken", "denied", "empty"}, ttl \in TTLs :
             Begin(k, cmd, id, target, input, ttl)
    \/ \E x \in Others : Serve(x)
    \/ \E x \in Others, op \in {"create", "stop", "delete"}, id \in Ids \cup {NoId},
          ttl \in TTLs : Elsewhere(x, op, id, ttl)
    \/ \E id \in Ids : Reap(id)

(* kpd answers, answers arrive, and tickers fire.                          *)
Spec == Init /\ [][Next]_vars /\ \A k \in Clients : WF_vars(Proceed(k))

-----------------------------------------------------------------------------
Done(k, kind) == call[k].pc = "done" /\ call[k].kind = kind
Saw(k, s) == <<call[k].id, s>> \in seen[k]

(* What a command reports was true at some moment between its start and    *)
(* its end, whatever other clients, late requests and the reaper did: an   *)
(* exit 0 of rm that the sandbox was gone, of stop that it was stopped, of *)
(* exec, run and wait that it was in the state they need; every state that *)
(* is printed; and ErrNotFound.  A command that was refused has changed    *)
(* nothing.                                                                *)
AnswersAreTrue ==
    \A k \in Clients :
        LET c == call[k]
        IN  /\ Done(k, "ok") =>
                  /\ c.cmd = "rm" => Saw(k, "absent")
                  /\ c.cmd = "stop" => Saw(k, "stopped")
                  /\ c.cmd = "exec" => Saw(k, "running")
                  /\ c.cmd \in {"run", "wait"} => Saw(k, c.target)
                  /\ req[k].view \subseteq seen[k]
            /\ \A id \in Ids : c.prev[id] # "absent" => <<id, c.prev[id]>> \in seen[k]
            /\ Done(k, "ErrNotFound") => Saw(k, "absent")
            /\ (\E kind \in {"ErrUnauthorized", "ErrPolicyDenied", "ErrBadRequest"} :
                     Done(k, kind)) => ~req[k].wrote

Active(k) == call[k].pc \in {"sent", "tick"}
Waits(k, id) == Active(k) /\ call[k].target # "none" /\ call[k].id = id

(* WaitFor does not wait for ever on a sandbox that has reached the target,*)
(* has failed, or is gone.                                                 *)
WaitEnds ==
    \A k \in Clients, id \in Ids :
        ~<>[](Waits(k, id) /\ rows[id] \in {"absent", "error", call[k].target})

Watches(k, id) ==
    Active(k) /\ (call[k].cmd = "watchAll" \/ (call[k].cmd = "watchOne" /\ call[k].id = id))

(* kp watch does not show a state for ever that the sandbox has left for   *)
(* good, a sandbox that is gone included.                                  *)
WatchCatchesUp ==
    \A k \in Clients, id \in Ids :
        ~<>[](Watches(k, id) /\ rows[id] # call[k].prev[id])

(* "auto-delete after this duration" (--ttl of kp run): a sandbox that was *)
(* asked for with a TTL has an expiry.                                     *)
TTLIsKept == asked \subseteq expiring
=============================================================================
