---------------------------- MODULE ClientProofs -----------------------------
(***************************************************************************)
(* What a command of the CLI or a call of the SDK reports was true while   *)
(* it ran, for any number of sandboxes, clients and requests of others     *)
(* under way.                                                              *)
(***************************************************************************)
EXTENDS Client, TLAPS

-----------------------------------------------------------------------------
(* The inductive invariant.                                                *)

States == {"absent", "running", "error", "stopped"}
Statuses == {200, 201, 204, 400, 401, 404, 500}
OneSandbox == {"get", "stop", "delete", "exec"}
Requests ==
    [op : OneSandbox \cup {"create", "list"}, id : Ids \cup {NoId},
     input : {"good", "noToken", "denied", "empty"}, ttl : Nat, auth : BOOLEAN,
     st : {"new", "loaded", "answered"}, status : Statuses \cup {0},
     view : SUBSET (Ids \X States), wrote : BOOLEAN]
Calls ==
    [pc : {"idle", "sent", "tick", "done"}, cmd : DOMAIN FirstOp \cup {"none"},
     id : Ids \cup {NoId}, target : {"none", "running", "stopped"}, prev : [Ids -> States],
     kind : {"none", "ok", "error", "interrupted", "ErrNotFound", "ErrUnauthorized",
             "ErrPolicyDenied", "ErrBadRequest"}]

Types ==
    /\ rows \in [Ids -> States]
    /\ req \in [Slots -> Requests \cup {NoReq}]
    /\ call \in [Clients -> Calls]
    /\ seen \in [Clients -> SUBSET (Ids \X States)]
    /\ \A x \in Slots : req[x].op \in OneSandbox => req[x].id \in Ids

(* Where a command is tells whether it has a request at the server.        *)
InStep(k) ==
    /\ call[k].pc \in {"idle", "tick"} => req[k] = NoReq
    /\ call[k].pc = "sent" => req[k] # NoReq
    /\ call[k].pc = "done" => req[k] = NoReq \/ req[k].st = "answered"
    /\ call[k].pc = "done" /\ call[k].kind # "interrupted" => req[k] # NoReq

(* The request a command has at the server is one that it sends.           *)
RequestIsOfCall(k) ==
    req[k] # NoReq =>
        /\ call[k].cmd \in DOMAIN FirstOp
        /\ \/ req[k].op = FirstOp[call[k].cmd]
           \/ call[k].cmd = "run" /\ req[k].op = "get"
        /\ req[k].op \in OneSandbox => req[k].id = call[k].id
        /\ req[k].st = "loaded" => req[k].op \in {"stop", "delete", "exec"}

(* A command that polls knows the sandbox it polls for.                    *)
PollHasId(k) ==
    call[k].pc = "tick" =>
        /\ call[k].cmd \in {"run", "wait", "watchOne", "watchAll"}
        /\ call[k].cmd # "watchAll" => call[k].id \in Ids

(* What the handler found out so far held during the command.              *)
ServerIsTrue(k) ==
    LET q == req[k]
    IN  /\ call[k].pc \in {"sent", "tick"} => Table \subseteq seen[k]
        /\ q # NoReq /\ q.st = "loaded" /\ q.op = "exec" => <<q.id, "running">> \in seen[k]
        /\ q # NoReq /\ q.st = "answered" =>
              /\ q.view \subseteq seen[k]
              /\ q.op = "get" => q.view \subseteq {q.id} \X States
              /\ q.status = 404 => q.op \in OneSandbox /\ <<q.id, "absent">> \in seen[k]
              /\ q.status \in {400, 401} => ~q.wrote
              /\ q.status < 400 =>
                    /\ q.op = "delete" => <<q.id, "absent">> \in seen[k]
                    /\ q.op = "stop" => <<q.id, "stopped">> \in seen[k]
                    /\ q.op = "exec" => <<q.id, "running">> \in seen[k]

(* What has been printed, and what is reported, is true (AnswersAreTrue).  *)
PrintedIsTrue(k) ==
    \A id \in Ids : call[k].prev[id] # "absent" => <<id, call[k].prev[id]>> \in seen[k]
ReportIsTrue(k) ==
    /\ Done(k, "ok") =>
          /\ call[k].cmd = "rm" => Saw(k, "absent")
          /\ call[k].cmd = "stop" => Saw(k, "stopped")
          /\ call[k].cmd = "exec" => Saw(k, "running")
          /\ call[k].cmd \in {"run", "wait"} => Saw(k, call[k].target)
          /\ req[k].view \subseteq seen[k]
    /\ Done(k, "ErrNotFound") => Saw(k, "absent")
    /\ (\E kind \in {"ErrUnauthorized", "ErrPolicyDenied", "ErrBadRequest"} : Done(k, kind))
          => ~req[k].wrote

OneClient(k) ==
    /\ InStep(k) /\ RequestIsOfCall(k) /\ PollHasId(k)
    /\ ServerIsTrue(k) /\ PrintedIsTrue(k) /\ ReportIsTrue(k)

IInv == Types /\ \A k \in Clients : OneClient(k)

-----------------------------------------------------------------------------
(* What an answer says is true of the table the handler leaves.            *)
Honest(x, status, view, wrote) ==
    /\ \A id \in Ids, s \in States : <<id, s>> \in view => rows'[id] = s
    /\ req[x].op = "get" => view \subseteq {req[x].id} \X States
    /\ status = 404 => req[x].op \in OneSandbox /\ rows'[req[x].id] = "absent"
    /\ status \in {400, 401} => ~wrote
    /\ status < 400 =>
          /\ req[x].op = "delete" => rows'[req[x].id] = "absent"
          /\ req[x].op = "stop" => rows'[req[x].id] = "stopped"
          /\ req[x].op = "exec" => req[x].st = "loaded"
Answers(x) ==
    \E status \in Statuses, view \in SUBSET (Ids \X States), wrote \in BOOLEAN :
        Reply(x, status, view, wrote) /\ Honest(x, status, view, wrote)

(* A request passes Load.                                                  *)
Loads(x) ==
    /\ req[x].op \in {"stop", "delete", "exec"}
    /\ req[x].op = "exec" => rows'[req[x].id] = "running"
    /\ req' = [req EXCEPT ![x].st = "loaded"]

(* The handlers, one after the other.                                      *)
LEMMA HandlerFacts ==
    ASSUME Types, NEW x \in Slots, Serve(x)
    PROVE  /\ req[x] \in Requests /\ req[x].st # "answered"
           /\ rows' \in [Ids -> States] /\ (Answers(x) \/ Loads(x))
<1>1. req[x] \in Requests /\ req[x].st # "answered"
  <2>1. req[x].st = "new" \/ req[x].st = "loaded"
    BY Zenon DEF Serve, authMiddleware, handleCreate, handleGet, handleList, Load,
                 handleStop, handleDelete, handleExec, At
  <2>2. req[x] # NoReq
    BY <2>1 DEF NoReq
  <2> QED
    BY <2>1, <2>2 DEF Types
<1> SUFFICES rows' \in [Ids -> States] /\ (Answers(x) \/ Loads(x))
  BY <1>1
<1>2. rows \in [Ids -> States] /\ (req[x].op \in OneSandbox => req[x].id \in Ids)
  BY DEF Types
<1>e. {} \in SUBSET (Ids \X States) /\ TRUE \in BOOLEAN /\ FALSE \in BOOLEAN
  OBVIOUS
<1>s. 200 \in Statuses /\ 201 \in Statuses /\ 204 \in Statuses /\ 404 \in Statuses
  BY DEF Statuses
<1>3. ASSUME NEW status \in {400, 401, 500}, Refuse(x, status)
      PROVE  rows' \in [Ids -> States] /\ Answers(x)
  <2>1. Honest(x, status, {}, FALSE) /\ status \in Statuses
    BY DEF Honest, Statuses
  <2> QED
    BY <1>2, <1>3, <1>e, <2>1, ZenonT(30) DEF Refuse, Answers, dbVars
<1>4. ASSUME Refuse(x, 404), req[x].op \in OneSandbox, Row(x) = "absent"
      PROVE  rows' \in [Ids -> States] /\ Answers(x)
  <2>1. Honest(x, 404, {}, FALSE)
    BY <1>4 DEF Honest, Refuse, dbVars, Row
  <2> QED
    BY <1>2, <1>4, <1>e, <1>s, <2>1, ZenonT(30) DEF Refuse, Answers, dbVars
<1>5. CASE authMiddleware(x)
  BY <1>3, <1>5 DEF authMiddleware
<1>6. CASE handleCreate(x)
  <2>1. CASE Refuse(x, 400) \/ Refuse(x, 500)
    BY <1>3, <2>1
  <2>2. ASSUME NEW id \in Ids, NEW s \in {"running", "error"},
               rows' = [rows EXCEPT ![id] = s],
               IF s = "running" THEN Reply(x, 201, {<<id, s>>}, TRUE)
                                ELSE Reply(x, 500, {}, TRUE)
        PROVE  rows' \in [Ids -> States] /\ Answers(x)
    <3>1. rows' \in [Ids -> States] /\ rows'[id] = s /\ req[x].op = "create"
      BY <1>2, <1>6, <2>2 DEF States, handleCreate, At
    <3>2. CASE s = "running"
      <4>1. {<<id, s>>} \in SUBSET (Ids \X States)
        BY <3>2 DEF States
      <4>2. Honest(x, 201, {<<id, s>>}, TRUE)
        BY <3>1 DEF Honest
      <4> QED
        BY <1>e, <1>s, <2>2, <3>1, <3>2, <4>1, <4>2 DEF Answers
    <3>3. CASE s # "running"
      <4>1. Honest(x, 500, {}, TRUE) /\ 500 \in Statuses
        BY DEF Honest, Statuses
      <4> QED
        BY <1>e, <2>2, <3>1, <3>3, <4>1, ZenonT(30) DEF Answers
    <3> QED
      BY <3>2, <3>3
  <2> DEFINE Made(id, s) ==
               /\ rows' = [rows EXCEPT ![id] = s]
               /\ IF s = "running" THEN Reply(x, 201, {<<id, s>>}, TRUE)
                                   ELSE Reply(x, 500, {}, TRUE)
  <2>3. \A id \in Ids, s \in {"running", "error"} :
           Made(id, s) => rows' \in [Ids -> States] /\ Answers(x)
    BY <2>2, Zenon
  <2>4. \/ Refuse(x, 400) \/ Refuse(x, 500)
        \/ \E id \in Ids, s \in {"running", "error"} : Made(id, s)
    BY <1>6, ZenonT(40) DEF handleCreate
  <2> HIDE DEF Made
  <2> QED
    BY <2>1, <2>3, <2>4
<1>7. CASE handleGet(x)
  <2>o. req[x].op = "get" /\ req[x].id \in Ids
    BY <1>2, <1>7 DEF handleGet, At, OneSandbox
  <2>1. CASE Refuse(x, 500)
    BY <1>3, <2>1
  <2>2. CASE Row(x) = "absent" /\ Refuse(x, 404)
    BY <1>4, <2>2, <2>o DEF OneSandbox
  <2>3. CASE Reply(x, 200, {<<req[x].id, Row(x)>>}, FALSE) /\ UNCHANGED dbVars
    <3>1. rows' = rows /\ Row(x) = rows[req[x].id] /\ Row(x) \in States
      BY <1>2, <2>3, <2>o DEF dbVars, Row
    <3>2. {<<req[x].id, Row(x)>>} \in SUBSET (Ids \X States)
      BY <2>o, <3>1
    <3>3. Honest(x, 200, {<<req[x].id, Row(x)>>}, FALSE)
      BY <2>o, <3>1 DEF Honest
    <3> QED
      BY <1>2, <1>e, <1>s, <2>3, <3>1, <3>2, <3>3, ZenonT(30) DEF Answers
  <2> QED
    BY <1>7, <2>1, <2>2, <2>3 DEF handleGet
<1>8. CASE handleList(x)
  <2>1. CASE Refuse(x, 500)
    BY <1>3, <2>1
  <2>2. CASE Reply(x, 200, {e \in Table : e[2] # "absent"}, FALSE) /\ UNCHANGED dbVars
    <3> DEFINE v == {e \in Table : e[2] # "absent"}
    <3>1. rows' = rows /\ req[x].op = "list"
      BY <1>8, <2>2 DEF dbVars, handleList, At
    <3>2. v \in SUBSET (Ids \X States)
      BY <1>2 DEF Table
    <3>3. \A id \in Ids, s \in States : <<id, s>> \in v => rows'[id] = s
      BY <3>1 DEF Table
    <3> HIDE DEF v
    <3>4. Reply(x, 200, v, FALSE)
      BY <2>2 DEF v
    <3>5. Honest(x, 200, v, FALSE)
      BY <3>1, <3>3 DEF Honest
    <3> QED
      BY <1>2, <1>e, <1>s, <3>1, <3>2, <3>4, <3>5 DEF Answers
  <2> QED
    BY <1>8, <2>1, <2>2 DEF handleList
<1>9. CASE Load(x)
  <2>1. CASE Refuse(x, 400) \/ Refuse(x, 500)
    BY <1>3, <2>1
  <2>2. CASE Row(x) = "absent" /\ Refuse(x, 404)
    BY <1>4, <1>9, <2>2 DEF Load, OneSandbox
  <2>3. CASE /\ req[x].op = "exec" => Row(x) = "running"
             /\ req' = [req EXCEPT ![x].st = "loaded"] /\ UNCHANGED dbVars
    BY <1>2, <1>9, <2>3 DEF Load, Loads, dbVars, Row
  <2> QED
    BY <1>9, <2>1, <2>2, <2>3 DEF Load
<1>10. CASE handleStop(x)
  <2>1. CASE Refuse(x, 500)
    BY <1>3, <2>1
  <2>2. CASE rows' = [rows EXCEPT ![req[x].id] = "stopped"] /\ Reply(x, 204, {}, TRUE)
    <3>1. /\ req[x].op = "stop" /\ rows' \in [Ids -> States]
          /\ rows'[req[x].id] = "stopped"
      BY <1>2, <1>10, <2>2 DEF States, handleStop, At, OneSandbox
    <3>2. Honest(x, 204, {}, TRUE)
      BY <3>1 DEF Honest
    <3> QED
      BY <1>e, <1>s, <2>2, <3>1, <3>2 DEF Answers
  <2> QED
    BY <1>10, <2>1, <2>2 DEF handleStop
<1>11. CASE handleDelete(x)
  <2>1. CASE Refuse(x, 500)
    BY <1>3, <2>1
  <2>2. CASE Row(x) = "absent" /\ Refuse(x, 404)
    BY <1>4, <1>11, <2>2 DEF handleDelete, At, OneSandbox
  <2>3. CASE rows' = [rows EXCEPT ![req[x].id] = "absent"] /\ Reply(x, 204, {}, TRUE)
    <3>1. /\ req[x].op = "delete" /\ rows' \in [Ids -> States]
          /\ rows'[req[x].id] = "absent"
      BY <1>2, <1>11, <2>3 DEF States, handleDelete, At, OneSandbox
    <3>2. Honest(x, 204, {}, TRUE)
      BY <3>1 DEF Honest
    <3> QED
      BY <1>e, <1>s, <2>3, <3>1, <3>2 DEF Answers
  <2> QED
    BY <1>11, <2>1, <2>2, <2>3 DEF handleDelete
<1>12. CASE handleExec(x)
  <2>1. CASE Refuse(x, 500)
    BY <1>3, <2>1
  <2>2. CASE Reply(x, 200, {}, FALSE) /\ UNCHANGED dbVars
    <3>1. Honest(x, 200, {}, FALSE)
      BY <1>12 DEF Honest, handleExec, At
    <3> QED
      BY <1>2, <1>e, <1>s, <2>2, <3>1 DEF Answers, dbVars
  <2> QED
    BY <1>12, <2>1, <2>2 DEF handleExec
<1> QED
  BY <1>5, <1>6, <1>7, <1>8, <1>9, <1>10, <1>11, <1>12 DEF Serve

-----------------------------------------------------------------------------
(* A step that leaves a client's command and request alone, and lets it    *)
(* see more, keeps what is known of it.                                    *)
LEMMA Undisturbed ==
    ASSUME NEW k \in Clients, OneClient(k), call'[k] = call[k], req'[k] = req[k],
           seen[k] \subseteq seen'[k],
           call[k].pc \in {"sent", "tick"} => Table' \subseteq seen'[k]
    PROVE  OneClient(k)'
<1>1. InStep(k)' /\ RequestIsOfCall(k)' /\ PollHasId(k)'
  BY DEF OneClient, InStep, RequestIsOfCall, PollHasId
<1>2. ServerIsTrue(k)'
  BY DEF OneClient, ServerIsTrue
<1>3. PrintedIsTrue(k)'
  BY DEF OneClient, PrintedIsTrue
<1>4. ReportIsTrue(k)'
  BY DEF OneClient, ReportIsTrue, Done, Saw
<1> QED
  BY <1>1, <1>2, <1>3, <1>4 DEF OneClient

(* A command under way sees the table after each step of kpd.              *)
LEMMA WitnessFacts ==
    ASSUME Types, rows' \in [Ids -> States], Witness
    PROVE  /\ seen' \in [Clients -> SUBSET (Ids \X States)]
           /\ \A k \in Clients :
                 /\ seen[k] \subseteq seen'[k]
                 /\ call[k].pc \in {"sent", "tick"} =>
                       Table' \subseteq seen'[k] /\ \A id \in Ids : <<id, rows'[id]>> \in seen'[k]
<1>1. {<<id, rows'[id]>> : id \in Ids} \in SUBSET (Ids \X States)
  OBVIOUS
<1>2. Table' = {<<id, rows'[id]>> : id \in Ids}
  BY DEF Table
<1>3. \A k \in Clients : seen[k] \in SUBSET (Ids \X States)
  BY DEF Types
<1>4. \A k \in Clients : call[k].pc \in {"sent", "tick"} => call[k].pc \notin {"idle", "done"}
  OBVIOUS
<1> DEFINE T == {<<id, rows'[id]>> : id \in Ids}
<1>5. \A id \in Ids : <<id, rows'[id]>> \in T
  OBVIOUS
<1> HIDE DEF T
<1>6. seen' = [k \in Clients |-> IF call[k].pc \in {"idle", "done"} THEN seen[k] ELSE seen[k] \cup T]
  BY DEF Witness, T
<1>7. seen' \in [Clients -> SUBSET (Ids \X States)]
  BY <1>1, <1>3, <1>6 DEF T
<1>8. \A k \in Clients : seen[k] \subseteq seen'[k]
  BY <1>6
<1>9. \A k \in Clients : call[k].pc \in {"sent", "tick"} => T \subseteq seen'[k]
  BY <1>4, <1>6
<1> QED
  BY <1>2, <1>5, <1>7, <1>8, <1>9 DEF T

LEMMA InitIInv == Init => IInv
<1> SUFFICES ASSUME Init PROVE IInv
  OBVIOUS
<1>1. NoCall \in Calls
  BY DEF NoCall, Calls, States
<1>2. Types
  BY <1>1 DEF Init, Types, States, NoReq, OneSandbox
<1>3. ASSUME NEW k \in Clients PROVE OneClient(k)
  <2>1. call[k] = NoCall /\ req[k] = NoReq
    BY DEF Init, Slots
  <2> QED
    BY <2>1 DEF OneClient, InStep, RequestIsOfCall, PollHasId, ServerIsTrue, PrintedIsTrue,
                ReportIsTrue, Done, Saw, NoCall
<1> QED
  BY <1>2, <1>3 DEF IInv

(* A step of a handler: the answer to a client is true, and the others see *)
(* the table change.                                                       *)
LEMMA ServeIInv ==
    ASSUME IInv, NEW x \in Slots, Serve(x)
    PROVE  IInv'
<1>t. Types /\ \A k \in Clients : OneClient(k)
  BY DEF IInv
<1>1. /\ req[x] \in Requests /\ req[x].st # "answered"
      /\ rows' \in [Ids -> States] /\ (Answers(x) \/ Loads(x))
  BY <1>t, HandlerFacts
<1>2. /\ seen' \in [Clients -> SUBSET (Ids \X States)]
      /\ \A k \in Clients :
            /\ seen[k] \subseteq seen'[k]
            /\ call[k].pc \in {"sent", "tick"} =>
                  Table' \subseteq seen'[k] /\ \A id \in Ids : <<id, rows'[id]>> \in seen'[k]
  BY <1>t, <1>1, WitnessFacts DEF Serve
<1>c. call' = call
  BY DEF Serve
<1>r. req[x].op # "none" /\ req[x] # NoReq
  BY <1>1 DEF Requests, NoReq, OneSandbox
<1>3. ASSUME NEW k \in Clients, req'[k] = req[k] PROVE OneClient(k)'
  BY <1>2, <1>3, <1>c, <1>t, Undisturbed
<1>p. ASSUME x \in Clients PROVE call[x].pc = "sent"
  BY <1>1, <1>p, <1>r, <1>t DEF OneClient, InStep, Types, Calls
<1>4. CASE Loads(x)
  <2>1. /\ req' \in [Slots -> Requests \cup {NoReq}]
        /\ \A y \in Slots : y # x => req'[y] = req[y]
        /\ req'[x] = [req[x] EXCEPT !.st = "loaded"] /\ req'[x] \in Requests
    BY <1>1, <1>4, <1>t DEF Loads, Types, Requests
  <2>2. /\ req'[x].op = req[x].op /\ req'[x].id = req[x].id /\ req'[x].st = "loaded"
        /\ req'[x] # NoReq
    BY <1>1, <1>r, <2>1 DEF Requests, NoReq
  <2>3. Types'
    BY <1>1, <1>2, <1>c, <1>t, <2>1, <2>2 DEF Types
  <2>4. ASSUME x \in Clients PROVE OneClient(x)'
    <3>1. OneClient(x) /\ call[x].pc = "sent"
      BY <1>p, <1>t, <2>4
    <3>2. InStep(x)' /\ PollHasId(x)' /\ ReportIsTrue(x)'
      BY <1>c, <2>2, <3>1 DEF InStep, PollHasId, ReportIsTrue, Done
    <3>3. RequestIsOfCall(x)'
      BY <1>4, <1>c, <1>r, <2>2, <3>1 DEF OneClient, RequestIsOfCall, Loads
    <3>4. PrintedIsTrue(x)'
      BY <1>2, <1>c, <2>4, <3>1 DEF OneClient, PrintedIsTrue
    <3>5. ServerIsTrue(x)'
      <4>1. Table' \subseteq seen'[x]
        BY <1>2, <2>4, <3>1
      <4>2. req[x].op = "exec" => <<req[x].id, "running">> \in seen'[x]
        BY <1>2, <1>4, <1>t, <2>4, <3>1 DEF Loads, Types, OneSandbox
      <4> QED
        BY <2>2, <4>1, <4>2 DEF ServerIsTrue
    <3> QED
      BY <3>2, <3>3, <3>4, <3>5 DEF OneClient
  <2> QED
    BY <1>3, <2>1, <2>3, <2>4 DEF IInv, Slots
<1>5. CASE Answers(x)
  <2>1. PICK status \in Statuses, view \in SUBSET (Ids \X States), wrote \in BOOLEAN :
           Reply(x, status, view, wrote) /\ Honest(x, status, view, wrote)
    BY <1>5 DEF Answers
  <2>2. /\ req' \in [Slots -> Requests \cup {NoReq}]
        /\ \A y \in Slots : y # x => req'[y] = req[y]
        /\ req'[x].op \in {req[x].op, "none"} /\ (req'[x].op # "none" => req'[x].id = req[x].id)
    <3>1. [req[x] EXCEPT !.st = "answered", !.status = status, !.view = view,
                         !.wrote = wrote] \in Requests
      BY <1>1 DEF Requests
    <3>2. req'[x] = NoReq \/ req'[x] = [req[x] EXCEPT !.st = "answered", !.status = status,
                                                      !.view = view, !.wrote = wrote]
      BY <1>t, <2>1 DEF Reply, Types
    <3>3. /\ DOMAIN req' = Slots /\ req' = [y \in Slots |-> req'[y]]
          /\ \A y \in Slots : y # x => req'[y] = req[y]
      BY <1>t, <2>1 DEF Reply, Types
    <3>4. req' \in [Slots -> Requests \cup {NoReq}]
      BY <1>t, <3>1, <3>2, <3>3 DEF Types
    <3>5. /\ req'[x].op \in {req[x].op, "none"}
          /\ req'[x].op # "none" => req'[x].id = req[x].id
      <4>1. CASE req'[x] = NoReq
        BY <4>1 DEF NoReq
      <4>2. CASE req'[x] # NoReq
        BY <1>1, <3>2, <4>2 DEF Requests
      <4> QED
        BY <4>1, <4>2
    <3> QED
      BY <3>3, <3>4, <3>5
  <2>3. Types'
    BY <1>1, <1>2, <1>c, <1>t, <2>2 DEF Types, OneSandbox
  <2>4. ASSUME x \in Clients PROVE OneClient(x)'
    <3>1. OneClient(x) /\ call[x].pc = "sent"
      BY <1>p, <1>t, <2>4
    <3>2. /\ req'[x].op = req[x].op /\ req'[x].id = req[x].id /\ req'[x].st = "answered"
          /\ req'[x].status = status /\ req'[x].view = view /\ req'[x].wrote = wrote
      BY <1>1, <1>t, <2>1, <2>4, ClientAssumption DEF Reply, Types, Requests, Slots
    <3>3. req'[x] # NoReq
      BY <3>2 DEF NoReq
    <3>4. InStep(x)' /\ PollHasId(x)' /\ ReportIsTrue(x)'
      BY <1>c, <3>1, <3>3 DEF InStep, PollHasId, ReportIsTrue, Done
    <3>5. RequestIsOfCall(x)'
      BY <1>c, <1>r, <3>1, <3>2 DEF OneClient, RequestIsOfCall
    <3>6. PrintedIsTrue(x)'
      BY <1>2, <1>c, <2>4, <3>1 DEF OneClient, PrintedIsTrue
    <3>7. Table' \subseteq seen'[x] /\ \A id \in Ids : <<id, rows'[id]>> \in seen'[x]
      BY <1>2, <2>4, <3>1
    <3>8. view \subseteq seen'[x]
      <4> SUFFICES ASSUME NEW e \in view PROVE e \in seen'[x]
        OBVIOUS
      <4>1. PICK id \in Ids, s \in States : e = <<id, s>>
        OBVIOUS
      <4>2. rows'[id] = s
        BY <2>1, <4>1 DEF Honest
      <4> QED
        BY <3>7, <4>1, <4>2
    <3>9. req[x].op \in OneSandbox => <<req[x].id, rows'[req[x].id]>> \in seen'[x]
      BY <1>t, <3>7 DEF Types
    <3>10. req[x].op = "exec" /\ req[x].st = "loaded" => <<req[x].id, "running">> \in seen'[x]
      BY <1>2, <1>r, <2>4, <3>1 DEF OneClient, ServerIsTrue
    <3>11. ServerIsTrue(x)'
      BY <2>1, <3>2, <3>7, <3>8, <3>9, <3>10 DEF ServerIsTrue, Honest, OneSandbox
    <3> QED
      BY <3>4, <3>5, <3>6, <3>11 DEF OneClient
  <2> QED
    BY <1>3, <2>2, <2>3, <2>4 DEF IInv, Slots
<1> QED
  BY <1>1, <1>4, <1>5

-----------------------------------------------------------------------------
(* A new request is a request.                                             *)
LEMMA NewRequestFacts ==
    ASSUME NEW op \in OneSandbox \cup {"create", "list"}, NEW id \in Ids \cup {NoId},
           NEW input \in {"good", "noToken", "denied", "empty"}, NEW ttl \in Nat
    PROVE  LET q == NewRequest(op, id, input, ttl)
           IN  q \in Requests /\ q # NoReq /\ q.op = op /\ q.id = id /\ q.st = "new"
BY DEF NewRequest, Requests, NoReq, OneSandbox

(* The answer arrives: what the command reports was true.                  *)
LEMMA ReceiveIInv ==
    ASSUME IInv, NEW k \in Clients, Receive(k)
    PROVE  IInv'
<1>t. Types /\ \A j \in Clients : OneClient(j)
  BY DEF IInv
<1>k. /\ call[k] \in Calls /\ call[k].pc = "sent" /\ req[k] \in Requests
      /\ req[k].st = "answered" /\ req[k] # NoReq /\ OneClient(k)
  BY <1>t DEF Types, Receive, Slots, NoReq
<1>u. rows' = rows /\ seen' = seen /\ Table' = Table
  BY DEF Receive, dbVars, Table
<1>s. /\ Table \subseteq seen[k] /\ req[k].view \subseteq seen[k]
      /\ req[k].op = "get" => req[k].view \subseteq {req[k].id} \X States
      /\ req[k].status = 404 => req[k].op \in OneSandbox /\ <<req[k].id, "absent">> \in seen[k]
      /\ req[k].status \in {400, 401} => ~req[k].wrote
      /\ req[k].status < 400 =>
            /\ req[k].op = "delete" => <<req[k].id, "absent">> \in seen[k]
            /\ req[k].op = "stop" => <<req[k].id, "stopped">> \in seen[k]
            /\ req[k].op = "exec" => <<req[k].id, "running">> \in seen[k]
  BY <1>k DEF OneClient, ServerIsTrue
<1>o. /\ call[k].cmd \in DOMAIN FirstOp
      /\ req[k].op = FirstOp[call[k].cmd] \/ (call[k].cmd = "run" /\ req[k].op = "get")
      /\ req[k].op \in OneSandbox => req[k].id = call[k].id /\ req[k].id \in Ids
  BY <1>k, <1>t DEF OneClient, RequestIsOfCall, Types, Slots
<1>d. /\ do(req[k]) = "ok" => req[k].status < 400
      /\ do(req[k]) = "ErrNotFound" => req[k].status = 404
      /\ do(req[k]) \in {"ErrUnauthorized", "ErrPolicyDenied", "ErrBadRequest"} =>
            req[k].status \in {400, 401}
      /\ do(req[k]) \in {"ok", "error", "ErrNotFound", "ErrUnauthorized", "ErrPolicyDenied",
                         "ErrBadRequest"}
  BY <1>k DEF do, classifyError, Requests, Statuses
<1>f. ASSUME NEW j \in Clients, j # k, call'[j] = call[j], req'[j] = req[j]
      PROVE  OneClient(j)'
  <2>1. call[j].pc \in {"sent", "tick"} => Table' \subseteq seen'[j]
    BY <1>t, <1>u DEF OneClient, ServerIsTrue
  <2> QED
    BY <1>f, <1>t, <1>u, <2>1, Undisturbed
(* The command ends, with its request as it is.                            *)
<1>1. ASSUME NEW kind \in {"ok", "error", "ErrNotFound", "ErrUnauthorized",
                           "ErrPolicyDenied", "ErrBadRequest"},
             Return(k, kind),
             kind = "ok" =>
                /\ do(req[k]) = "ok"
                /\ call[k].cmd \in {"run", "wait"} => <<call[k].id, call[k].target>> \in seen[k],
             kind \in {"ErrNotFound", "ErrUnauthorized", "ErrPolicyDenied", "ErrBadRequest"} =>
                kind = do(req[k])
      PROVE  IInv'
  <2>1. /\ call' = [call EXCEPT ![k] = [call[k] EXCEPT !.pc = "done", !.kind = kind]]
        /\ [call[k] EXCEPT !.pc = "done", !.kind = kind] \in Calls
    BY <1>1, <1>k DEF Return, Calls
  <2>2. /\ call'[k].pc = "done" /\ call'[k].kind = kind /\ call'[k].cmd = call[k].cmd
        /\ call'[k].id = call[k].id /\ call'[k].target = call[k].target
        /\ call'[k].prev = call[k].prev
        /\ \A j \in Clients : j # k => call'[j] = call[j]
    BY <1>k, <1>t, <2>1 DEF Types, Calls
  <2>3. req' = req
    BY <2>2 DEF Receive
  <2>4. Types'
    BY <1>t, <1>u, <2>1, <2>3 DEF Types
  <2>5. InStep(k)' /\ PollHasId(k)' /\ RequestIsOfCall(k)' /\ PrintedIsTrue(k)' /\ ServerIsTrue(k)'
    <3>1. InStep(k)' /\ PollHasId(k)'
      BY <1>k, <2>2, <2>3 DEF InStep, PollHasId
    <3>2. RequestIsOfCall(k)'
      BY <1>k, <2>2, <2>3 DEF RequestIsOfCall, OneClient
    <3>3. PrintedIsTrue(k)'
      BY <1>k, <1>u, <2>2 DEF PrintedIsTrue, OneClient
    <3>4. ServerIsTrue(k)'
      BY <1>k, <1>u, <2>2, <2>3 DEF ServerIsTrue, OneClient
    <3> QED
      BY <3>1, <3>2, <3>3, <3>4
  <2>6. ReportIsTrue(k)'
    <3>1. ASSUME kind = "ok"
          PROVE  /\ call[k].cmd = "rm" => Saw(k, "absent")
                 /\ call[k].cmd = "stop" => Saw(k, "stopped")
                 /\ call[k].cmd = "exec" => Saw(k, "running")
                 /\ call[k].cmd \in {"run", "wait"} => Saw(k, call[k].target)
      BY <1>1, <1>d, <1>o, <1>s, <3>1 DEF Saw, FirstOp, OneSandbox
    <3>2. kind = "ErrNotFound" => Saw(k, "absent")
      BY <1>1, <1>d, <1>o, <1>s DEF Saw
    <3>3. kind \in {"ErrUnauthorized", "ErrPolicyDenied", "ErrBadRequest"} => ~req[k].wrote
      BY <1>1, <1>d, <1>s
    <3> QED
      BY <1>s, <1>u, <2>2, <2>3, <3>1, <3>2, <3>3 DEF ReportIsTrue, Done, Saw
  <2> QED
    BY <1>f, <2>2, <2>3, <2>4, <2>5, <2>6 DEF IInv, OneClient
(* It goes on polling, without a request.                                  *)
<1>2. ASSUME NEW c \in Calls, call' = [call EXCEPT ![k] = c], c.pc = "tick",
             c.cmd = call[k].cmd, c.cmd \in {"run", "wait", "watchOne", "watchAll"},
             c.cmd # "watchAll" => c.id \in Ids,
             \A i \in Ids : c.prev[i] # "absent" => <<i, c.prev[i]>> \in seen[k]
      PROVE  IInv'
  <2>1. call'[k] = c /\ \A j \in Clients : j # k => call'[j] = call[j]
    BY <1>2, <1>t DEF Types
  <2>2. req' = [req EXCEPT ![k] = NoReq]
    BY <1>2, <2>1 DEF Receive
  <2>3. req'[k] = NoReq /\ \A y \in Slots : y # k => req'[y] = req[y]
    BY <1>t, <2>2 DEF Types, Slots
  <2>4. Types'
    BY <1>2, <1>t, <1>u, <2>2, <2>3 DEF Types, NoReq, OneSandbox
  <2>5. OneClient(k)'
    BY <1>2, <1>s, <1>u, <2>1, <2>3
       DEF OneClient, InStep, RequestIsOfCall, PollHasId, ServerIsTrue, PrintedIsTrue,
           ReportIsTrue, Done
  <2> QED
    BY <1>f, <2>1, <2>3, <2>4, <2>5 DEF IInv, Slots
<1>p. \A i \in Ids : call[k].prev[i] # "absent" => <<i, call[k].prev[i]>> \in seen[k]
  BY <1>k DEF OneClient, PrintedIsTrue
<1>v. req[k].view \in SUBSET (Ids \X States)
  BY <1>k DEF Requests
<1>3. CASE do(req[k]) # "ok" /\ Return(k, do(req[k]))
  BY <1>1, <1>3, <1>d
<1>4. ASSUME call[k].cmd = "run", NEW e \in req[k].view,
             call' = [call EXCEPT ![k].pc = "tick", ![k].id = e[1]]
      PROVE  IInv'
  <2> DEFINE c == [call[k] EXCEPT !.pc = "tick", !.id = e[1]]
  <2>1. e[1] \in Ids
    BY <1>4, <1>v
  <2>2. /\ c \in Calls /\ c.pc = "tick" /\ c.cmd = call[k].cmd /\ c.id = e[1]
        /\ c.prev = call[k].prev /\ call' = [call EXCEPT ![k] = c]
    BY <1>4, <1>k, <2>1 DEF Calls
  <2> HIDE DEF c
  <2> QED
    BY <1>2, <1>4, <1>p, <2>1, <2>2
<1>5. ASSUME do(req[k]) = "ok", call[k].cmd \in {"run", "wait"}, req[k].op = "get",
             NEW e \in req[k].view, WaitFor(k, e[2])
      PROVE  IInv'
  <2>1. <<call[k].id, e[2]>> \in seen[k] /\ call[k].id \in Ids
    <3>1. e = <<req[k].id, e[2]>>
      BY <1>5, <1>s
    <3> QED
      BY <1>5, <1>o, <1>s, <3>1 DEF OneSandbox
  <2>2. CASE e[2] = call[k].target /\ Return(k, "ok")
    BY <1>1, <1>5, <2>1, <2>2
  <2>3. CASE Return(k, "error")
    BY <1>1, <2>3
  <2>4. CASE Sleep(k)
    <3> DEFINE c == [call[k] EXCEPT !.pc = "tick"]
    <3>1. /\ c \in Calls /\ c.pc = "tick" /\ c.cmd = call[k].cmd /\ c.id = call[k].id
          /\ c.prev = call[k].prev /\ call' = [call EXCEPT ![k] = c]
      BY <1>k, <2>4 DEF Calls, Sleep
    <3> HIDE DEF c
    <3> QED
      BY <1>2, <1>5, <1>p, <2>1, <3>1
  <2> QED
    BY <1>5, <2>2, <2>3, <2>4 DEF WaitFor
<1>6. ASSUME call[k].cmd \in {"watchOne", "watchAll"},
             call' = [call EXCEPT ![k].pc = "tick", ![k].prev = Shown(k, req[k].view)]
      PROVE  IInv'
  <2> DEFINE p == Shown(k, req[k].view)
             c == [call[k] EXCEPT !.pc = "tick", !.prev = p]
  <2>1. ASSUME NEW id \in Ids
        PROVE  /\ p[id] \in States
               /\ p[id] # "absent" => <<id, p[id]>> \in seen[k]
    <3>1. CASE \E e \in req[k].view : e[1] = id
      <4> DEFINE d == CHOOSE e \in req[k].view : e[1] = id
      <4>1. d \in req[k].view /\ d[1] = id
        BY <3>1
      <4> HIDE DEF d
      <4>2. d = <<id, d[2]>> /\ d[2] \in States
        BY <1>v, <4>1
      <4>3. p[id] = d[2]
        BY <3>1 DEF Shown, d
      <4> QED
        BY <1>s, <4>1, <4>2, <4>3
    <3>2. CASE ~\E e \in req[k].view : e[1] = id
      BY <3>2 DEF Shown, States
    <3> QED
      BY <3>1, <3>2
  <2>2. p \in [Ids -> States]
    <3>1. p = [id \in Ids |-> p[id]]
      BY DEF Shown
    <3> HIDE DEF p
    <3> QED
      BY <2>1, <3>1
  <2> HIDE DEF p
  <2>3. /\ c \in Calls /\ c.pc = "tick" /\ c.cmd = call[k].cmd /\ c.id = call[k].id
        /\ c.prev = p /\ call' = [call EXCEPT ![k] = c]
    BY <1>6, <1>k, <2>2 DEF Calls, p
  <2>4. c.cmd # "watchAll" => c.id \in Ids
    BY <1>6, <1>o, <2>3 DEF FirstOp, OneSandbox
  <2> HIDE DEF c
  <2> QED
    BY <1>2, <1>6, <2>1, <2>3, <2>4
<1>7. CASE /\ do(req[k]) = "ok" /\ Return(k, "ok")
           /\ call[k].cmd \in {"create", "rm", "stop", "exec", "inspect", "ls"}
  BY <1>1, <1>7
<1> QED
  BY <1>3, <1>4, <1>5, <1>6, <1>7 DEF Receive

-----------------------------------------------------------------------------
LEMMA NextIInv == IInv /\ [Next]_vars => IInv'
<1> SUFFICES ASSUME IInv, [Next]_vars PROVE IInv'
  OBVIOUS
<1>t. Types /\ \A j \in Clients : OneClient(j)
  BY DEF IInv
<1>d. Clients \subseteq Slots /\ \A k \in Clients : k \notin Others
  BY ClientAssumption DEF Slots
<1>k. ASSUME NEW k \in Clients
      PROVE  /\ call[k] \in Calls /\ req[k] \in Requests \cup {NoReq}
             /\ call[k].pc \in {"sent", "tick"} => Table \subseteq seen[k]
  BY <1>t, <1>d DEF Types, OneClient, ServerIsTrue
(* A step of clients only.                                                 *)
<1>f. ASSUME UNCHANGED dbVars, NEW j \in Clients,
             call'[j] = call[j], req'[j] = req[j], seen'[j] = seen[j]
      PROVE  OneClient(j)'
  <2>1. Table' = Table
    BY <1>f DEF dbVars, Table
  <2> QED
    BY <1>f, <1>k, <1>t, <2>1, Undisturbed
<1>1. ASSUME NEW x \in Slots, Serve(x) PROVE IInv'
  BY <1>1, ServeIInv
<1>2. ASSUME NEW k \in Clients, Receive(k) PROVE IInv'
  BY <1>2, ReceiveIInv
<1>3. ASSUME NEW k \in Clients, Poll(k) PROVE IInv'
  <2> DEFINE op == IF call[k].cmd = "watchAll" THEN "list" ELSE "get"
             q == NewRequest(op, call[k].id, "good", 0)
             c == [call[k] EXCEPT !.pc = "sent"]
  <2>1. /\ OneClient(k) /\ call[k].pc = "tick" /\ req[k] = NoReq
        /\ call[k].cmd \in {"run", "wait", "watchOne", "watchAll"}
        /\ call[k].cmd # "watchAll" => call[k].id \in Ids
    BY <1>3, <1>t DEF Poll, OneClient, InStep, PollHasId
  <2>2. q \in Requests /\ q # NoReq /\ q.op = op /\ q.id = call[k].id /\ q.st = "new"
    <3>1. op \in OneSandbox \cup {"create", "list"} /\ call[k].id \in Ids \cup {NoId} /\ 0 \in Nat
      BY <1>k DEF OneSandbox, Calls
    <3> HIDE DEF op
    <3> QED
      BY <3>1, NewRequestFacts, SMTT(30)
  <2>3. /\ c \in Calls /\ c.pc = "sent" /\ c.cmd = call[k].cmd /\ c.id = call[k].id
        /\ c.prev = call[k].prev
    BY <1>k DEF Calls
  <2>4. call' = [call EXCEPT ![k] = c] /\ req' = [req EXCEPT ![k] = q]
        /\ UNCHANGED <<dbVars, seen>>
    BY <1>3 DEF Poll
  <2> HIDE DEF q, c
  <2>5. /\ call'[k] = c /\ req'[k] = q
        /\ \A j \in Clients : j # k => call'[j] = call[j]
        /\ \A y \in Slots : y # k => req'[y] = req[y]
    BY <1>d, <1>t, <2>4 DEF Types
  <2>6. Types'
    BY <1>d, <1>t, <2>1, <2>2, <2>3, <2>4, <2>5 DEF Types, dbVars, OneSandbox
  <2>7. InStep(k)' /\ PollHasId(k)' /\ ReportIsTrue(k)'
    BY <2>2, <2>3, <2>5 DEF InStep, PollHasId, ReportIsTrue, Done
  <2>8. RequestIsOfCall(k)'
    BY <2>1, <2>2, <2>3, <2>5 DEF RequestIsOfCall, FirstOp
  <2>9. ServerIsTrue(k)' /\ PrintedIsTrue(k)'
    <3>1. Table' = Table /\ Table \subseteq seen[k]
      BY <1>k, <2>1, <2>4 DEF dbVars, Table
    <3> QED
      BY <2>1, <2>2, <2>3, <2>4, <2>5, <3>1 DEF OneClient, ServerIsTrue, PrintedIsTrue
  <2> QED
    BY <1>d, <1>f, <2>4, <2>5, <2>6, <2>7, <2>8, <2>9 DEF IInv, OneClient
<1>4. ASSUME NEW k \in Clients, End(k) PROVE IInv'
  <2>1. /\ call' = [call EXCEPT ![k] = NoCall] /\ req' = [req EXCEPT ![k] = NoReq]
        /\ seen' = [seen EXCEPT ![k] = {}] /\ UNCHANGED dbVars
    BY <1>4 DEF End
  <2>2. /\ call'[k] = NoCall /\ req'[k] = NoReq /\ NoCall \in Calls
        /\ \A j \in Clients : j # k => call'[j] = call[j] /\ seen'[j] = seen[j]
        /\ \A y \in Slots : y # k => req'[y] = req[y]
    BY <1>d, <1>t, <2>1 DEF Types, NoCall, Calls, States
  <2>3. Types'
    BY <1>t, <2>1, <2>2 DEF Types, dbVars, NoReq, OneSandbox
  <2>4. OneClient(k)'
    BY <2>2 DEF OneClient, InStep, RequestIsOfCall, PollHasId, ServerIsTrue, PrintedIsTrue,
                ReportIsTrue, Done, NoCall
  <2> QED
    BY <1>d, <1>f, <2>1, <2>2, <2>3, <2>4 DEF IInv
<1>5. ASSUME NEW k \in Clients, GiveUp(k) PROVE IInv'
  <2> DEFINE c == [call[k] EXCEPT !.pc = "done", !.kind = "interrupted"]
  <2>1. /\ c \in Calls /\ c.pc = "done" /\ c.kind = "interrupted" /\ c.prev = call[k].prev
        /\ call' = [call EXCEPT ![k] = c] /\ UNCHANGED <<dbVars, seen>>
    BY <1>5, <1>k, ZenonT(30) DEF GiveUp, Return, Calls
  <2> HIDE DEF c
  <2>2. /\ req'[k] = NoReq /\ \A j \in Clients : j # k => req'[j] = req[j]
        /\ req' \in [Slots -> Requests \cup {NoReq}]
        /\ \A y \in Slots : \/ req'[y] \in {req[y], NoReq}
                            \/ req'[y] = req[k]
    <3>1. CASE req' = [req EXCEPT ![k] = NoReq]
      BY <1>d, <1>t, <3>1 DEF Types
    <3>2. CASE \E x \in Others : req' = [req EXCEPT ![x] = req[k], ![k] = NoReq]
      BY <1>d, <1>t, <3>2 DEF Types, Slots
    <3> QED
      BY <1>5, <3>1, <3>2 DEF GiveUp
  <2>3. call'[k] = c /\ \A j \in Clients : j # k => call'[j] = call[j]
    BY <1>t, <2>1 DEF Types
  <2>4. Types'
    BY <1>d, <1>t, <2>1, <2>2 DEF Types, dbVars, NoReq, OneSandbox
  <2>5. OneClient(k)'
    <3>1. InStep(k)' /\ RequestIsOfCall(k)' /\ PollHasId(k)' /\ ServerIsTrue(k)'
      BY <2>1, <2>2, <2>3 DEF InStep, RequestIsOfCall, PollHasId, ServerIsTrue
    <3>2. PrintedIsTrue(k)'
      BY <1>t, <2>1, <2>3 DEF OneClient, PrintedIsTrue
    <3>3. ReportIsTrue(k)'
      BY <2>1, <2>3 DEF ReportIsTrue, Done
    <3> QED
      BY <3>1, <3>2, <3>3 DEF OneClient
  <2> QED
    BY <1>f, <2>1, <2>2, <2>3, <2>4, <2>5 DEF IInv
<1>6. ASSUME NEW k \in Clients, NEW cmd \in DOMAIN FirstOp, NEW id \in Ids \cup {NoId},
             NEW target \in {"none", "running", "stopped"},
             NEW input \in {"good", "noToken", "denied", "empty"}, NEW ttl \in TTLs,
             Begin(k, cmd, id, target, input, ttl)
      PROVE  IInv'
  <2> DEFINE q == NewRequest(FirstOp[cmd], id, input, ttl)
             c == [NoCall EXCEPT !.pc = "sent", !.cmd = cmd, !.id = id, !.target = target]
  <2>1. q \in Requests /\ q # NoReq /\ q.op = FirstOp[cmd] /\ q.id = id /\ q.st = "new"
    <3>1. FirstOp[cmd] \in OneSandbox \cup {"create", "list"} /\ ttl \in Nat
      BY ClientAssumption DEF OneSandbox, FirstOp
    <3> QED
      BY <3>1, NewRequestFacts, SMTT(30)
  <2>2. FirstOp[cmd] \in OneSandbox => id \in Ids
    BY <1>6 DEF Begin, OneSandbox
  <2>3. /\ c \in Calls /\ c.pc = "sent" /\ c.cmd = cmd /\ c.id = id
        /\ c.prev = [i \in Ids |-> "absent"]
    BY DEF NoCall, Calls, States
  <2>4. /\ call' = [call EXCEPT ![k] = c] /\ req' = [req EXCEPT ![k] = q]
        /\ seen' = [seen EXCEPT ![k] = Table] /\ UNCHANGED dbVars
    BY <1>6 DEF Begin
  <2> HIDE DEF q, c
  <2>5. /\ call'[k] = c /\ req'[k] = q /\ seen'[k] = Table
        /\ \A j \in Clients : j # k => call'[j] = call[j] /\ seen'[j] = seen[j]
        /\ \A y \in Slots : y # k => req'[y] = req[y]
    BY <1>d, <1>t, <2>4 DEF Types
  <2>6. Types'
    <3>1. Table \in SUBSET (Ids \X States)
      BY <1>t DEF Types, Table
    <3> QED
      BY <1>t, <2>1, <2>2, <2>3, <2>4, <2>5, <3>1 DEF Types, dbVars
  <2>7. InStep(k)' /\ PollHasId(k)' /\ ReportIsTrue(k)'
    BY <2>1, <2>3, <2>5 DEF InStep, PollHasId, ReportIsTrue, Done
  <2>8. RequestIsOfCall(k)' /\ PrintedIsTrue(k)'
    BY <2>1, <2>3, <2>5 DEF RequestIsOfCall, PrintedIsTrue
  <2>9. ServerIsTrue(k)'
    <3>1. Table' = Table
      BY <2>4 DEF dbVars, Table
    <3> QED
      BY <2>1, <2>5, <3>1 DEF ServerIsTrue
  <2> QED
    BY <1>d, <1>f, <2>4, <2>5, <2>6, <2>7, <2>8, <2>9 DEF IInv, OneClient
<1>7. ASSUME NEW x \in Others, NEW op \in {"create", "stop", "delete"},
             NEW id \in Ids \cup {NoId}, NEW ttl \in TTLs, Elsewhere(x, op, id, ttl)
      PROVE  IInv'
  <2> DEFINE q == NewRequest(op, id, "good", ttl)
  <2>1. q \in Requests /\ q.op = op /\ q.id = id /\ (op \in OneSandbox => id \in Ids)
    <3>1. op \in OneSandbox \cup {"create", "list"} /\ ttl \in Nat
      BY ClientAssumption DEF OneSandbox
    <3>2. op \in OneSandbox => id \in Ids
      BY <1>7 DEF Elsewhere, OneSandbox
    <3> QED
      BY <3>1, <3>2, NewRequestFacts
  <2>2. req' = [req EXCEPT ![x] = q] /\ UNCHANGED <<dbVars, call, seen>>
    BY <1>7 DEF Elsewhere
  <2> HIDE DEF q
  <2>3. x \in Slots /\ req'[x] = q /\ \A y \in Slots : y # x => req'[y] = req[y]
    BY <1>t, <2>2 DEF Types, Slots
  <2>4. Types'
    BY <1>t, <2>1, <2>2, <2>3 DEF Types, dbVars
  <2> QED
    BY <1>d, <1>f, <2>2, <2>3, <2>4 DEF IInv
<1>8. ASSUME NEW id \in Ids, Reap(id) PROVE IInv'
  <2>1. rows' \in [Ids -> States] /\ req' = req /\ call' = call /\ Witness
    BY <1>8, <1>t DEF Reap, Types, States
  <2>2. /\ seen' \in [Clients -> SUBSET (Ids \X States)]
        /\ \A k \in Clients :
              /\ seen[k] \subseteq seen'[k]
              /\ call[k].pc \in {"sent", "tick"} => Table' \subseteq seen'[k]
    BY <1>t, <2>1, WitnessFacts
  <2>3. Types'
    BY <1>t, <2>1, <2>2 DEF Types
  <2>4. \A k \in Clients : OneClient(k)'
    BY <1>t, <2>1, <2>2, Undisturbed
  <2> QED
    BY <2>3, <2>4 DEF IInv
<1>9. CASE UNCHANGED vars
  <2>1. Types'
    BY <1>9, <1>t DEF vars, dbVars, Types
  <2> QED
    BY <1>9, <1>f, <2>1 DEF vars, IInv
<1> QED
  BY <1>1, <1>2, <1>3, <1>4, <1>5, <1>6, <1>7, <1>8, <1>9 DEF Next, Proceed, Slots

-----------------------------------------------------------------------------
(* Every reachable state of the clients and their requests satisfies the   *)
(* inductive invariant.                                                    *)
THEOREM ClientInductive == Spec => []IInv
BY InitIInv, NextIInv, PTL DEF Spec

(* What kp and the SDK report was true at some moment of the command, for  *)
(* any number of clients, sandboxes and abandoned requests.                *)
THEOREM ClientAnswersAreTrue == Spec => []AnswersAreTrue
<1>1. IInv => AnswersAreTrue
  BY DEF IInv, OneClient, PrintedIsTrue, ReportIsTrue, AnswersAreTrue
<1> QED
  BY <1>1, ClientInductive, PTL
=============================================================================
