----------------------------- MODULE ExecStream -----------------------------
(***************************************************************************)
(* One streaming exec, from the command to the client: Runtime.Exec of     *)
(* internal/runtime/docker copies the output chunk by chunk, the handler   *)
(* of POST .../exec/stream (handleExecStream) sends each chunk as a        *)
(* server-sent event, and the SDK (parseSSE in pkg/kotakpasir) puts the    *)
(* output together again.  The connection may break at any byte.           *)
(* The stream of GET .../logs?follow=true (handleLogs, LogsStream) is the  *)
(* same without an exit event: its chunks are entries of the log buffer.   *)
(*                                                                         *)
(* A chunk is a sequence of characters, of which NL and CR are the ones    *)
(* the encoding treats specially.  The JSON of the events exit and error   *)
(* is one character, Json: it is complete or it is not there.              *)
(***************************************************************************)
EXTENDS Naturals, Sequences, FiniteSets, SequencesExt

CONSTANTS
    Chunks,    \* what the command may write at once: non-empty sequences
    NL, CR,    \* "\n" and "\r"
    Json,
    MaxChunks  \* bound: chunks written by the command

ASSUME StreamAssumption ==
    /\ \A c \in Chunks : c \in Seq(UNION {Range(d) : d \in Chunks}) /\ c # <<>>
    /\ Cardinality({NL, CR, Json}) = 3 /\ MaxChunks \in Nat

Streams == {"stdout", "stderr"}

VARIABLES
    call,     \* the method of the SDK: "ExecStream" or "LogsStream"
    server,   \* where Runtime.Exec is ("copy" for the entries of a log), or "done"
    written,  \* what the command has written to each stream
    chunks,   \* number of chunks written
    plain,    \* history: all of them are Plain
    wire,     \* lines the server has sent and the client has not read
    conn,     \* what the client meets after these lines: "open" (more may come)
              \* or "end" (the server has ended the body), and if it broke, "eof"
              \* (as such an end), "cut" (io.ErrUnexpectedEOF) or "error" (any other)
    event,    \* parseSSE's event and data builders
    data,
    got,      \* what parseSSE has written to the caller's writers
    result    \* "none" while parseSSE runs, then "ok" or "error"

serverVars == <<call, server, written, chunks, plain>>
clientVars == <<event, data, got, result>>
vars == <<serverVars, wire, conn, clientVars>>

Nothing == [s \in Streams |-> <<>>]

Init ==
    /\ \/ call = "ExecStream" /\ server = "create"
       \/ call = "LogsStream" /\ server = "copy"
    /\ written = Nothing /\ chunks = 0 /\ plain = TRUE
    /\ wire = <<>> /\ conn = "open"
    /\ event = "" /\ data = <<>> /\ got = Nothing /\ result = "none"

-----------------------------------------------------------------------------
Event(name) == [field |-> "event", name |-> name, text |-> <<>>]
Data(text)  == [field |-> "data", name |-> "", text |-> text]
Blank       == [field |-> "", name |-> "", text |-> <<>>]

(* strings.SplitSeq(data, "\n"): the lines of the first k characters, and  *)
(* those of all of them.                                                   *)
SplitTo(text) ==
    LET lines[k \in 0..Len(text)] ==
            IF k = 0 THEN << <<>> >>
            ELSE IF text[k] = NL THEN Append(lines[k - 1], <<>>)
            ELSE [lines[k - 1] EXCEPT ![Len(lines[k - 1])] = Append(@, text[k])]
    IN  lines
Split(text) == SplitTo(text)[Len(text)]

(* sseWriter.send; what is sent on a broken connection is lost, and no     *)
(* error is reported.                                                      *)
Send(name, text) ==
    LET lines == Split(text)
    IN  wire' = IF conn # "open" THEN wire
                ELSE wire \o <<Event(name)>> \o [i \in 1..Len(lines) |-> Data(lines[i])]
                          \o <<Blank>>

(* The handler's return ends the response.                                 *)
Return == server' = "done" /\ conn' = IF conn = "open" THEN "end" ELSE conn

(* ContainerExecCreate, ContainerExecAttach and ContainerExecInspect; the  *)
(* handler answers an error with an event of that name.                    *)
ExecFails ==
    /\ call = "ExecStream" /\ server \in {"create", "attach", "copy", "inspect"}
    /\ Send("error", <<Json>>)
    /\ Return
    /\ UNCHANGED <<call, written, chunks, plain, clientVars>>

ExecProceeds ==
    /\ call = "ExecStream"
    /\ \/ server = "create" /\ server' = "attach"
       \/ server = "attach" /\ server' = "copy"
       \/ server = "copy" /\ server' = "inspect" \* the end of the output
    /\ UNCHANGED <<call, written, chunks, plain, wire, conn, clientVars>>

(* Output that the encoding carries unchanged: the chunk does not begin    *)
(* with a line break, which is lost, and has no CR, which TrimRight cuts   *)
(* at the end of a line.                                                   *)
Plain(chunk) ==
    /\ \A i \in 1..Len(chunk) : chunk[i] # CR
    /\ chunk # <<>> => chunk[1] # NL

(* StdCopy: one goroutine for both streams; emit of handleLogs.            *)
Copy(s, chunk) ==
    /\ server = "copy" /\ chunks < MaxChunks
    /\ written' = [written EXCEPT ![s] = @ \o chunk]
    /\ chunks' = chunks + 1 /\ plain' = (plain /\ Plain(chunk))
    /\ Send(s, chunk)
    /\ UNCHANGED <<call, server, conn, clientVars>>

ExecReturns ==
    /\ server = "inspect"
    /\ Send("exit", <<Json>>)
    /\ Return
    /\ UNCHANGED <<call, written, chunks, plain, clientVars>>

(* The log's subscription or kpd's context ends: handleLogs returns.       *)
LogsEnd ==
    /\ call = "LogsStream" /\ server = "copy"
    /\ Return
    /\ UNCHANGED <<call, written, chunks, plain, wire, clientVars>>

(* What may be left of a line when the connection breaks inside it.        *)
Partial(line) ==
    {<<>>} \cup
    (IF line.field = "event" THEN {<<Event("?")>>}
     ELSE IF line.field = "data"
          THEN {<<Data(SubSeq(line.text, 1, k))>> : k \in 0..Len(line.text)}
          ELSE {})

(* The connection breaks: kpd dies, a proxy gives up.  Of the lines on the *)
(* way, some of the first arrive; the last of all may be among those lost. *)
(* net/http reports a chunked body that is cut off as io.ErrUnexpectedEOF, *)
(* other failures (a reset, a cancelled context) as other errors, and a    *)
(* body that a proxy ends in order, or one without chunks, as its end.     *)
Break ==
    /\ conn = "open" \/ (conn = "end" /\ wire # <<>>)
    /\ conn' \in {"eof", "cut", "error"}
    /\ \/ wire' = wire
       \/ \E k \in 1..Len(wire) : \E rest \in Partial(wire[k]) :
             wire' = SubSeq(wire, 1, k - 1) \o rest
    /\ UNCHANGED <<serverVars, clientVars>>

-----------------------------------------------------------------------------
(* strings.TrimRight(line, "\r\n") of a line without its "\n".             *)
TrimRight(text) ==
    LET keep == {i \in 1..Len(text) : text[i] # CR}
    IN  IF keep = {} THEN <<>>
        ELSE SubSeq(text, 1, CHOOSE i \in keep : \A j \in keep : j <= i)

(* Mutant of flush: the data builder is not reset.                         *)
flushKeepsData(otherwise) ==
    /\ got' = IF event \in Streams THEN [got EXCEPT ![event] = @ \o data] ELSE got
    /\ result' = IF event = "exit" /\ data = <<Json>> THEN "ok"
                 ELSE IF event \in {"exit", "error"} THEN "error" ELSE otherwise
    /\ event' = "" /\ data' = data

(* flush, the end of an event, and the returns after it.  The JSON of an   *)
(* exit event has to parse.                                                *)
flush(otherwise) ==
    /\ got' = IF event \in Streams THEN [got EXCEPT ![event] = @ \o data] ELSE got
    /\ result' = IF event = "exit" /\ data = <<Json>> THEN "ok"
                 ELSE IF event \in {"exit", "error"} THEN "error" ELSE otherwise
    /\ event' = "" /\ data' = <<>>

(* One line of parseSSE's loop.                                            *)
ReadLine ==
    /\ result = "none" /\ wire # <<>>
    /\ wire' = Tail(wire)
    /\ LET line == Head(wire)
       IN  \/ line.field = "" /\ flush("none")
           \/ /\ line.field = "event"
              /\ event' = IF event = "" THEN line.name ELSE "?"
              /\ UNCHANGED <<data, got, result>>
           \/ /\ line.field = "data"
              /\ data' = IF data = <<>> THEN TrimRight(line.text)
                         ELSE data \o <<NL>> \o TrimRight(line.text)
              /\ UNCHANGED <<event, got, result>>
    /\ UNCHANGED <<serverVars, conn>>

(* Mutant of ReadEOF: an end without a result is not an error.             *)
ReadEOFGoesOn ==
    /\ result = "none" /\ wire = <<>> /\ conn \in {"end", "eof"}
    /\ flush("none")
    /\ UNCHANGED <<serverVars, wire, conn>>

(* Mutant of ReadEOF: an end without a result is a success.                *)
ReadEOFSucceeds ==
    /\ result = "none" /\ wire = <<>> /\ conn \in {"end", "eof"}
    /\ flush("ok")
    /\ UNCHANGED <<serverVars, wire, conn>>

(* io.ErrUnexpectedEOF, whether parseSSE made it or the connection:        *)
(* LogsStream takes it for the end of the log.                             *)
UnexpectedEOF == IF call = "LogsStream" THEN "ok" ELSE "error"

(* io.EOF: a last flush, and io.ErrUnexpectedEOF if it brought no result.  *)
ReadEOF ==
    /\ result = "none" /\ wire = <<>> /\ conn \in {"end", "eof"}
    /\ flush(UnexpectedEOF)
    /\ UNCHANGED <<serverVars, wire, conn>>

(* Any other error is returned as it is, io.ErrUnexpectedEOF of the        *)
(* connection too: the event that was begun is dropped.                    *)
ReadError ==
    /\ result = "none" /\ wire = <<>> /\ conn \in {"cut", "error"}
    /\ result' = IF conn = "cut" THEN UnexpectedEOF ELSE "error"
    /\ UNCHANGED <<serverVars, wire, conn, event, data, got>>

Server ==
    \/ ExecFails \/ ExecProceeds \/ ExecReturns
    \/ \E s \in Streams, c \in Chunks : Copy(s, c)
Client == ReadLine \/ ReadEOF \/ ReadError

Next == Server \/ LogsEnd \/ Break \/ Client

(* The server and the client go on; the command ends (its chunks are       *)
(* bounded).  Nothing obliges a log to end, or the connection to break.    *)
Spec == Init /\ [][Next]_vars /\ WF_vars(Server) /\ WF_vars(Client)

-----------------------------------------------------------------------------
Chars == (UNION {Range(c) : c \in Chunks}) \cup {NL}
Line == [field : {"", "event", "data"}, name : {"", "?", "exit", "error"} \cup Streams,
         text : Seq(Chars \cup {Json})]

(* The variables keep their types.                                         *)
TypeOK ==
    /\ call \in {"ExecStream", "LogsStream"}
    /\ server \in {"create", "attach", "copy", "inspect", "done"}
    /\ written \in [Streams -> Seq(Chars)] /\ got \in [Streams -> Seq(Chars)]
    /\ chunks \in 0..MaxChunks /\ plain \in BOOLEAN /\ wire \in Seq(Line)
    /\ conn \in {"open", "end", "eof", "cut", "error"}
    /\ event \in {"", "?", "exit", "error"} \cup Streams /\ data \in Seq(Chars \cup {Json})
    /\ result \in {"none", "ok", "error"}

(* When the line of a next event arrives, parseSSE has nothing of the last *)
(* event left: the reset of flush, and no event without its blank line.    *)
EventsApart == wire # <<>> /\ Head(wire).field = "event" => event = "" /\ data = <<>>

(* What a writer gets apart from line breaks: of the first k characters,   *)
(* and of all of them.                                                     *)
TextTo(chars) ==
    LET text[k \in 0..Len(chars)] ==
            IF k = 0 THEN <<>>
            ELSE IF chars[k] \in {NL, CR} THEN text[k - 1]
            ELSE Append(text[k - 1], chars[k])
    IN  text
Text(chars) == TextTo(chars)[Len(chars)]

(* At every moment, wherever the connection breaks, the client has written *)
(* a prefix of what the command wrote, line breaks apart: nothing is       *)
(* invented, repeated, reordered or put on the other stream.               *)
OutputIsPrefix == \A s \in Streams : IsPrefix(Text(got[s]), Text(written[s]))

(* An exit code of ExecStream means that the command has ended and all of  *)
(* its output has been delivered, on both streams: all of its text, and    *)
(* every character if the chunks were plain.  A broken connection is never *)
(* taken for an exit.  A nil of LogsStream means the same of the log, if   *)
(* the connection did not break; if it did, nil shows that the client met  *)
(* an end of the body or io.ErrUnexpectedEOF, and no other error.          *)
OkIsComplete ==
    result = "ok" =>
        /\ call = "ExecStream" \/ conn = "end" =>
              /\ server = "done"
              /\ \A s \in Streams : Text(got[s]) = Text(written[s])
              /\ plain => got = written
        /\ call = "LogsStream" => conn \in {"end", "eof", "cut"}

(* "until ctx cancels or the server closes" (LogsStream): it returns nil   *)
(* only when the server has ended the log.                                 *)
NilMeansServerClosed == call = "LogsStream" /\ result = "ok" => conn = "end"

(* "The call blocks until the command completes" (ExecStream): it does     *)
(* return, with a result or with an error; LogsStream does when the body   *)
(* of the response has ended.                                              *)
StreamReturns == (call = "ExecStream" \/ conn # "open") ~> (result # "none")

(* "Multi-line data: lines within one event are joined with \n" (parseSSE):*)
(* with an exit code, the writers have received the output as the command  *)
(* wrote it.                                                               *)
OutputIsExact == call = "ExecStream" /\ result = "ok" => got = written
=============================================================================
