------------------------------- MODULE LogBuf -------------------------------
(***************************************************************************)
(* The log buffer of one sandbox (internal/sandbox/logbuf): writers append *)
(* chunks of exec output, the oldest are evicted beyond max bytes, and     *)
(* followers (GET .../logs?follow=true: Manager.Logs and handleLogs)       *)
(* subscribe, take a snapshot, send it, and go on with their channel.      *)
(*                                                                         *)
(* write, Subscribe, Snapshot and cancel are critical sections of b.mu; a  *)
(* chunk is its number in the order of the writes, and its size.  The cap  *)
(* comes from KP_LOG_BUFFER_BYTES by way of internal/config and NewManager;*)
(* with a negative one there is no buffer.                                 *)
(***************************************************************************)
EXTENDS Integers, Sequences, FiniteSets

CONSTANTS
    Settings,   \* values of KP_LOG_BUFFER_BYTES: numbers, or
    NoNumber,   \* unset, or nothing that strconv.Atoi takes
    DefaultBytes, \* DefaultLogBufferBytes, and the default of config.Load
    Sizes,      \* sizes of the chunks written
    ChanCap,    \* capacity of a subscriber's channel
    Followers,
    MaxWrites   \* bound: chunks written

ASSUME LogBufAssumption ==
    /\ Settings \subseteq Int \cup {NoNumber} /\ DefaultBytes \in Nat \ {0}
    /\ ChanCap \in Nat \ {0} /\ MaxWrites \in Nat
    /\ Sizes \subseteq Nat \ {0} \* write ignores an empty chunk

VARIABLES
    setting,  \* KP_LOG_BUFFER_BYTES of this kpd
    entries,  \* b.entries
    bytes,    \* b.bytes
    subs,     \* b.subs: followers whose channel is registered
    queue,    \* what is in each follower's channel
    closed,   \* followers whose channel is closed
    pc,       \* where each follower is
    snap,     \* the snapshot each follower has yet to send
    sent,     \* the chunks each follower has sent to its client
    edge,     \* the number of the last chunk before each follower's snapshot
    dropped,  \* chunks write could not put into each follower's channel
    written   \* the sizes of the chunks written so far

bufVars == <<setting, entries, bytes, written>>
vars == <<bufVars, subs, queue, closed, pc, snap, sent, edge, dropped>>

writes == Len(written)

(* parseEnv: an empty or unreadable value is the default.                  *)
envInt(raw) == IF raw = NoNumber THEN DefaultBytes ELSE raw

(* NewManager: zero is the default, too.                                   *)
logCap(n) == IF n = 0 THEN DefaultBytes ELSE n

(* b.max, and whether logBufferFor returns a buffer at all.                *)
MaxBytes == logCap(envInt(setting))
Captures == MaxBytes > 0

Numbers(es) == {es[i].n : i \in 1..Len(es)}

(* The bytes of the first k entries, for each k, and of all of them.       *)
SizeTo(es) ==
    LET sum[k \in 0..Len(es)] == IF k = 0 THEN 0 ELSE sum[k - 1] + es[k].size
    IN  sum
Size(es) == SizeTo(es)[Len(es)]

Init ==
    /\ setting \in Settings
    /\ entries = <<>> /\ bytes = 0 /\ written = <<>>
    /\ subs = {} /\ closed = {}
    /\ queue = [f \in Followers |-> <<>>]
    /\ pc = [f \in Followers |-> "idle"]
    /\ snap = [f \in Followers |-> <<>>]
    /\ sent = [f \in Followers |-> {}]
    /\ edge = [f \in Followers |-> 0]
    /\ dropped = [f \in Followers |-> {}]

-----------------------------------------------------------------------------
(* write's loop: how many of the oldest entries go, given b.bytes.         *)
Evicted(es, total) ==
    CHOOSE k \in 0..Len(es) :
        /\ total - SizeTo(es)[k] <= MaxBytes \/ k = Len(es)
        /\ \A j \in 0..(k - 1) : total - SizeTo(es)[j] > MaxBytes

(* The sends of write: a full channel misses the chunk.                    *)
Offer(n) ==
    LET full == {f \in subs : Len(queue[f]) >= ChanCap}
    IN  /\ queue' = [f \in Followers |-> IF f \in subs \ full THEN Append(queue[f], n)
                                                              ELSE queue[f]]
        /\ dropped' = [f \in Followers |-> IF f \in full THEN dropped[f] \cup {n}
                                                         ELSE dropped[f]]

(* Mutant of Write: evicted chunks stay in b.bytes.                        *)
WriteKeepsBytes(size) ==
    LET n  == writes + 1
        es == Append(entries, [n |-> n, size |-> size])
        k  == Evicted(es, bytes + size)
    IN  /\ Captures /\ writes < MaxWrites
        /\ written' = Append(written, size)
        /\ entries' = SubSeq(es, k + 1, Len(es))
        /\ bytes' = bytes + size
        /\ Offer(n)
        /\ UNCHANGED <<setting, subs, closed, pc, snap, sent, edge>>

(* Output of an exec; without a buffer it is only returned to the client.  *)
Write(size) ==
    LET n  == writes + 1
        es == Append(entries, [n |-> n, size |-> size])
        k  == Evicted(es, bytes + size)
    IN  /\ Captures /\ writes < MaxWrites
        /\ written' = Append(written, size)
        /\ entries' = SubSeq(es, k + 1, Len(es))
        /\ bytes' = bytes + size - SizeTo(es)[k]
        /\ Offer(n)
        /\ UNCHANGED <<setting, subs, closed, pc, snap, sent, edge>>

-----------------------------------------------------------------------------
Goto(f, label) == pc' = [pc EXCEPT ![f] = label]

(* Mutant of Subscribe: the channel is not registered.                     *)
SubscribeUnregistered(f) ==
    /\ pc[f] = "idle"
    /\ Goto(f, "subscribed")
    /\ UNCHANGED <<bufVars, subs, queue, closed, snap, sent, edge, dropped>>

(* Manager.Logs with Follow: subscribe first, unless capture is off; then  *)
(* the handler waits on a nil channel.                                     *)
Subscribe(f) ==
    /\ pc[f] = "idle"
    /\ subs' = IF Captures THEN subs \cup {f} ELSE subs
    /\ Goto(f, IF Captures THEN "subscribed" ELSE "live")
    /\ UNCHANGED <<bufVars, queue, closed, snap, sent, edge, dropped>>

(* tailLines: all entries, or those from one of them on; which depends on  *)
(* the line breaks in the chunks, and these are not modelled.              *)
tailLines(es) == {es} \cup {SubSeq(es, k, Len(es)) : k \in 1..Len(es)}

(* Then take the snapshot, or its tail.                                    *)
Snapshot(f) ==
    /\ pc[f] = "subscribed"
    /\ \E es \in tailLines(entries) : snap' = [snap EXCEPT ![f] = es]
    /\ edge' = [edge EXCEPT ![f] = writes]
    /\ Goto(f, "snapshot")
    /\ UNCHANGED <<bufVars, subs, queue, closed, sent, dropped>>

(* handleLogs sends the snapshot, then what comes out of the channel.      *)
EmitSnapshot(f) ==
    /\ pc[f] = "snapshot"
    /\ sent' = [sent EXCEPT ![f] = @ \cup Numbers(snap[f])]
    /\ snap' = [snap EXCEPT ![f] = <<>>]
    /\ Goto(f, "live")
    /\ UNCHANGED <<bufVars, subs, queue, closed, edge, dropped>>

EmitLive(f) ==
    /\ pc[f] = "live" /\ queue[f] # <<>>
    /\ sent' = [sent EXCEPT ![f] = @ \cup {Head(queue[f])}]
    /\ queue' = [queue EXCEPT ![f] = Tail(@)]
    /\ UNCHANGED <<bufVars, subs, closed, pc, snap, edge, dropped>>

(* Mutant of Cancel: the channel is closed and stays registered.           *)
CancelKeepsSub(f) ==
    /\ pc[f] = "live"
    /\ closed' = closed \cup {f}
    /\ Goto(f, "done")
    /\ UNCHANGED <<bufVars, subs, queue, snap, sent, edge, dropped>>

(* The client is gone: the deferred cancel unregisters and closes the      *)
(* channel.                                                                *)
Cancel(f) ==
    /\ pc[f] = "live"
    /\ subs' = subs \ {f} /\ closed' = closed \cup (subs \cap {f})
    /\ Goto(f, "done")
    /\ UNCHANGED <<bufVars, queue, snap, sent, edge, dropped>>

Follow(f) == Subscribe(f) \/ Snapshot(f) \/ EmitSnapshot(f) \/ EmitLive(f)

Next ==
    \/ \E size \in Sizes : Write(size)
    \/ \E f \in Followers : Follow(f) \/ Cancel(f)

Spec == Init /\ [][Next]_vars

-----------------------------------------------------------------------------
Entry == [n : 1..MaxWrites, size : Sizes]

(* The variables keep their types; a channel holds at most ChanCap chunks. *)
TypeOK ==
    /\ entries \in Seq(Entry) /\ bytes \in Nat /\ written \in Seq(Sizes)
    /\ setting \in Settings
    /\ subs \subseteq Followers /\ closed \subseteq Followers
    /\ pc \in [Followers -> {"idle", "subscribed", "snapshot", "live", "done"}]
    /\ queue \in [Followers -> Seq(1..MaxWrites)]
    /\ \A f \in Followers : Len(queue[f]) <= ChanCap
    /\ snap \in [Followers -> Seq(Entry)] /\ edge \in [Followers -> 0..MaxWrites]
    /\ sent \in [Followers -> SUBSET (1..MaxWrites)]
    /\ dropped \in [Followers -> SUBSET (1..MaxWrites)]

(* The buffer is the longest run of the newest chunks that fits into the   *)
(* cap, in the order of the writes and without a gap, and b.bytes is its   *)
(* size: the running count does not drift over any sequence of writes and  *)
(* evictions, chunks larger than the cap included.                         *)
BufferIsExact ==
    LET first == writes - Len(entries)  \* chunks 1..first are gone
    IN  /\ \A i \in 1..Len(entries) :
               entries[i] = [n |-> first + i, size |-> written[first + i]]
        /\ bytes = Size(entries)
        /\ Captures => bytes <= MaxBytes
        /\ first > 0 => bytes + written[first] > MaxBytes

(* "Subscribe BEFORE snapshotting so we don't miss writes that land in the *)
(* gap" (Manager.Logs): every chunk after a follower's snapshot has been   *)
(* sent, is in its channel, or was dropped because the channel was full.   *)
FollowerMissesNothing ==
    \A f \in Followers : pc[f] = "live" =>
        \A n \in (edge[f] + 1)..writes :
            n \in sent[f] \/ n \in dropped[f] \/ \E i \in 1..Len(queue[f]) : queue[f][i] = n

(* write never sends on a closed channel, which would panic with b.mu      *)
(* held.                                                                   *)
NoSendOnClosed == subs \cap closed = {}

(* "Subscriber lagged; drop. Snapshot still has the entry." (write): a     *)
(* chunk dropped for a follower can be read with a new snapshot at that    *)
(* moment.                                                                 *)
DroppedIsInSnapshot ==
    [][\A f \in Followers : dropped'[f] \ dropped[f] \subseteq Numbers(entries')]_vars

(* "KP_LOG_BUFFER_BYTES overrides; 0 disables" (CHANGELOG.md).             *)
ZeroDisables == setting = 0 => entries = <<>>
=============================================================================
