------------------------------- MODULE Relay -------------------------------
(***************************************************************************)
(* The relay of two byte streams (copy_bidirectional): per direction a     *)
(* circular buffer that grows for bulk transfers and shrinks when it       *)
(* parks, the shutdown that follows the end of the input, and the grace    *)
(* for the other direction after a half close.                             *)
(*                                                                         *)
(* Both directions belong to one task and share nothing but the timers, so *)
(* their steps may be taken in any order.  What a stream answers (bytes,   *)
(* end, pending, error) is the environment's choice.                       *)
(***************************************************************************)
EXTENDS Naturals, FiniteSets

CONSTANTS
    Dirs,     \* the two directions
    Input,    \* direction -> number of bytes its reader will deliver
    BaseSize, \* sizing.base
    BulkSize, \* sizing.max
    PingDirs  \* directions whose writer supports pings

ASSUME RelayConstants ==
    /\ BaseSize \in Nat \ {0} /\ BulkSize \in Nat /\ BaseSize <= BulkSize
    /\ \A d \in Dirs : Input[d] \in Nat

VARIABLES
    dir,      \* direction -> CopyBuffer, TransferState and place in poll_copy
    relay     \* "copying", or how the future completed

relayVars == <<dir, relay>>

(* Bytes are numbered by their position in the input; 0 is no byte. *)
Fresh(d) ==
    [state |-> "running", pc |-> "read", readPending |-> FALSE, writePending |-> FALSE,
     readDone |-> FALSE, needFlush |-> FALSE, needPing |-> FALSE,
     start |-> 0, length |-> 0, size |-> BaseSize, bulk |-> FALSE,
     ring |-> [i \in 0..(BulkSize - 1) |-> 0],
     taken |-> 0, given |-> 0, flushed |-> 0, orderly |-> TRUE]

(* The buffers of a completed future are dropped. *)
Gone == [d \in Dirs |-> Fresh(d)]

AtDir(d, pc) == relay = "copying" /\ dir[d].state = "running" /\ dir[d].pc = pc
Become(d, b) == dir' = [dir EXCEPT ![d] = b] /\ UNCHANGED relay

-----------------------------------------------------------------------------
(* resize_empty: another capacity for an empty buffer. *)
Resized(b, size) == [b EXCEPT !.size = size, !.start = 0]

(* After a read of a whole base buffer an emptied buffer takes the larger size. *)
Grown(b) == IF b.bulk /\ b.length = 0 /\ b.size < BulkSize THEN Resized(b, BulkSize) ELSE b

(* The contiguous free slots behind the cached bytes. *)
FreeStart(b) == (b.start + b.length) % b.size
FreeEnd(b) == IF FreeStart(b) < b.start THEN b.start ELSE b.size

(* The read loop, while there is room: some bytes, ... *)
ReadSome(d) ==
    LET b == Grown(dir[d])
    IN  /\ AtDir(d, "read") /\ ~dir[d].readDone /\ dir[d].length < dir[d].size
        /\ \E n \in 1..(FreeEnd(b) - FreeStart(b)) :
             /\ b.taken + n <= Input[d]
             /\ Become(d, [b EXCEPT
                  !.ring = [i \in DOMAIN @ |-> IF i \in FreeStart(b)..(FreeStart(b) + n - 1)
                                               THEN b.taken + 1 + (i - FreeStart(b)) ELSE @[i]],
                  !.length = @ + n, !.taken = @ + n,
                  !.bulk = @ \/ n >= BaseSize])

(* ... the end of the input, ... *)
ReadEnd(d) ==
    /\ AtDir(d, "read") /\ ~dir[d].readDone /\ dir[d].length < dir[d].size
    /\ dir[d].taken = Input[d]
    /\ Become(d, [Grown(dir[d]) EXCEPT !.readDone = TRUE])

(* ... or pending, which leaves the loop, as a full buffer does. *)
ReadLeave(d) ==
    /\ AtDir(d, "read")
    /\ \/ /\ ~dir[d].readDone /\ dir[d].length < dir[d].size
          /\ Become(d, [Grown(dir[d]) EXCEPT !.pc = "ping", !.readPending = TRUE])
       \/ /\ dir[d].readDone \/ dir[d].length = dir[d].size
          /\ Become(d, [dir[d] EXCEPT !.pc = "ping"])

(* A due ping is written unless data is about to be; it needs a flush. *)
WritePing(d) ==
    LET b == [dir[d] EXCEPT !.pc = "write"]
    IN  /\ AtDir(d, "ping")
        /\ \/ ~b.needPing /\ Become(d, b)
           \/ b.needPing /\ b.length > 0 /\ Become(d, [b EXCEPT !.needPing = FALSE])
           \/ /\ b.needPing /\ b.length = 0
              /\ \/ Become(d, [b EXCEPT !.needPing = FALSE, !.needFlush = TRUE])
                 \/ Become(d, [b EXCEPT !.writePending = TRUE])

Smaller(m, n) == IF m < n THEN m ELSE n

(* The write loop: the writer takes some of the contiguous cached bytes... *)
WriteSome(d) ==
    LET b == dir[d]
    IN  /\ AtDir(d, "write") /\ b.length > 0
        /\ \E n \in 1..(Smaller(b.start + b.length, b.size) - b.start) :
             Become(d, [b EXCEPT
                !.length = @ - n,
                !.start = IF b.length = n THEN 0 ELSE (@ + n) % b.size,
                !.given = @ + n,
                !.orderly = @ /\ \A i \in 0..(n - 1) : b.ring[b.start + i] = b.given + 1 + i,
                !.needFlush = TRUE])

(* ... or is not ready; the loop ends, too, when nothing is left. *)
WriteLeave(d) ==
    /\ AtDir(d, "write")
    /\ Become(d, [dir[d] EXCEPT !.pc = "flush", !.writePending = @ \/ dir[d].length > 0])

(* A bug: a poll that could not read parks before it flushes. *)
FlushDirAfterPark(d) ==
    LET b == dir[d]
    IN  /\ AtDir(d, "flush")
        /\ Become(d, IF b.needFlush /\ ~b.readPending
                     THEN [b EXCEPT !.needFlush = FALSE, !.flushed = b.given, !.pc = "end"]
                     ELSE [b EXCEPT !.pc = "end"])

(* What was written is flushed before anything else; pending leaves the poll. *)
FlushDir(d) ==
    LET b == dir[d]
    IN  /\ AtDir(d, "flush")
        /\ \/ ~b.needFlush /\ Become(d, [b EXCEPT !.pc = "end"])
           \/ b.needFlush /\ Become(d, [b EXCEPT !.needFlush = FALSE, !.flushed = b.given,
                                                 !.pc = "end"])
           \/ b.needFlush /\ Become(d, [b EXCEPT !.pc = "flushing"])

(* park_empty: the next period starts large if this one saw a bulk read. *)
Parked(b) ==
    IF b.length = 0
    THEN [Resized(b, IF b.bulk THEN BulkSize ELSE BaseSize) EXCEPT !.bulk = FALSE, !.pc = "parked"]
    ELSE [b EXCEPT !.pc = "parked"]

(* The end of the outer loop: finished, parked, or around again. *)
LoopEnd(d) ==
    LET b == dir[d]
    IN  /\ AtDir(d, "end")
        /\ Become(d, IF b.readDone /\ b.length = 0 THEN [b EXCEPT !.state = "shutting"]
                     ELSE IF b.readPending \/ b.writePending THEN Parked(b)
                     ELSE [b EXCEPT !.pc = "read"])

(* The task is polled again. *)
Poll(d) ==
    /\ AtDir(d, "parked") \/ AtDir(d, "flushing")
    /\ Become(d, [dir[d] EXCEPT !.pc = "read", !.readPending = FALSE, !.writePending = FALSE])

(* The ping timer fires. *)
PingDue(d) ==
    /\ d \in PingDirs /\ ~dir[d].needPing
    /\ AtDir(d, "parked") \/ AtDir(d, "flushing")
    /\ Become(d, [dir[d] EXCEPT !.needPing = TRUE])

(* poll_shutdown of the writer completes; until then the direction waits. *)
ShutdownWriter(d) ==
    /\ relay = "copying" /\ dir[d].state = "shutting"
    /\ Become(d, [dir[d] EXCEPT !.state = "done"])

(* Any read, write, flush or shutdown fails: the whole relay does. *)
Fails(d) ==
    /\ relay = "copying" /\ dir[d].state # "done"
    /\ relay' = "failed" /\ dir' = Gone

(* A bug: only a completed shutdown counts as a half close. *)
HalfClosedLate == \E d \in Dirs : dir[d].state = "done"

(* has_seen_eof of one direction. *)
HalfClosed == \E d \in Dirs : dir[d].state # "running"

AllDone == \A d \in Dirs : dir[d].state = "done"

(* The half-close grace has passed, or both directions are done. *)
HalfCloseExpires ==
    /\ relay = "copying" /\ HalfClosed /\ ~AllDone
    /\ relay' = "expired" /\ dir' = Gone

Complete ==
    /\ relay = "copying" /\ AllDone
    /\ relay' = "complete" /\ dir' = Gone

RelayInit ==
    /\ dir \in {f \in [Dirs -> UNION {{Fresh(d), [Fresh(d) EXCEPT !.needFlush = TRUE]} : d \in Dirs}] :
                  \A d \in Dirs : f[d] \in {Fresh(d), [Fresh(d) EXCEPT !.needFlush = TRUE]}}
    /\ relay = "copying"

CopyStep(d) ==
    \/ ReadSome(d) \/ ReadEnd(d) \/ ReadLeave(d) \/ WritePing(d)
    \/ WriteSome(d) \/ WriteLeave(d) \/ FlushDir(d) \/ LoopEnd(d) \/ Poll(d)

RelayNext ==
    \/ \E d \in Dirs : CopyStep(d) \/ PingDue(d) \/ ShutdownWriter(d) \/ Fails(d)
    \/ HalfCloseExpires \/ Complete

(* Timers fire and a completed relay returns.  Nothing is assumed of the
   streams: either may stay pending for ever. *)
RelayFair == WF_relayVars(HalfCloseExpires) /\ WF_relayVars(Complete)

RelaySafetySpec == RelayInit /\ [][RelayNext]_relayVars
RelaySpec == RelaySafetySpec /\ RelayFair

-----------------------------------------------------------------------------
(* The variables of Relay are well formed. *)
RelayTypeOK ==
    /\ relay \in {"copying", "complete", "expired", "failed"}
    /\ \A d \in Dirs : LET b == dir[d] IN
         /\ b.size \in {BaseSize, BulkSize} /\ b.start < b.size /\ b.length <= b.size
         /\ b.taken <= Input[d] /\ b.given <= b.taken

(* Every byte read is written once and in order, whatever the sizes of reads
   and writes and however often the buffer wraps, grows and shrinks. *)
BytesInOrder ==
    \A d \in Dirs : LET b == dir[d] IN
        /\ b.orderly
        /\ b.given + b.length = b.taken
        /\ \A i \in 0..(b.length - 1) : b.ring[(b.start + i) % b.size] = b.given + 1 + i

(* A direction that parks because its reader has nothing leaves nothing
   unflushed behind it: the peer is never owed bytes by an idle relay. *)
IdleMeansFlushed ==
    \A d \in Dirs : dir[d].pc = "parked" /\ dir[d].state = "running" =>
        dir[d].flushed = dir[d].given

(* A writer is shut down only behind all bytes of its direction, flushed. *)
ShutdownBehindData ==
    \A d \in Dirs : dir[d].state # "running" =>
        dir[d].taken = Input[d] /\ dir[d].flushed = Input[d]

(* copy_bidirectional delivers each direction's bytes once and in order through
   its circular buffer, has flushed whatever it has written when it goes idle,
   and shuts a writer down only behind the flushed rest, whatever the order of
   partial writes, pending flushes and the other direction's progress. *)
RelaySafe == RelayTypeOK /\ BytesInOrder /\ IdleMeansFlushed /\ ShutdownBehindData

(* Once one side has reached its end the relay is over at some point, whatever
   the streams do: a half-closed pair is always reclaimed.  A side that has begun
   its shutdown never runs again, so this is ~> written with []<>. *)
HalfCloseReclaimed ==
    []<>((\E d \in Dirs : dir[d].state # "running") => relay # "copying")
=============================================================================
