----------------------------- MODULE MemoryFiles -----------------------------
(***************************************************************************)
(* The file system in memory that SQLite uses in a worker, and the         *)
(* callbacks by which SQLite reaches it.  (The file system on IndexedDB    *)
(* keeps its files in one of these as well.)  A file is a growing buffer:  *)
(* there is room behind its end that may be used again.                    *)
(*                                                                         *)
(* A callback answers with a code, and never with an exception.            *)
(***************************************************************************)
EXTENDS Naturals, Sequences, FiniteSets, SequencesExt

CONSTANTS
  Paths,        \* names of files
  MaxOpen,      \* bound on open files
  MaxLength,    \* bound on the length of a file
  Smallest      \* the least room of a buffer that has grown

ASSUME MemoryAssumption == {MaxOpen, MaxLength, Smallest} \subseteq Nat \ {0}

VARIABLES
  memory,       \* the buffers of the files
  opened,       \* the open files
  written,      \* what SQLite has made of each file
  reply         \* what the last callback answered

memoryVars == <<memory, opened, written, reply>>

-----------------------------------------------------------------------------
Missing == [there |-> FALSE, room |-> <<>>, length |-> 0]
Unwritten == [there |-> FALSE, bytes |-> <<>>]
Bytes == {0, 1}
Lengths == 0..MaxLength
Contents == UNION {[1..n -> Bytes] : n \in Lengths}
Slots == 1..MaxOpen
Free == [open |-> FALSE, path |-> CHOOSE p \in Paths : TRUE, doomed |-> FALSE, lock |-> 0]

\* Codes of SQLite: done, an error, it cannot be opened, the file was shorter.
Codes == {0, 1, 14, 522}

MemoryInit ==
  /\ memory = [p \in Paths |-> Missing]
  /\ opened = [s \in Slots |-> Free]
  /\ written = [p \in Paths |-> Unwritten]
  /\ reply = [call |-> "none", code |-> 0]

Exists(p) == memory[p].there
Zeros(n) == [i \in 1..n |-> 0]

\* Uint8Buffer._createBiggerBuffer
Bigger(room, needed) ==
  LET twice == 2 * Len(room)
  IN  IF Len(room) = 0 \/ twice < needed THEN needed
      ELSE IF twice < Smallest THEN Smallest ELSE twice

\* a plausible mistake: what is behind the new end stays in the buffer
CutShort(b, n) ==
  IF n > Len(b.room)
  THEN [there |-> TRUE, length |-> n,
        room |-> SubSeq(b.room, 1, b.length) \o Zeros(Bigger(b.room, n) - b.length)]
  ELSE [b EXCEPT !.length = n]
\* A buffer that gets shorter is cleared behind its new end, because it may
\* get longer again in the same room.
Resized(b, n) ==
  CASE n < b.length ->
         [there |-> TRUE, length |-> n,
          room |-> [i \in DOMAIN b.room |->
                      IF i > n /\ i <= b.length THEN 0 ELSE b.room[i]]]
    [] n > Len(b.room) ->
         [there |-> TRUE, length |-> n,
          room |-> SubSeq(b.room, 1, b.length)
                     \o Zeros(Bigger(b.room, n) - b.length)]
    [] n >= b.length /\ n <= Len(b.room) ->
         [b EXCEPT !.there = TRUE, !.length = n]

\* Bytes go into the buffer from an offset on; it is made longer for them.
Written(b, offset, data) ==
  LET end == offset + Len(data)
      long == IF end > b.length THEN Resized(b, end) ELSE b
  IN  [long EXCEPT !.room = [i \in DOMAIN @ |->
         IF i > offset /\ i <= end THEN data[i - offset] ELSE @[i]]]

\* The same, of a file that is just its bytes.
Longer(bytes, n) == IF n > Len(bytes) THEN bytes \o Zeros(n - Len(bytes)) ELSE bytes
Overwritten(bytes, offset, data) ==
  [i \in 1..Len(Longer(bytes, offset + Len(data))) |->
     IF i > offset /\ i <= offset + Len(data) THEN data[i - offset]
     ELSE Longer(bytes, offset + Len(data))[i]]

Writes(p, bytes) ==
  written' = [written EXCEPT ![p] = [there |-> TRUE, bytes |-> bytes]]
Removes(p) ==
  /\ memory' = [memory EXCEPT ![p] = Missing]
  /\ written' = [written EXCEPT ![p] = Unwritten]

IsOpen(s) == opened[s].open
Replies(call, code) == reply' = [call |-> call, code |-> code]

-----------------------------------------------------------------------------
(* Callbacks *)

\* A file without a name gets a new one; only one to create may be missing.
xOpen(s, p, create, doomed) ==
  /\ ~IsOpen(s)
  /\ IF Exists(p) \/ create
     THEN /\ opened' = [opened EXCEPT ![s] = [open |-> TRUE, path |-> p,
                                            doomed |-> doomed, lock |-> 0]]
          /\ memory' = [memory EXCEPT ![p].there = TRUE]
          /\ written' = [written EXCEPT ![p].there = TRUE]
          /\ Replies("open", 0)
     ELSE UNCHANGED <<memory, opened, written>> /\ Replies("open", 14)

OpenUnnamed(s, doomed) ==
  \E p \in Paths : ~Exists(p) /\ xOpen(s, p, TRUE, doomed)

\* A doomed file goes with its first close, whoever else has it open.
xClose(s) ==
  LET p == opened[s].path
  IN  /\ IsOpen(s)
      /\ opened' = [opened EXCEPT ![s] = Free]
      /\ IF opened[s].doomed THEN Removes(p) ELSE UNCHANGED <<memory, written>>
      /\ Replies("close", 0)

xDelete(p) ==
  /\ Removes(p)
  /\ Replies("delete", 0)
  /\ UNCHANGED opened

xAccess(p) ==
  /\ reply' = [call |-> "access", code |-> 0, path |-> p, exists |-> Exists(p)]
  /\ UNCHANGED <<memory, opened, written>>

\* What is missing of a read is filled with zeros, and said to be missing.
xRead(s, offset, amount) ==
  LET p == opened[s].path
      there == IF ~Exists(p) \/ memory[p].length <= offset THEN 0
               ELSE IF memory[p].length - offset < amount THEN memory[p].length - offset
                    ELSE amount
  IN  /\ IsOpen(s)
      /\ reply' = [call |-> "read", code |-> IF there < amount THEN 522 ELSE 0,
                   path |-> p, offset |-> offset,
                   data |-> [i \in 1..amount |->
                     IF i <= there THEN memory[p].room[offset + i] ELSE 0]]
      /\ UNCHANGED <<memory, opened, written>>

\* A file that was deleted comes back when it is written or truncated.
xWrite(s, offset, data) ==
  LET p == opened[s].path
  IN  /\ IsOpen(s)
      /\ memory' = [memory EXCEPT ![p] = Written(memory[p], offset, data)]
      /\ Writes(p, Overwritten(written[p].bytes, offset, data))
      /\ Replies("write", 0)
      /\ UNCHANGED opened

xTruncate(s, n) ==
  LET p == opened[s].path
  IN  /\ IsOpen(s)
      /\ memory' = [memory EXCEPT ![p] = Resized(memory[p], n)]
      /\ Writes(p, SubSeq(Longer(written[p].bytes, n), 1, n))
      /\ Replies("truncate", 0)
      /\ UNCHANGED opened

\* A file that is not there any more has no length: an error.
xFileSize(s) ==
  LET p == opened[s].path
  IN  /\ IsOpen(s)
      /\ reply' = IF Exists(p)
                  THEN [call |-> "size", code |-> 0, path |-> p,
                        size |-> memory[p].length]
                  ELSE [call |-> "size", code |-> 1]
      /\ UNCHANGED <<memory, opened, written>>

\* xLock and xUnlock
SetLock(s, level) ==
  /\ IsOpen(s)
  /\ opened' = [opened EXCEPT ![s].lock = level]
  /\ Replies("lock", 0)
  /\ UNCHANGED <<memory, written>>

\* An open file knows of its own lock only.
xCheckReservedLock(s) ==
  /\ IsOpen(s)
  /\ reply' = [call |-> "reserved", code |-> 0, slot |-> s,
               reserved |-> opened[s].lock >= 2]
  /\ UNCHANGED <<memory, opened, written>>

MemoryNext ==
  \/ \E s \in Slots :
       \/ \E p \in Paths, create, doomed \in BOOLEAN : xOpen(s, p, create, doomed)
       \/ \E doomed \in BOOLEAN : OpenUnnamed(s, doomed)
       \/ xClose(s) \/ xFileSize(s) \/ xCheckReservedLock(s)
       \/ \E level \in {0, 2} : SetLock(s, level)
       \/ \E n \in Lengths : xTruncate(s, n)
       \/ \E offset \in Lengths :
            \/ \E amount \in 1..MaxLength : xRead(s, offset, amount)
            \/ \E n \in 1..(MaxLength - offset) : xWrite(s, offset, [i \in 1..n |-> 1])
  \/ \E p \in Paths : xDelete(p) \/ xAccess(p)

MemorySpec == MemoryInit /\ [][MemoryNext]_memoryVars

-----------------------------------------------------------------------------
(* Properties *)

\* The state of the file system, and the codes it answers with.
MemoryTypeOK ==
  /\ \A p \in Paths :
       \/ memory[p] = Missing /\ written[p] = Unwritten
       \/ /\ memory[p].there /\ memory[p].length <= Len(memory[p].room)
          /\ written[p].there /\ written[p].bytes \in Contents
  /\ opened \in [Slots -> [open : BOOLEAN, path : Paths, doomed : BOOLEAN, lock : {0, 2}]]
  /\ reply.code \in Codes

\* A buffer holds its file, and nothing but zeros behind it that could come
\* back when the file gets longer.
BuffersHoldFiles ==
  \A p \in Paths :
    memory[p].there =>
      LET room == memory[p].room
          n == memory[p].length
      IN  /\ SubSeq(room, 1, n) = written[p].bytes
          /\ \A i \in (n + 1)..Len(room) : room[i] = 0

\* A callback answers for the file as SQLite has made it, whatever room the
\* buffers have and however often the file was cut, deleted and made again: a
\* read gets its bytes, or zeros and the word that it was too short.
RepliesTrue ==
  /\ reply.call = "read" =>
       LET bytes == written[reply.path].bytes
           end == reply.offset + Len(reply.data)
       IN  /\ reply.data = SubSeq(Longer(bytes, end), reply.offset + 1, end)
           /\ reply.code = 0 <=> Len(bytes) >= end
  /\ reply.call = "size" /\ reply.code = 0 => reply.size = Len(written[reply.path].bytes)
  /\ reply.call = "access" => (reply.exists <=> written[reply.path].there)

FilesHold == BuffersHoldFiles /\ RepliesTrue
=============================================================================
