--------------------------- MODULE ChunkedWriter ---------------------------
(***************************************************************************)
(* service.ChunkedWriter, which cuts the message of a ticket into chunks   *)
(* at the points its caller marks with Split, and how CreateTicketReport   *)
(* and RecreateReport use it: groupSubmissions is passed the writer by     *)
(* value, so it writes with a lastSplit of its own into the same buffers.  *)
(*                                                                         *)
(* Text is its length.  A position is a number of bytes since the first    *)
(* write: the buffer holds those from flushed to written.                  *)
(***************************************************************************)
EXTENDS Integers

CONSTANTS
  SplitSize,
  MaxWritten    \* bound: bytes written

ASSUME WriterAssumption == SplitSize \in Nat \ {0} /\ MaxWritten \in Nat

VARIABLES
  written,      \* bytes written
  flushed,      \* bytes moved from the buffer to the builder
  lastSplit,    \* of the writer
  copied,       \* lastSplit of the copy of groupSubmissions
  grouping,     \* groupSubmissions is writing
  marks,        \* history: the positions where Split was called
  chunks        \* history: <<from, to>> of each chunk of the builder

writerVars == <<written, flushed, lastSplit, copied, grouping, marks, chunks>>

Buffered == written - flushed

WriterInit ==
  /\ written = 0
  /\ flushed = 0
  /\ lastSplit = 0
  /\ copied = 0
  /\ grouping = FALSE
  /\ marks = {}
  /\ chunks = {}

(* flush, of a buffer that ends at end, with a lastSplit of split.         *)
Flush(split, end) ==
  LET to == IF split > 0 THEN flushed + split ELSE end
  IN  /\ flushed' = to
      /\ chunks' = chunks \cup {<<flushed, to>>}

(* Mutant: WriteString flushes all it has, not what ends at a split.       *)
WriteAll(n, split) ==
  /\ written' = written + n
  /\ IF written' - flushed > SplitSize
     THEN Flush(0, written')
     ELSE UNCHANGED <<flushed, chunks>>

(* WriteString of n bytes by a writer whose lastSplit is split.            *)
Write(n, split) ==
  /\ written' = written + n
  /\ IF written' - flushed > SplitSize /\ split > 0
     THEN Flush(split, written')
     ELSE UNCHANGED <<flushed, chunks>>

SplitAfter(n, split) ==
  IF written + n - flushed > SplitSize THEN 0 ELSE split

WriteString(n) ==
  /\ ~grouping
  /\ written + n <= MaxWritten
  /\ Write(n, lastSplit)
  /\ lastSplit' = SplitAfter(n, lastSplit)
  /\ UNCHANGED <<copied, grouping, marks>>

(* Split, which is also what follows groupSubmissions.                     *)
MarkSplit ==
  /\ marks' = marks \cup {written}
  /\ IF Buffered >= SplitSize
     THEN Flush(Buffered, written) /\ lastSplit' = 0
     ELSE lastSplit' = Buffered /\ UNCHANGED <<flushed, chunks>>
  /\ UNCHANGED written

Split ==
  /\ ~grouping
  /\ MarkSplit
  /\ UNCHANGED <<copied, grouping>>

(* groupSubmissions begins, writes, and ends.                              *)
BeginGroup ==
  /\ ~grouping
  /\ grouping' = TRUE
  /\ copied' = lastSplit
  /\ UNCHANGED <<written, flushed, lastSplit, marks, chunks>>

GroupWriteString(n) ==
  /\ grouping
  /\ written + n <= MaxWritten
  /\ Write(n, copied)
  /\ copied' = SplitAfter(n, copied)
  /\ UNCHANGED <<lastSplit, grouping, marks>>

(* Mutant: no Split after groupSubmissions, as its copy did any needed.    *)
EndGroupUnsplit ==
  /\ grouping
  /\ grouping' = FALSE
  /\ UNCHANGED <<written, flushed, lastSplit, copied, marks, chunks>>

EndGroup ==
  /\ grouping
  /\ grouping' = FALSE
  /\ MarkSplit
  /\ UNCHANGED copied

(* String flushes what is left.                                            *)
String ==
  /\ ~grouping
  /\ Buffered > 0
  /\ Flush(0, written)
  /\ lastSplit' = 0
  /\ UNCHANGED <<written, copied, grouping, marks>>

WriterNext ==
  \/ \E n \in 1..MaxWritten : WriteString(n) \/ GroupWriteString(n)
  \/ Split
  \/ BeginGroup
  \/ EndGroup
  \/ String

WriterSpec == WriterInit /\ [][WriterNext]_writerVars

-----------------------------------------------------------------------------
WriterTypeOK ==
  /\ written \in Nat /\ flushed \in Nat
  /\ lastSplit \in Nat /\ copied \in Nat
  /\ grouping \in BOOLEAN
  /\ marks \subseteq Nat
  /\ chunks \subseteq Nat \X Nat

(***************************************************************************)
(* The writer that writes next has a lastSplit inside the buffer, although *)
(* groupSubmissions and its caller each keep their own: flush never slices *)
(* the buffer out of range, which would panic.                             *)
(***************************************************************************)
SplitInRange ==
  /\ flushed <= written
  /\ (IF grouping THEN copied ELSE lastSplit) <= Buffered

(***************************************************************************)
(* writer.go:7: the output is split at the points marked.  A chunk longer  *)
(* than SplitSize is text that has no such point inside, and each chunk    *)
(* begins where another ends.                                              *)
(***************************************************************************)
ChunksFit ==
  \A c \in chunks :
    /\ c[2] - c[1] > SplitSize => \A m \in marks : ~(c[1] < m /\ m < c[2])
    /\ c[1] # 0 => \E b \in chunks : b[2] = c[1]
    /\ c[2] <= flushed

WriterSafe == SplitInRange /\ ChunksFit

=============================================================================
