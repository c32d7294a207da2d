-------------------------------- MODULE AppLog --------------------------------
(***************************************************************************)
(* The application log of a node (logging/applog.ts) with the program that *)
(* stops it (app/bootstrap.ts).                                            *)
(*                                                                         *)
(* Records are lines in a buffer, appended to the file by a flush: when    *)
(* the buffer has grown to flushBytes, or when the program asks for one.   *)
(* An append may fail, possibly after some of it is on the disk; then the  *)
(* lines stay in the buffer, of which the oldest are shed beyond maxBytes. *)
(* Sizes are counted in lines.  Nothing in the program rotates the file.   *)
(***************************************************************************)
EXTENDS Integers, Sequences, Functions

CONSTANTS
  FlushLines, MaxLines,
  MaxRecords, MaxFailures \* bounds

AppLogAssumption == {FlushLines, MaxLines, MaxRecords, MaxFailures} \subseteq Nat

VARIABLES
  logged,  \* how many records there were; they are numbered
  buffer, file,
  shed,    \* records shed
  stopped,
  running, \* the process is there
  failures \* history: appends that failed

vars == <<logged, buffer, file, shed, stopped, running, failures>>

-----------------------------------------------------------------------------
\* The flush of what is in b: done, or failed after n lines.
Appended(b, ok, n) ==
  IF ok
  THEN /\ file' = file \o b /\ buffer' = <<>>
       /\ UNCHANGED <<shed, failures>>
  ELSE /\ failures < MaxFailures
       /\ LET over == IF Len(b) > MaxLines THEN Len(b) - MaxLines ELSE 0
          IN /\ file' = file \o SubSeq(b, 1, n)
             /\ buffer' = SubSeq(b, over + 1, Len(b))
             /\ shed' = shed \cup Range(SubSeq(b, 1, over))
             /\ failures' = failures + 1

\* Mutant: after a failure the lines go out in another order.
FlushTwice(b) ==
  IF stopped \/ b = <<>>
  THEN buffer' = b /\ UNCHANGED <<file, shed, failures>>
  ELSE \E ok \in BOOLEAN : \E n \in 0..Len(b) :
         Appended(IF failures = 0 THEN b ELSE Tail(b) \o <<Head(b)>>, ok, n)

FlushOf(b) ==
  IF stopped \/ b = <<>>
  THEN buffer' = b /\ UNCHANGED <<file, shed, failures>>
  ELSE \E ok \in BOOLEAN : \E n \in 0..Len(b) : Appended(b, ok, n)

\* log: also after the log has been shut down.
Log ==
  /\ running /\ logged < MaxRecords /\ logged' = logged + 1
  /\ LET b == Append(buffer, logged')
     IN IF Len(b) >= FlushLines THEN FlushOf(b)
        ELSE buffer' = b /\ UNCHANGED <<file, shed, failures>>
  /\ UNCHANGED <<stopped, running>>

\* The end of start.
Flush ==
  /\ running /\ ~stopped
  /\ FlushOf(buffer)
  /\ UNCHANGED <<logged, stopped, running>>

\* shutdown: stopped is set, and the flush that follows looks at it.
Shutdown ==
  /\ running /\ ~stopped /\ stopped' = TRUE
  /\ UNCHANGED <<logged, buffer, file, shed, running, failures>>

\* The process exits, after the shutdown or not.
Exit ==
  /\ running /\ running' = FALSE
  /\ UNCHANGED <<logged, buffer, file, shed, stopped, failures>>

Init ==
  /\ logged = 0 /\ buffer = <<>> /\ file = <<>> /\ shed = {}
  /\ stopped = FALSE /\ running = TRUE /\ failures = 0

Next == Log \/ Flush \/ Shutdown \/ Exit

Spec == Init /\ [][Next]_vars

-----------------------------------------------------------------------------
LogTypeOK ==
  /\ logged \in 0..MaxRecords /\ {buffer, file} \subseteq Seq(1..MaxRecords)
  /\ shed \subseteq 1..logged /\ {stopped, running} \subseteq BOOLEAN
  /\ Len(buffer) <= MaxLines + MaxRecords

\* A failing disk never costs a record that is not the oldest of a full buffer:
\* every record is in the file, in the buffer or was shed, the buffer is in
\* order, and with a disk that works so is the file, without repetition.
LogKeepsOrder ==
  /\ 1..logged = Range(file) \cup Range(buffer) \cup shed
  /\ \A i, j \in DOMAIN buffer : i < j => buffer[i] < buffer[j]
  /\ failures = 0 => file \o buffer = [i \in 1..logged |-> i]

\* "Called on process exit; flushes synchronously and stops" (applog.ts,
\* shutdown): with a disk that works, what was logged before is in the file.
ShutdownFlushes ==
  [][stopped' # stopped /\ failures' = 0 => buffer' = <<>>]_vars
=============================================================================
