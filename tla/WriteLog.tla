------------------------------ MODULE WriteLog ------------------------------
(***************************************************************************)
(* What database/batch_writer.go promises its callers: one log of          *)
(* accepted writes, applied to the database in order and in chunks, with   *)
(* every write accepted before closing begins settled by the time the log  *)
(* is closed.  Nothing is said of threads, channels or batches:            *)
(* BatchWriter implements this specification.                              *)
(***************************************************************************)
EXTENDS Naturals, Sequences

CONSTANTS
  Op,      \* the writes that may be submitted
  Open     \* the value of closeMark before closing begins, no number

VARIABLES
  accepted,   \* the writes accepted so far, in the order they were accepted
  journal,    \* what became of a prefix of them: applied, or failed and logged
  closeMark,  \* how many were accepted when closing began
  closed      \* the log has stopped applying writes

vars == <<accepted, journal, closeMark, closed>>

-----------------------------------------------------------------------------
Init ==
  /\ accepted = <<>>
  /\ journal = <<>>
  /\ closeMark = Open
  /\ closed = FALSE

Accept ==
  /\ \E op \in Op : accepted' = Append(accepted, op)
  /\ UNCHANGED <<journal, closeMark, closed>>

\* The next writes in line are settled together; each one is applied or fails.
Settle ==
  /\ ~ closed
  /\ Len(journal') \in Len(journal) + 1 .. Len(accepted)
  /\ SubSeq(journal', 1, Len(journal)) = journal
  /\ \A i \in Len(journal) + 1 .. Len(journal') :
       journal'[i] \in [op : {accepted[i]}, applied : BOOLEAN]
  /\ UNCHANGED <<accepted, closeMark, closed>>

BeginClose ==
  /\ closeMark = Open
  /\ closeMark' = Len(accepted)
  /\ UNCHANGED <<accepted, journal, closed>>

EndClose ==
  /\ closeMark # Open
  /\ Len(journal) >= closeMark
  /\ closed' = TRUE
  /\ UNCHANGED <<accepted, journal, closeMark>>

Next == Accept \/ Settle \/ BeginClose \/ EndClose

Spec == Init /\ [][Next]_vars
=============================================================================
