------------------------------ MODULE RequestLog -----------------------------
(***************************************************************************)
(* What a connection promises about its requests and their rows in         *)
(* request_response_log.  Each request is logged, sent and answered, once  *)
(* and in that order, or given up before it is sent; a follow-up is logged *)
(* when its original has been answered.  The row of a request goes with    *)
(* it: pending while it is on its way, answered when it is, and gone with  *)
(* a request that is dropped.  Nothing is said of channels, maps and       *)
(* goroutines, nor of how rows are found: IsoConnection implements this.   *)
(***************************************************************************)
CONSTANT References   \* field 37 of the originals

VARIABLES
  at,      \* where each request is: new, due, sent, answered, or gone
  row,     \* its row: none, pending or answered
  open,    \* the connection is open
  exact    \* no statement has been lost

vars == <<at, row, open, exact>>

Requests == References \X {"original", "followUp"}

Original(m) == <<m[1], "original">>

\* A request, and the follow-up that depends on it
WithFollowUp(m) == {n \in Requests : n = m \/ (m = Original(n))}

Init ==
  /\ at \in [Requests -> {"new", "gone"}]
  /\ \A m \in Requests : m = Original(m) => at[m] = "new"
  /\ row = [m \in Requests |-> "none"]
  /\ open = TRUE /\ exact = TRUE

\* A statement about the row of m, which may be lost.  Once one has been, a row
\* may be missed or taken for another of its reference, but an answer stays.
Statement(m, status) ==
  \/ /\ exact /\ exact' = TRUE
     /\ row' = [row EXCEPT ![m] = status]
  \/ /\ exact' = FALSE
     /\ row' \in [Requests -> {"none", "pending", "answered"}]
     /\ \A n \in Requests : n[1] # m[1] \/ row[n] = "answered" => row'[n] = row[n]

Log(m) ==
  /\ at[m] = "new" /\ (m # Original(m) => at[Original(m)] = "answered")
  /\ at' = [at EXCEPT ![m] = "due"]
  /\ Statement(m, "pending")
  /\ UNCHANGED open

Send(m) ==
  /\ open /\ at[m] = "due"
  /\ at' = [at EXCEPT ![m] = "sent"]
  /\ UNCHANGED <<row, open, exact>>

Answer(m) ==
  /\ at[m] = "sent"
  /\ at' = [at EXCEPT ![m] = "answered"]
  /\ Statement(m, "answered")
  /\ UNCHANGED open

GiveUp(m) == at' = [n \in Requests |-> IF n \in WithFollowUp(m) THEN "gone" ELSE at[n]]

\* There is no room for it.
Drop(m) ==
  /\ at[m] = "due"
  /\ GiveUp(m)
  /\ Statement(m, "none")
  /\ UNCHANGED open

\* The database does not take its row.
Refuse(m) ==
  /\ at[m] = "new" /\ ~ exact
  /\ GiveUp(m)
  /\ UNCHANGED <<row, open, exact>>

\* The connection breaks while it is being written: its row stays.
Break(m) ==
  /\ at[m] = "due"
  /\ at' = [at EXCEPT ![m] = "gone"]
  /\ open' = FALSE
  /\ UNCHANGED <<row, exact>>

Close == open' = FALSE /\ UNCHANGED <<at, row, exact>>

\* A statement about something else is lost, or the database closed.
Lose == exact' = FALSE /\ UNCHANGED <<at, row, open>>

Next ==
  \/ \E m \in Requests : Log(m) \/ Send(m) \/ Answer(m) \/ Drop(m) \/ Refuse(m) \/ Break(m)
  \/ Close \/ Lose

Spec == Init /\ [][Next]_vars

-----------------------------------------------------------------------------
(* What follows from it.  Proved in IsoConnectionProofs.                   *)

\* While no statement is lost the table can be read as an account of the requests:
\* no row of one that has not begun, a row without an answer for one that is on its
\* way, a row with an answer for one that is answered, and never an answer for one that
\* was given up.
RowsTellAll ==
  exact => \A m \in Requests :
    /\ at[m] = "new" => row[m] = "none"
    /\ at[m] \in {"due", "sent"} => row[m] = "pending"
    /\ at[m] = "answered" => row[m] = "answered"
    /\ at[m] = "gone" => row[m] \in {"none", "pending"}
=============================================================================
