----------------------------- MODULE TestService -----------------------------
(***************************************************************************)
(* What POST /tests promises: each request is answered once; the tests     *)
(* that were created are in the table, those that were refused are not;    *)
(* tests are run one after the other, in the order in which they were      *)
(* created and each once; "in progress" is answered only while another     *)
(* test is being created or run.  Nothing is said of flags, channels and   *)
(* goroutines: StressRunner implements this specification.                 *)
(***************************************************************************)
EXTENDS Sequences

CONSTANTS
  Requests,   \* the requests to create a test
  NoTest      \* no test is being created or run

VARIABLES
  answer,     \* what each request was answered, or "none" so far
  holder,     \* the request whose test is being created or run, or NoTest
  listed,     \* the tests in the table
  finished    \* the tests that have been run, in order

vars == <<answer, holder, listed, finished>>

Init ==
  /\ answer = [r \in Requests |-> "none"] /\ holder = NoTest
  /\ listed = {} /\ finished = <<>>

Refuse(r) ==
  /\ answer[r] = "none" /\ r # holder
  /\ \E why \in {"invalid"} \cup (IF holder = NoTest THEN {} ELSE {"conflict"}) :
       answer' = [answer EXCEPT ![r] = why]
  /\ UNCHANGED <<holder, listed, finished>>

Take(r) ==
  /\ answer[r] = "none" /\ holder = NoTest
  /\ holder' = r
  /\ UNCHANGED <<answer, listed, finished>>

List ==
  /\ holder \in Requests \ listed
  /\ listed' = listed \cup {holder}
  /\ UNCHANGED <<answer, holder, finished>>

GiveUp ==
  /\ holder \in Requests \ listed
  /\ answer' = [answer EXCEPT ![holder] = "db_error"]
  /\ holder' = NoTest
  /\ UNCHANGED <<listed, finished>>

Create ==
  /\ holder \in listed /\ answer[holder] = "none"
  /\ answer' = [answer EXCEPT ![holder] = "created"]
  /\ UNCHANGED <<holder, listed, finished>>

IsFinished(r) == \E i \in DOMAIN finished : finished[i] = r

\* The test has been run.
Finish ==
  /\ holder # NoTest /\ answer[holder] = "created" /\ ~ IsFinished(holder)
  /\ finished' = Append(finished, holder)
  /\ UNCHANGED <<answer, holder, listed>>

MakeWay ==
  /\ holder # NoTest /\ IsFinished(holder)
  /\ holder' = NoTest
  /\ UNCHANGED <<answer, listed, finished>>

Next ==
  \/ \E r \in Requests : Refuse(r) \/ Take(r)
  \/ List \/ GiveUp \/ Create \/ Finish \/ MakeWay

Spec == Init /\ [][Next]_vars
=============================================================================
