--------------------------- MODULE IsoConnection ----------------------------
(***************************************************************************)
(* One client connection of network/server/iso_server.go: the goroutines   *)
(* that queue stress messages on it (sendSingleMessage), the one that      *)
(* writes them to the socket (HandleChannelEvents), the one that reads the *)
(* client's messages (HandleRead) and what they share: the write channel,  *)
(* sentTimes, followUps and the log tables.                                *)
(*                                                                         *)
(* Writes to the database take effect here when they are queued: the batch *)
(* writer applies them in that order (BatchWriter, ImplementsWriteLog).    *)
(* The log is thus the one a query sees when the writer has caught up.     *)
(***************************************************************************)
EXTENDS Naturals, Sequences, FiniteSets

CONSTANTS
  References,    \* field 37 of the originals sent on this connection, all different
  Templates,     \* the message templates: [mti, followUp]
  NoMTI,         \* the followUp of a template that has none
  ResponseMTIs,  \* responseMTISet
  QueueSize,     \* writeChannelSize
  MaxPlain,      \* messages sent that are no stress requests (a bound)
  MaxFaults      \* statements the database fails to apply (a bound)

ASSUME IsoConnectionAssumption ==
  /\ QueueSize \in Nat \ {0}
  /\ MaxPlain \in Nat /\ MaxFaults \in Nat

VARIABLES
  sender,      \* where the goroutine sending each reference is
  template,    \* the template it picked
  queue,       \* writeChannel
  writer,      \* HandleChannelEvents: wait, write or stopped
  out,         \* the message it took from the queue
  sentTimes,   \* requests written or being written, not yet answered: [key, mti]
  followUps,   \* references with a follow-up waiting for the original's response
  reader,      \* HandleRead: read, update, followUp, log, send or stopped
  answer,      \* the request whose response HandleRead is handling
  inFlight,    \* requests at the client, or whose responses are on their way back
  plain,       \* plain messages begun: incoming requests and SendMessage calls
  responding,  \* respond goroutines that have yet to queue their response
  closed,      \* the connection is closed
  log,         \* rows of request_response_log
  scheduled,   \* references in scheduled_message: none, waiting or sent
  dbOpen,      \* the batch writer accepts writes
  \* history variables
  faults,      \* statements lost so far
  written,     \* the requests that have been written to the socket
  unmatched    \* the responses of requests that matched nothing

senderVars == <<sender, template>>
writerVars == <<writer, out, written>>
readerVars == <<reader, answer, unmatched>>
plainVars == <<plain, responding>>
dbVars == <<log, scheduled, faults>>
vars == <<senderVars, queue, writerVars, sentTimes, followUps, readerVars, inFlight,
          plainVars, closed, dbVars, dbOpen>>

-----------------------------------------------------------------------------
(* Messages.  An MTI is its four digits.  "stage" tells an original from   *)
(* its follow-up where the code cannot: both may have the same MTI.        *)

Stages == {"original", "followUp"}

MtiOf(r, stage) == IF stage = "original" THEN template[r].mti ELSE template[r].followUp

Request(r, stage) == [reference |-> r, mti |-> MtiOf(r, stage), stage |-> stage]

\* A queue entry without a reference: a response to the client, or SendMessage's
Plain == [reference |-> "", mti |-> NoMTI, stage |-> "plain"]

\* The client's responseMTI: the function digit, made odd
ResponseMTI(mti) == [mti EXCEPT ![3] = @ + 1]

\* The MTI of a request: an even function digit, and a response taken for one
IsRequest(mti) == mti \in [1 .. 4 -> 0 .. 9] /\ mti[3] % 2 = 0 /\ ResponseMTI(mti) \in ResponseMTIs

\* The templates, and what follows them, are requests.
ASSUME TemplatesAssumption ==
  \A t \in Templates : IsRequest(t.mti) /\ (t.followUp = NoMTI \/ IsRequest(t.followUp))

\* A mutant of MatchKey: the function digit is left as it is.
ExactKey(mti, r) == <<mti, r>>

\* matchKey: the function digit made even, and the reference
MatchKey(mti, r) == <<[mti EXCEPT ![3] = @ - (@ % 2)], r>>

NoFollowUp(r) == template[r].followUp = NoMTI

-----------------------------------------------------------------------------
(* The database.  A queued statement may fail (faults); once the writer is *)
(* closed enqueue refuses it, or accepts it and it is never applied.       *)

Row(m) == [reference |-> m.reference, mti |-> m.mti, stage |-> m.stage, answeredBy |-> "none"]

Unanswered(r, mti) ==
  {row \in log : row.reference = r /\ row.mti = mti /\ row.answeredBy = "none"}

\* The write is accepted, and applied unless it is lost.
Accepted(newLog, newScheduled) ==
  \/ /\ dbOpen
     /\ log' = newLog /\ scheduled' = newScheduled
     /\ UNCHANGED faults
  \/ /\ dbOpen /\ faults < MaxFaults
     /\ faults' = faults + 1
     /\ UNCHANGED <<log, scheduled>>
  \/ /\ ~ dbOpen
     /\ UNCHANGED <<log, scheduled, faults>>

\* errDBClosed
Refused == ~ dbOpen /\ UNCHANGED dbVars

\* A mutant of DeleteRequestLog, and one of AddRequestLog: nothing is changed.
LeaveRequestLog(m) == Accepted(log, scheduled)

AddRequestLog(m) == Accepted(log \cup {Row(m)}, scheduled)

\* A mutant of UpdateResponseTime, without "time_taken IS NULL".
UpdateAnswered(r, mti, stage) ==
  Accepted({IF row.reference = r /\ row.mti = mti THEN [row EXCEPT !.answeredBy = stage] ELSE row :
              row \in log}, scheduled)

\* UpdateResponseTime: every unanswered row with that reference and MTI; the
\* stage of the response is remembered in answeredBy.
UpdateResponseTime(r, mti, stage) ==
  Accepted((log \ Unanswered(r, mti))
             \cup {[row EXCEPT !.answeredBy = stage] : row \in Unanswered(r, mti)},
           scheduled)

DeleteRequestLog(m) == Accepted(log \ Unanswered(m.reference, m.mti), scheduled)

AddScheduledMessage(r) == Accepted(log, [scheduled EXCEPT ![r] = "waiting"])

MarkScheduledMessageSent(r) ==
  Accepted(log, [scheduled EXCEPT ![r] = IF @ = "none" THEN @ ELSE "sent"])

-----------------------------------------------------------------------------
Init ==
  /\ sender = [r \in References |-> "idle"]
  /\ template \in [References -> Templates]
  /\ queue = <<>>
  /\ writer = "wait" /\ out = Plain /\ written = {}
  /\ sentTimes = {} /\ followUps = {}
  /\ reader = "read" /\ answer = Plain /\ unmatched = {}
  /\ inFlight = {}
  /\ plain = 0 /\ responding = 0
  /\ closed = FALSE
  /\ log = {} /\ scheduled = [r \in References |-> "none"] /\ faults = 0
  /\ dbOpen = TRUE

-----------------------------------------------------------------------------
(* sendSingleMessage, run by the stress workers                            *)

\* A mutant of Forget: the entry is only looked up.
Remember(r) == UNCHANGED followUps

\* followUps.Delete and LoadAndDelete
Forget(r) == followUps' = followUps \ {r}

\* A template with a follow-up: the scheduled_message row and the followUps
\* entry come before the original is queued.
Register(r) ==
  /\ sender[r] = "idle"
  /\ sender' = [sender EXCEPT ![r] = "log"]
  /\ IF NoFollowUp(r)
     THEN UNCHANGED <<followUps, dbVars>>
     ELSE /\ AddScheduledMessage(r)
          /\ followUps' = followUps \cup {r}
  /\ UNCHANGED <<template, queue, writerVars, sentTimes, readerVars, inFlight, plainVars,
                 closed, dbOpen>>

\* The log row comes before the message is queued.
LogRequest(r) ==
  /\ sender[r] = "log"
  /\ \/ /\ AddRequestLog(Request(r, "original"))
        /\ sender' = [sender EXCEPT ![r] = "queue"]
        /\ UNCHANGED followUps
     \/ /\ Refused
        /\ sender' = [sender EXCEPT ![r] = "refused"]
        /\ Forget(r)
  /\ UNCHANGED <<template, queue, writerVars, sentTimes, readerVars, inFlight, plainVars,
                 closed, dbOpen>>

\* The select on writeChannel: queued, or dropped and its traces removed.
QueueRequest(r) ==
  /\ sender[r] = "queue"
  /\ \/ /\ Len(queue) < QueueSize
        /\ queue' = Append(queue, Request(r, "original"))
        /\ sender' = [sender EXCEPT ![r] = "queued"]
        /\ UNCHANGED <<followUps, dbVars>>
     \/ /\ Len(queue) = QueueSize
        /\ Forget(r)
        /\ DeleteRequestLog(Request(r, "original")) \/ Refused
        /\ sender' = [sender EXCEPT ![r] = "dropped"]
        /\ UNCHANGED queue
  /\ UNCHANGED <<template, writerVars, sentTimes, readerVars, inFlight, plainVars, closed,
                 dbOpen>>

Send(r) == Register(r) \/ LogRequest(r) \/ QueueRequest(r)

-----------------------------------------------------------------------------
(* HandleChannelEvents                                                     *)

\* Take a message; a request is entered in sentTimes before it is written.
Take ==
  /\ writer = "wait" /\ queue # <<>>
  /\ out' = Head(queue)
  /\ queue' = Tail(queue)
  /\ writer' = "write"
  /\ LET m == Head(queue)
         key == MatchKey(m.mti, m.reference)
     IN  sentTimes' =
           IF m = Plain THEN sentTimes
           ELSE {s \in sentTimes : s.key # key} \cup {[key |-> key, mti |-> m.mti]}
  /\ UNCHANGED <<senderVars, written, followUps, readerVars, inFlight, plainVars, closed,
                 dbVars, dbOpen>>

\* The write succeeds: the client gets the message.
Write ==
  /\ writer = "write" /\ ~ closed
  /\ writer' = "wait"
  /\ IF out = Plain THEN UNCHANGED <<written, inFlight>>
     ELSE /\ written' = written \cup {out}
          /\ inFlight' = inFlight \cup {out}
  /\ UNCHANGED <<senderVars, queue, out, sentTimes, followUps, readerVars, plainVars, closed,
                 dbVars, dbOpen>>

\* The write fails, always on a closed socket: Close, and the loop ends.
WriteFails ==
  /\ writer = "write"
  /\ closed' = TRUE
  /\ writer' = "stopped"
  /\ UNCHANGED <<senderVars, queue, out, written, sentTimes, followUps, readerVars, inFlight,
                 plainVars, dbVars, dbOpen>>

\* The select picks closeChannel, even when messages are queued.
WriterStops ==
  /\ writer = "wait" /\ closed
  /\ writer' = "stopped"
  /\ UNCHANGED <<senderVars, queue, out, written, sentTimes, followUps, readerVars, inFlight,
                 plainVars, closed, dbVars, dbOpen>>

-----------------------------------------------------------------------------
(* HandleRead.  The client (network/client) answers each request once,     *)
(* from a goroutine of its own, so responses come in any order.            *)

ReadResponse(m) ==
  /\ reader = "read" /\ ~ closed
  /\ inFlight' = inFlight \ {m}
  /\ LET mti == ResponseMTI(m.mti)
         sent == {s \in sentTimes : s.key = MatchKey(mti, m.reference)}
     IN  \/ /\ mti \in ResponseMTIs /\ sent # {}
            /\ sentTimes' = sentTimes \ sent
            /\ \E s \in sent : answer' = [m EXCEPT !.mti = s.mti]
            /\ reader' = "update"
            /\ UNCHANGED unmatched
         \/ /\ mti \notin ResponseMTIs \/ sent = {}
            /\ unmatched' = unmatched \cup {m}
            /\ UNCHANGED <<sentTimes, reader, answer>>
  /\ UNCHANGED <<senderVars, queue, writerVars, followUps, plainVars, closed, dbVars, dbOpen>>

RecordAnswer ==
  /\ reader = "update"
  /\ UpdateResponseTime(answer.reference, answer.mti, answer.stage) \/ Refused
  /\ reader' = "followUp"
  /\ UNCHANGED <<senderVars, queue, writerVars, sentTimes, followUps, answer, unmatched,
                 inFlight, plainVars, closed, dbOpen>>

TakeFollowUp ==
  /\ reader = "followUp"
  /\ Forget(answer.reference)
  /\ reader' = IF answer.reference \in followUps THEN "log" ELSE "read"
  /\ UNCHANGED <<senderVars, queue, writerVars, sentTimes, answer, unmatched, inFlight,
                 plainVars, closed, dbVars, dbOpen>>

\* sendFollowUp, as far as the row
LogFollowUp ==
  /\ reader = "log"
  /\ \/ AddRequestLog(Request(answer.reference, "followUp")) /\ reader' = "send"
     \/ Refused /\ reader' = "read"
  /\ UNCHANGED <<senderVars, queue, writerVars, sentTimes, followUps, answer, unmatched,
                 inFlight, plainVars, closed, dbOpen>>

\* sendFollowUp, the select: queued and marked sent, or dropped
QueueFollowUp ==
  /\ reader = "send"
  /\ reader' = "read"
  /\ LET m == Request(answer.reference, "followUp")
     IN  \/ /\ Len(queue) < QueueSize
            /\ queue' = Append(queue, m)
            /\ MarkScheduledMessageSent(m.reference) \/ Refused
         \/ /\ Len(queue) = QueueSize
            /\ DeleteRequestLog(m) \/ Refused
            /\ UNCHANGED queue
  /\ UNCHANGED <<senderVars, writerVars, sentTimes, followUps, answer, unmatched, inFlight,
                 plainVars, closed, dbOpen>>

\* A read fails, always on a closed socket: the loop ends with Close.
ReadFails ==
  /\ reader = "read"
  /\ reader' = "stopped"
  /\ closed' = TRUE
  /\ UNCHANGED <<senderVars, queue, writerVars, sentTimes, followUps, answer, unmatched,
                 inFlight, plainVars, dbVars, dbOpen>>

\* A request from the client: its response is queued by a goroutine of its own.
ReadRequest ==
  /\ reader = "read" /\ ~ closed
  /\ plain < MaxPlain
  /\ plain' = plain + 1 /\ responding' = responding + 1
  /\ UNCHANGED <<senderVars, queue, writerVars, sentTimes, followUps, readerVars, inFlight,
                 closed, dbVars, dbOpen>>

-----------------------------------------------------------------------------
(* Messages without a reference, queued if there is room                   *)

QueuePlain ==
  IF Len(queue) < QueueSize THEN queue' = Append(queue, Plain) ELSE UNCHANGED queue

Respond ==
  /\ responding > 0
  /\ responding' = responding - 1
  /\ QueuePlain
  /\ UNCHANGED <<senderVars, writerVars, sentTimes, followUps, readerVars, inFlight, plain,
                 closed, dbVars, dbOpen>>

SendMessage ==
  /\ plain < MaxPlain
  /\ plain' = plain + 1
  /\ QueuePlain
  /\ UNCHANGED <<senderVars, writerVars, sentTimes, followUps, readerVars, inFlight, responding,
                 closed, dbVars, dbOpen>>

-----------------------------------------------------------------------------
(* Close, called by a failed connection test or by Stop; closeOnce makes   *)
(* later calls do nothing.  The database is closed at shutdown.            *)

Close ==
  /\ ~ closed
  /\ closed' = TRUE
  /\ UNCHANGED <<senderVars, queue, writerVars, sentTimes, followUps, readerVars, inFlight,
                 plainVars, dbVars, dbOpen>>

CloseDB ==
  /\ dbOpen
  /\ dbOpen' = FALSE
  /\ UNCHANGED <<senderVars, queue, writerVars, sentTimes, followUps, readerVars, inFlight,
                 plainVars, closed, dbVars>>

-----------------------------------------------------------------------------
Writer == Take \/ Write \/ WriteFails \/ WriterStops
Reader ==
  \/ \E m \in inFlight : ReadResponse(m)
  \/ RecordAnswer \/ TakeFollowUp \/ LogFollowUp \/ QueueFollowUp \/ ReadFails \/ ReadRequest

Next ==
  \/ \E r \in References : Send(r)
  \/ Writer \/ Reader \/ Respond \/ SendMessage \/ Close \/ CloseDB

Spec == Init /\ [][Next]_vars

(***************************************************************************)
(* Fairness: every goroutine that can go on does, and the client answers   *)
(* every request.  Errors, Close and shutdown never have to happen, and    *)
(* neither do incoming requests or SendMessage calls.                      *)
(***************************************************************************)
Fairness ==
  /\ \A r \in References : WF_vars(LogRequest(r)) /\ WF_vars(QueueRequest(r))
  /\ WF_vars(Take) /\ WF_vars(Write \/ WriteFails)
  /\ WF_vars(RecordAnswer) /\ WF_vars(TakeFollowUp)
  /\ WF_vars(LogFollowUp) /\ WF_vars(QueueFollowUp)
  /\ WF_vars(\E m \in inFlight : ReadResponse(m))

FairSpec == Spec /\ Fairness

-----------------------------------------------------------------------------
(* Safety                                                                  *)

TypeOK ==
  /\ sender \in [References -> {"idle", "log", "queue", "queued", "dropped", "refused"}]
  /\ template \in [References -> Templates]
  /\ Len(queue) <= QueueSize
  /\ writer \in {"wait", "write", "stopped"}
  /\ followUps \subseteq References
  /\ reader \in {"read", "update", "followUp", "log", "send", "stopped"}
  /\ inFlight \subseteq written
  /\ plain \in 0 .. MaxPlain /\ responding \in 0 .. plain
  /\ closed \in BOOLEAN /\ dbOpen \in BOOLEAN
  /\ \A row \in log : row.answeredBy \in Stages \cup {"none"}
  /\ scheduled \in [References -> {"none", "waiting", "sent"}]
  /\ faults \in 0 .. MaxFaults

\* The requests the program still has to do something with.
Queued == {queue[i] : i \in 1 .. Len(queue)}
BeingWritten == IF writer = "write" THEN {out} ELSE {}
BeingAnswered == IF reader = "update" THEN {answer} ELSE {}
Awaited == (Queued \cup BeingWritten \cup inFlight \cup BeingAnswered) \ {Plain}

\* Every statement so far has been applied.
Reliable == faults = 0 /\ dbOpen

\* Everything queued, written or being answered has one unanswered log row with
\* its reference and MTI, and it is its own: the UPDATE of its response will hit
\* that row and no other, also when a follow-up has its original's MTI.
AwaitedHasItsRow ==
  Reliable => \A m \in Awaited : Unanswered(m.reference, m.mti) = {Row(m)}

\* An answer is recorded on the row of the request it answers.  The exception:
\* the statement recording the original's answer was lost, and the follow-up,
\* with the same reference and MTI, is answered on both rows.
RightRowAnswered ==
  \A row \in log :
    \/ row.answeredBy \in {"none", row.stage}
    \/ ~ Reliable /\ template[row.reference].mti = template[row.reference].followUp

\* While the connection is open and statements are applied, an unanswered row is
\* of a request that is on its way: nothing dropped is left counting as a
\* request without a response.
UnansweredIsOnItsWay ==
  (Reliable /\ ~ closed) =>
    \A row \in log : row.answeredBy = "none" =>
      \/ \E m \in Awaited : Row(m) = row
      \/ row.stage = "original" /\ sender[row.reference] = "queue"
      \/ row.stage = "followUp" /\ reader = "send" /\ answer.reference = row.reference

\* A response of the client always finds its request in sentTimes: the entry is
\* made before the write, and neither a reused key (a follow-up with the
\* original's MTI) nor another request's response takes it away.
NoneUnmatched == unmatched = {}

\* No request reaches the client twice; a follow-up only goes to the client after
\* its original has been answered, and is recorded as sent only if it goes.
SentOnceInOrder ==
  /\ (Queued \cup BeingWritten) \cap written \subseteq {Plain}
  /\ \A i, j \in 1 .. Len(queue) : queue[i] = queue[j] /\ queue[i] # Plain => i = j
  /\ \A m \in Awaited : m.stage = "followUp" =>
       /\ Request(m.reference, "original") \in written
       /\ Request(m.reference, "original") \notin Awaited
  /\ \A r \in References : scheduled[r] = "sent" =>
       closed \/ Request(r, "followUp") \in Awaited \cup written

\* A follow-up is registered only while its original can still be answered:
\* dropped, refused and answered originals leave no entry behind in followUps.
FollowUpHasItsOriginal ==
  \A r \in followUps :
    \/ sender[r] \in {"log", "queue"}
    \/ sender[r] = "queued" /\
         \/ Request(r, "original") \in Awaited
         \/ reader = "followUp" /\ answer.reference = r
         \/ closed

-----------------------------------------------------------------------------
(* Liveness                                                                *)

\* As long as the connection stays open, a logged request is answered, or found
\* to have been dropped, or its answer is lost by the database.
AnsweredOrDropped ==
  \A r \in References, stage \in Stages :
    (\E row \in log : row.reference = r /\ row.stage = stage /\ row.answeredBy = "none")
      ~> \/ closed \/ ~ Reliable
         \/ \A row \in log : row.reference = r /\ row.stage = stage => row.answeredBy # "none"

\* As long as the connection stays open a registered follow-up is taken up or
\* discarded: followUps does not grow with the number of requests sent.
FollowUpsTaken == \A r \in References : r \in followUps ~> (closed \/ r \notin followUps)

-----------------------------------------------------------------------------
(* Refinement                                                              *)

\* Where a request is once it has been queued, if it has
Whereabouts(m) ==
  IF m \in Queued \cup BeingWritten THEN "due"
  ELSE IF m \in Awaited THEN "sent"
  ELSE IF m \in written THEN "answered" ELSE "gone"

\* HandleRead has the follow-up of r in hand.
InHand(r, stage) == reader = stage /\ answer.reference = r

\* The follow-up of r may yet be logged.
Ahead(r) ==
  \/ sender[r] = "idle" /\ ~ NoFollowUp(r)
  \/ r \in followUps
  \/ InHand(r, "log")

\* Before it is queued, an original is where sendSingleMessage has it.
OriginalAt(r) ==
  IF sender[r] \in {"idle", "log"} THEN "new"
  ELSE IF sender[r] = "queue" THEN "due"
  ELSE Whereabouts(Request(r, "original"))

\* Before it is queued, a follow-up is where followUps and HandleRead have it.
FollowUpAt(r) ==
  IF InHand(r, "send") THEN "due"
  ELSE IF Ahead(r) THEN "new"
  ELSE Whereabouts(Request(r, "followUp"))

\* What its rows say of a request
RowsOf(r, stage) == {row \in log : row.reference = r /\ row.stage = stage}

Status(r, stage) ==
  IF RowsOf(r, stage) = {} THEN "none"
  ELSE IF \E row \in RowsOf(r, stage) : row.answeredBy = "none" THEN "pending" ELSE "answered"

Place == [m \in References \X Stages |-> IF m[2] = "original" THEN OriginalAt(m[1]) ELSE FollowUpAt(m[1])]
RowStatus == [m \in References \X Stages |-> Status(m[1], m[2])]

RequestLog == INSTANCE RequestLog WITH
  at <- Place, row <- RowStatus, open <- ~ closed, exact <- Reliable

\* Queueing, writing and reading on the connection, with rows that are found by reference
\* and MTI, implement RequestLog: whatever is full, closed, lost or answered out of order,
\* each request goes its way once, and while no statement is lost its row, and no other,
\* goes with it.
ImplementsRequestLog == RequestLog!Spec
=============================================================================
