------------------------- MODULE IsoConnectionProofs -------------------------
(***************************************************************************)
(* Proofs about IsoConnection, for any references, templates of requests,  *)
(* size of the write channel, plain messages and lost statements.          *)
(***************************************************************************)
EXTENDS IsoConnection, SequenceTheorems, TLAPS

-----------------------------------------------------------------------------
(* Messages                                                                *)

O(r) == Request(r, "original")
F(r) == Request(r, "followUp")

Originals == {O(r) : r \in References}
Message == Originals \cup {F(r) : r \in {q \in References : ~ NoFollowUp(q)}}

\* What sentTimes has for a message.
Entry(m) == [key |-> MatchKey(m.mti, m.reference), mti |-> m.mti]

\* Everything that is in the write channel, is being written or has been written
Sent == Queued \cup BeingWritten \cup written

\* HandleRead has an answer in hand.
Active == reader \in {"update", "followUp", "log", "send"}

\* Messages are told apart by reference and stage, whatever their MTIs.
LEMMA MessagesDiffer ==
  ASSUME NEW r \in References, NEW q \in References
  PROVE  /\ O(r).reference = r /\ F(r).reference = r /\ O(r).stage = "original" /\ F(r).stage = "followUp"
         /\ O(r) = O(q) => r = q
         /\ F(r) = F(q) => r = q
         /\ O(r) # F(q) /\ O(r) # Plain /\ F(r) # Plain
<1>1. /\ O(r).reference = r /\ F(r).reference = r /\ O(r).stage = "original" /\ F(r).stage = "followUp"
      /\ O(q).reference = q /\ F(q).reference = q /\ F(q).stage = "followUp"
  BY DEF O, F, Request
<1>2. Plain.stage = "plain"
  BY DEF Plain
<1> QED BY <1>1, <1>2

\* The template of a reference is picked once.
LEMMA TemplateStays == [Next]_vars => template' = template
  BY DEF Next, Send, Register, LogRequest, QueueRequest, Writer, Take, Write, WriteFails, WriterStops,
         Reader, ReadResponse, RecordAnswer, TakeFollowUp, LogFollowUp, QueueFollowUp, ReadFails,
         ReadRequest, Respond, SendMessage, Close, CloseDB, senderVars, vars

LEMMA MessagesStay ==
  ASSUME template' = template
  PROVE  /\ \A r : O(r)' = O(r) /\ F(r)' = F(r) /\ (NoFollowUp(r)' <=> NoFollowUp(r))
         /\ \A m : Entry(m)' = Entry(m)
         /\ Message' = Message
<1>1. \A r : O(r)' = O(r) /\ F(r)' = F(r) /\ (NoFollowUp(r)' <=> NoFollowUp(r))
  BY DEF O, F, Request, MtiOf, NoFollowUp
<1>2. \A m : Entry(m)' = Entry(m)
  BY DEF Entry, MatchKey
<1>3. Message' = Message
  BY <1>1 DEF Message, Originals
<1> QED BY <1>1, <1>2, <1>3

\* What responseMTI makes of a request is a response, and has the request's key.
LEMMA KeyOfResponse ==
  ASSUME NEW mti, IsRequest(mti), NEW r
  PROVE  /\ ResponseMTI(mti) \in ResponseMTIs
         /\ MatchKey(mti, r) = <<mti, r>>
         /\ MatchKey(ResponseMTI(mti), r) = <<mti, r>>
<1>1. mti \in [1 .. 4 -> 0 .. 9] /\ mti[3] % 2 = 0 /\ ResponseMTI(mti) \in ResponseMTIs
  BY DEF IsRequest
<1>2. mti[3] \in Nat
  BY <1>1
<1>3. (mti[3] + 1) % 2 = 1
  BY <1>1, <1>2
<1> DEFINE resp == ResponseMTI(mti)
<1>4. resp = [i \in 1 .. 4 |-> IF i = 3 THEN mti[3] + 1 ELSE mti[i]]
  BY <1>1 DEF ResponseMTI
<1>5. [mti EXCEPT ![3] = @ - (@ % 2)] = mti
  <2>1. mti[3] - (mti[3] % 2) = mti[3]
    BY <1>1, <1>2
  <2> QED BY <1>1, <2>1
<1>6. [resp EXCEPT ![3] = @ - (@ % 2)] = mti
  <2>1. resp[3] = mti[3] + 1
    BY <1>4
  <2>2. resp[3] - (resp[3] % 2) = mti[3]
    BY <1>2, <1>3, <2>1
  <2>3. [resp EXCEPT ![3] = @ - (@ % 2)] = [i \in 1 .. 4 |-> IF i = 3 THEN mti[3] ELSE mti[i]]
    BY <1>4, <2>2
  <2>4. [i \in 1 .. 4 |-> IF i = 3 THEN mti[3] ELSE mti[i]] = mti
    BY <1>1
  <2> QED BY <2>3, <2>4
<1> QED BY <1>1, <1>5, <1>6 DEF MatchKey

-----------------------------------------------------------------------------
(* Type correctness                                                        *)

\* A message's parts
LEMMA MessageParts ==
  ASSUME template \in [References -> Templates], NEW m \in Message
  PROVE  /\ m.reference \in References /\ m.stage \in Stages /\ m # Plain
         /\ IsRequest(m.mti)
         /\ m = O(m.reference) \/ m = F(m.reference)
         /\ m.stage = "original" => m = O(m.reference)
         /\ m.stage = "followUp" => m = F(m.reference) /\ ~ NoFollowUp(m.reference)
<1>1. CASE m \in Originals
  <2>1. PICK r \in References : m = O(r)
    BY <1>1 DEF Originals
  <2>2. IsRequest(template[r].mti) /\ m.mti = template[r].mti
    BY <2>1, TemplatesAssumption DEF TemplatesAssumption, O, Request, MtiOf
  <2> QED BY <2>1, <2>2, MessagesDiffer DEF Stages
<1>2. CASE \E r \in References : ~ NoFollowUp(r) /\ m = F(r)
  <2>1. PICK r \in References : ~ NoFollowUp(r) /\ m = F(r)
    BY <1>2
  <2>2. IsRequest(template[r].followUp) /\ m.mti = template[r].followUp
    BY <2>1, TemplatesAssumption DEF TemplatesAssumption, NoFollowUp, F, Request, MtiOf
  <2> QED BY <2>1, <2>2, MessagesDiffer DEF Stages
<1> QED BY <1>1, <1>2 DEF Message

\* The types of what statements change
Rows == [reference : References, mti : [1 .. 4 -> 0 .. 9], stage : Stages, answeredBy : Stages \cup {"none"}]
Marks == [References -> {"none", "waiting", "sent"}]
DbTyped == log \subseteq Rows /\ scheduled \in Marks /\ faults \in 0 .. MaxFaults

Typed ==
  /\ TypeOK /\ log \subseteq Rows
  /\ queue \in Seq(Message \cup {Plain})
  /\ written \subseteq Message
  /\ writer = "write" => out \in Message \cup {Plain}
  /\ Active => answer \in written
  /\ \A s \in sentTimes : \E m \in Message : s = Entry(m)
  /\ \A r \in followUps : ~ NoFollowUp(r)
  /\ reader \in {"log", "send"} => answer.reference \in References /\ ~ NoFollowUp(answer.reference)

LEMMA DbStep ==
  ASSUME DbTyped, NEW newLog \in SUBSET Rows, NEW newScheduled \in Marks,
         Accepted(newLog, newScheduled)
  PROVE  DbTyped'
  BY IsoConnectionAssumption DEF DbTyped, Accepted, IsoConnectionAssumption

\* Each statement keeps the types of the tables.
LEMMA StatementsTyped ==
  ASSUME DbTyped, template \in [References -> Templates]
  PROVE  /\ \A m \in Message : AddRequestLog(m) \/ DeleteRequestLog(m) => DbTyped'
         /\ \A r, mti : \A stage \in Stages : UpdateResponseTime(r, mti, stage) => DbTyped'
         /\ \A r \in References : AddScheduledMessage(r) \/ MarkScheduledMessageSent(r) => DbTyped'
         /\ Refused \/ UNCHANGED dbVars => DbTyped'
<1>1. ASSUME NEW m \in Message, AddRequestLog(m) PROVE DbTyped'
  <2>1. Row(m) \in Rows
    BY MessageParts DEF Row, Rows, IsRequest
  <2> QED BY <1>1, <2>1, DbStep DEF AddRequestLog, DbTyped
<1>2. ASSUME NEW m, DeleteRequestLog(m) PROVE DbTyped'
  BY <1>2, DbStep DEF DeleteRequestLog, DbTyped
<1>3. ASSUME NEW r, NEW mti, NEW stage \in Stages, UpdateResponseTime(r, mti, stage) PROVE DbTyped'
  <2> DEFINE old == Unanswered(r, mti)
             new == (log \ old) \cup {[row EXCEPT !.answeredBy = stage] : row \in old}
  <2>1. ASSUME NEW row \in Rows PROVE [row EXCEPT !.answeredBy = stage] \in Rows
    BY DEF Rows
  <2>2. old \subseteq Rows /\ log \subseteq Rows
    BY DEF Unanswered, DbTyped
  <2>3. new \in SUBSET Rows
    BY <2>1, <2>2
  <2> QED BY <1>3, <2>3, DbStep DEF UpdateResponseTime, DbTyped
<1>4. ASSUME NEW r \in References, AddScheduledMessage(r) PROVE DbTyped'
  <2>1. [scheduled EXCEPT ![r] = "waiting"] \in Marks
    BY DEF DbTyped, Marks
  <2> QED BY <1>4, <2>1, DbStep DEF AddScheduledMessage, DbTyped
<1>5. ASSUME NEW r \in References, MarkScheduledMessageSent(r) PROVE DbTyped'
  <2>1. [scheduled EXCEPT ![r] = IF @ = "none" THEN @ ELSE "sent"] \in Marks
    BY DEF DbTyped, Marks
  <2> QED BY <1>5, <2>1, DbStep DEF MarkScheduledMessageSent, DbTyped
<1>6. ASSUME Refused \/ UNCHANGED dbVars PROVE DbTyped'
  BY <1>6 DEF DbTyped, Refused, dbVars
<1> QED BY <1>1, <1>2, <1>3, <1>4, <1>5, <1>6

LEMMA TypedInit == Init => Typed
<1> SUFFICES ASSUME Init PROVE Typed
  OBVIOUS
<1>1. /\ sender \in [References -> {"idle", "log", "queue", "queued", "dropped", "refused"}]
      /\ scheduled \in [References -> {"none", "waiting", "sent"}]
  BY DEF Init
<1>2. Len(queue) <= QueueSize /\ queue \in Seq(Message \cup {Plain})
  BY EmptySeq, IsoConnectionAssumption DEF Init, IsoConnectionAssumption
<1>3. plain \in 0 .. MaxPlain /\ responding \in 0 .. plain /\ faults \in 0 .. MaxFaults
  BY IsoConnectionAssumption DEF Init, IsoConnectionAssumption
<1>4. TypeOK
  BY <1>1, <1>2, <1>3 DEF Init, TypeOK
<1> QED BY <1>2, <1>4 DEF Init, Typed, Active

\* The channel before and after a send and a receive
Distinct == \A i, j \in 1 .. Len(queue) : queue[i] = queue[j] /\ queue[i] # Plain => i = j

LEMMA QueueGrows ==
  ASSUME NEW S, queue \in Seq(S), NEW m \in S, queue' = Append(queue, m)
  PROVE  /\ queue' \in Seq(S) /\ Len(queue') = Len(queue) + 1
         /\ Queued' = Queued \cup {m}
         /\ Distinct /\ (m \in Queued => m = Plain) => Distinct'
<1>1. /\ queue' \in Seq(S) /\ Len(queue') = Len(queue) + 1
      /\ \A i \in 1 .. Len(queue) : queue'[i] = queue[i]
      /\ queue'[Len(queue) + 1] = m
      /\ Len(queue) \in Nat
  BY AppendProperties, LenProperties
<1>2. 1 .. Len(queue') = (1 .. Len(queue)) \cup {Len(queue) + 1}
  BY <1>1
<1>3. Queued' = Queued \cup {m}
  BY <1>1, <1>2 DEF Queued
<1>4. ASSUME Distinct, m \in Queued => m = Plain PROVE Distinct'
  <2> SUFFICES ASSUME NEW i \in 1 .. Len(queue'), NEW j \in 1 .. Len(queue'),
                      queue'[i] = queue'[j], queue'[i] # Plain
               PROVE  i = j
    BY DEF Distinct
  <2>1. \A k \in 1 .. Len(queue) : queue[k] \in Queued
    BY DEF Queued
  <2> QED BY <1>1, <1>2, <1>4, <2>1 DEF Distinct
<1> QED BY <1>1, <1>3, <1>4

LEMMA QueueShrinks ==
  ASSUME NEW S, queue \in Seq(S), queue # <<>>, queue' = Tail(queue)
  PROVE  /\ queue' \in Seq(S) /\ Len(queue') = Len(queue) - 1
         /\ Head(queue) \in S
         /\ Queued = Queued' \cup {Head(queue)}
         /\ Distinct => Distinct' /\ (Head(queue) \in Queued' => Head(queue) = Plain)
<1>1. /\ queue' \in Seq(S) /\ Len(queue') = Len(queue) - 1 /\ Len(queue) \in Nat \ {0}
      /\ \A i \in 1 .. Len(queue') : queue'[i] = queue[i + 1]
      /\ Head(queue) = queue[1] /\ Head(queue) \in S
  BY HeadTailProperties, LenProperties, EmptySeq
<1>2. Queued = Queued' \cup {Head(queue)}
  <2>1. \A i \in 1 .. Len(queue') : queue'[i] \in Queued
    BY <1>1 DEF Queued
  <2>2. \A i \in 1 .. Len(queue) : i = 1 \/ (i - 1 \in 1 .. Len(queue') /\ queue[i] = queue'[i - 1])
    BY <1>1
  <2>3. queue[1] \in Queued
    BY <1>1 DEF Queued
  <2>4. Queued \subseteq Queued' \cup {Head(queue)}
    <3> SUFFICES ASSUME NEW i \in 1 .. Len(queue) PROVE queue[i] \in Queued' \cup {Head(queue)}
      BY DEF Queued
    <3>1. CASE i = 1
      BY <1>1, <3>1
    <3>2. CASE i - 1 \in 1 .. Len(queue') /\ queue[i] = queue'[i - 1]
      BY <3>2 DEF Queued
    <3> QED BY <2>2, <3>1, <3>2
  <2>5. Queued' \subseteq Queued
    BY <2>1 DEF Queued
  <2> QED BY <1>1, <2>3, <2>4, <2>5
<1>3. ASSUME Distinct PROVE Distinct'
  <2> SUFFICES ASSUME NEW i \in 1 .. Len(queue'), NEW j \in 1 .. Len(queue'),
                      queue'[i] = queue'[j], queue'[i] # Plain
               PROVE  i = j
    BY DEF Distinct
  <2>1. i + 1 \in 1 .. Len(queue) /\ j + 1 \in 1 .. Len(queue) /\ i \in Nat /\ j \in Nat
    BY <1>1
  <2>2. queue[i + 1] = queue[j + 1] /\ queue[i + 1] # Plain
    BY <1>1
  <2>3. i + 1 = j + 1
    BY <1>3, <2>1, <2>2 DEF Distinct
  <2> QED BY <2>1, <2>3
<1>4. ASSUME Distinct, Head(queue) \in Queued' PROVE Head(queue) = Plain
  <2>1. PICK i \in 1 .. Len(queue') : Head(queue) = queue'[i]
    BY <1>4 DEF Queued
  <2>2. queue[1] = queue[i + 1] /\ i + 1 \in 1 .. Len(queue) /\ 1 \in 1 .. Len(queue) /\ i + 1 # 1
    BY <1>1, <2>1
  <2> QED BY <1>1, <1>4, <2>2 DEF Distinct
<1> QED BY <1>1, <1>2, <1>3, <1>4

\* Typed without the tables
Shape ==
  /\ sender \in [References -> {"idle", "log", "queue", "queued", "dropped", "refused"}]
  /\ template \in [References -> Templates]
  /\ queue \in Seq(Message \cup {Plain}) /\ Len(queue) <= QueueSize
  /\ written \subseteq Message /\ inFlight \subseteq written
  /\ writer \in {"wait", "write", "stopped"} /\ (writer = "write" => out \in Message \cup {Plain})
  /\ followUps \subseteq References /\ \A r \in followUps : ~ NoFollowUp(r)
  /\ reader \in {"read", "update", "followUp", "log", "send", "stopped"}
  /\ Active => answer \in written
  /\ reader \in {"log", "send"} => answer.reference \in References /\ ~ NoFollowUp(answer.reference)
  /\ \A s \in sentTimes : \E m \in Message : s = Entry(m)
  /\ plain \in 0 .. MaxPlain /\ responding \in 0 .. plain
  /\ closed \in BOOLEAN /\ dbOpen \in BOOLEAN

LEMMA TypedIs == Typed <=> Shape /\ DbTyped
  BY DEF Typed, TypeOK, Shape, DbTyped, Marks, Rows

\* A message handed to the client's reader keeps its MTI.
LEMMA AnswerIs ==
  ASSUME Typed, NEW m \in inFlight, ReadResponse(m)
  PROVE  \/ UNCHANGED <<sentTimes, reader, answer>>
         \/ answer' = m /\ reader' = "update" /\ sentTimes' \subseteq sentTimes
<1>1. m \in Message /\ template \in [References -> Templates]
  BY TypedIs DEF Shape
<1>2. IsRequest(m.mti)
  BY <1>1, MessageParts
<1>3. ASSUME NEW s \in sentTimes, s.key = MatchKey(ResponseMTI(m.mti), m.reference)
      PROVE  s.mti = m.mti
  <2>1. PICK n \in Message : s = Entry(n)
    BY TypedIs DEF Shape
  <2>2. IsRequest(n.mti)
    BY <1>1, MessageParts
  <2>3. s.key = <<n.mti, n.reference>> /\ s.mti = n.mti
    BY <2>1, <2>2, KeyOfResponse DEF Entry
  <2>4. s.key = <<m.mti, m.reference>>
    BY <1>2, <1>3, KeyOfResponse
  <2> QED BY <2>3, <2>4
<1>4. [m EXCEPT !.mti = m.mti] = m
  <2>1. m = O(m.reference) \/ m = F(m.reference)
    BY <1>1, MessageParts
  <2> QED BY <2>1 DEF O, F, Request
<1> QED BY <1>3, <1>4 DEF ReadResponse

LEMMA TypedStep == Typed /\ [Next]_vars => Typed'
<1> SUFFICES ASSUME Typed, [Next]_vars PROVE Typed'
  OBVIOUS
<1>1. Shape /\ DbTyped
  BY TypedIs
<1>2. template' = template
  BY TemplateStays
<1>3. /\ \A r : O(r)' = O(r) /\ F(r)' = F(r) /\ (NoFollowUp(r)' <=> NoFollowUp(r))
      /\ \A m : Entry(m)' = Entry(m)
      /\ Message' = Message
  BY <1>2, MessagesStay
<1> SUFFICES Shape' /\ DbTyped'
  BY TypedIs, PTL
<1>4. ASSUME NEW r \in References, Register(r) PROVE Shape' /\ DbTyped'
  <2>1. DbTyped'
    BY <1>1, <1>4, StatementsTyped DEF Register, Shape
  <2>2. Shape'
    BY <1>1, <1>2, <1>3, <1>4 DEF Register, Shape, Active, writerVars, readerVars, plainVars
  <2> QED BY <2>1, <2>2
<1>5. ASSUME NEW r \in References, LogRequest(r) PROVE Shape' /\ DbTyped'
  <2>1. O(r) \in Message
    BY DEF Message, Originals
  <2>2. DbTyped'
    BY <1>1, <1>5, <2>1, StatementsTyped DEF LogRequest, Shape, O
  <2>3. Shape'
    BY <1>1, <1>2, <1>3, <1>5 DEF LogRequest, Forget, Shape, Active, writerVars, readerVars, plainVars
  <2> QED BY <2>2, <2>3
<1>6. ASSUME NEW r \in References, QueueRequest(r) PROVE Shape' /\ DbTyped'
  <2>1. O(r) \in Message
    BY DEF Message, Originals
  <2>2. DbTyped'
    BY <1>1, <1>6, <2>1, StatementsTyped DEF QueueRequest, Shape, O
  <2>3. queue' \in Seq(Message \cup {Plain}) /\ Len(queue') <= QueueSize
    <3>1. CASE queue' = queue
      BY <1>1, <3>1 DEF Shape
    <3>2. CASE Len(queue) < QueueSize /\ queue' = Append(queue, O(r))
      BY <1>1, <2>1, <3>2, QueueGrows, LenProperties, IsoConnectionAssumption
      DEF Shape, IsoConnectionAssumption
    <3> QED BY <1>6, <3>1, <3>2 DEF QueueRequest, O
  <2>4. Shape'
    BY <1>1, <1>2, <1>3, <1>6, <2>3
    DEF QueueRequest, Forget, Shape, Active, writerVars, readerVars, plainVars
  <2> QED BY <2>2, <2>4
<1>7. ASSUME Take PROVE Shape' /\ DbTyped'
  <2>1. DbTyped'
    BY <1>1, <1>7, StatementsTyped DEF Take, Shape
  <2>2. /\ queue' \in Seq(Message \cup {Plain}) /\ Len(queue') <= QueueSize
        /\ Head(queue) \in Message \cup {Plain}
    BY <1>1, <1>7, QueueShrinks, LenProperties, IsoConnectionAssumption
    DEF Take, Shape, IsoConnectionAssumption
  <2>3. \A s \in sentTimes' : s \in sentTimes \/ (Head(queue) \in Message /\ s = Entry(Head(queue)))
    BY <1>7, <2>2 DEF Take, Entry
  <2>4. Shape'
    BY <1>1, <1>2, <1>3, <1>7, <2>2, <2>3
    DEF Take, Shape, Active, senderVars, readerVars, plainVars
  <2> QED BY <2>1, <2>4
<1>8. ASSUME Write \/ WriteFails \/ WriterStops PROVE Shape' /\ DbTyped'
  <2>1. DbTyped'
    BY <1>1, <1>8, StatementsTyped DEF Write, WriteFails, WriterStops, Shape
  <2>2. Shape'
    BY <1>1, <1>2, <1>3, <1>8
    DEF Write, WriteFails, WriterStops, Shape, Active, senderVars, readerVars, plainVars
  <2> QED BY <2>1, <2>2
<1>9. ASSUME NEW m \in inFlight, ReadResponse(m) PROVE Shape' /\ DbTyped'
  <2>1. DbTyped'
    BY <1>1, <1>9, StatementsTyped DEF ReadResponse, Shape
  <2>2. \/ UNCHANGED <<sentTimes, reader, answer>>
        \/ answer' = m /\ reader' = "update" /\ sentTimes' \subseteq sentTimes
    BY <1>9, AnswerIs
  <2>3. Shape'
    BY <1>1, <1>2, <1>3, <1>9, <2>2
    DEF ReadResponse, Shape, Active, senderVars, writerVars, plainVars
  <2> QED BY <2>1, <2>3
<1>10. ASSUME RecordAnswer PROVE Shape' /\ DbTyped'
  <2>1. answer.stage \in Stages
    BY <1>1, <1>10, MessageParts DEF RecordAnswer, Shape, Active
  <2>2. DbTyped'
    BY <1>1, <1>10, <2>1, StatementsTyped DEF RecordAnswer, Shape
  <2>3. Shape'
    BY <1>1, <1>2, <1>3, <1>10
    DEF RecordAnswer, Shape, Active, senderVars, writerVars, plainVars
  <2> QED BY <2>2, <2>3
<1>11. ASSUME TakeFollowUp PROVE Shape' /\ DbTyped'
  <2>1. DbTyped'
    BY <1>1, <1>11, StatementsTyped DEF TakeFollowUp, Shape
  <2>2. Shape'
    BY <1>1, <1>2, <1>3, <1>11
    DEF TakeFollowUp, Forget, Shape, Active, senderVars, writerVars, plainVars
  <2> QED BY <2>1, <2>2
<1>12. ASSUME LogFollowUp PROVE Shape' /\ DbTyped'
  <2>1. F(answer.reference) \in Message
    BY <1>1, <1>12 DEF LogFollowUp, Shape, Message
  <2>2. DbTyped'
    BY <1>1, <1>12, <2>1, StatementsTyped DEF LogFollowUp, Shape, F
  <2>3. Shape'
    BY <1>1, <1>2, <1>3, <1>12
    DEF LogFollowUp, Shape, Active, senderVars, writerVars, plainVars
  <2> QED BY <2>2, <2>3
<1>13. ASSUME QueueFollowUp PROVE Shape' /\ DbTyped'
  <2> DEFINE m == F(answer.reference)
  <2>1. m \in Message /\ answer.reference \in References /\ m.reference \in References
    BY <1>1, <1>13, MessagesDiffer DEF QueueFollowUp, Shape, Message
  <2>2. DbTyped'
    <3>1. DeleteRequestLog(m) \/ MarkScheduledMessageSent(m.reference) \/ Refused
      BY <1>13 DEF QueueFollowUp, F
    <3> HIDE DEF m
    <3> QED BY <1>1, <2>1, <3>1, StatementsTyped DEF Shape
  <2>3. queue' \in Seq(Message \cup {Plain}) /\ Len(queue') <= QueueSize
    <3>1. CASE queue' = queue
      BY <1>1, <3>1 DEF Shape
    <3>2. CASE Len(queue) < QueueSize /\ queue' = Append(queue, m)
      BY <1>1, <2>1, <3>2, QueueGrows, LenProperties, IsoConnectionAssumption
      DEF Shape, IsoConnectionAssumption
    <3> QED BY <1>13, <3>1, <3>2 DEF QueueFollowUp, F
  <2>4. Shape'
    BY <1>1, <1>2, <1>3, <1>13, <2>3
    DEF QueueFollowUp, Shape, Active, senderVars, writerVars, plainVars
  <2> QED BY <2>2, <2>4
<1>14. ASSUME ReadFails \/ Close \/ CloseDB \/ ReadRequest \/ UNCHANGED vars PROVE Shape' /\ DbTyped'
  <2>1. DbTyped'
    BY <1>1, <1>14, StatementsTyped DEF ReadFails, Close, CloseDB, ReadRequest, vars, Shape
  <2>2. CASE ReadRequest
    <3>1. plain' \in 0 .. MaxPlain /\ responding' \in 0 .. plain'
      BY <1>1, <2>2, IsoConnectionAssumption DEF ReadRequest, Shape, IsoConnectionAssumption
    <3> QED BY <1>1, <1>2, <1>3, <2>1, <2>2, <3>1
            DEF ReadRequest, Shape, Active, senderVars, writerVars, readerVars
  <2>3. CASE ReadFails \/ Close \/ CloseDB
    BY <1>1, <1>2, <1>3, <2>1, <2>3
    DEF ReadFails, Close, CloseDB, Shape, Active, senderVars, writerVars, readerVars, plainVars
  <2>4. CASE UNCHANGED vars
    BY <1>1, <1>2, <1>3, <2>1, <2>4
    DEF vars, Shape, Active, senderVars, writerVars, readerVars, plainVars
  <2> QED BY <1>14, <2>2, <2>3, <2>4
<1>15. ASSUME Respond \/ SendMessage PROVE Shape' /\ DbTyped'
  <2>1. DbTyped'
    BY <1>1, <1>15, StatementsTyped DEF Respond, SendMessage, Shape
  <2>2. queue' \in Seq(Message \cup {Plain}) /\ Len(queue') <= QueueSize
    <3>1. CASE queue' = queue
      BY <1>1, <3>1 DEF Shape
    <3>2. CASE Len(queue) < QueueSize /\ queue' = Append(queue, Plain)
      BY <1>1, <3>2, QueueGrows, LenProperties, IsoConnectionAssumption
      DEF Shape, IsoConnectionAssumption
    <3> QED BY <1>15, <3>1, <3>2 DEF Respond, SendMessage, QueuePlain
  <2>3. Shape'
    BY <1>1, <1>2, <1>3, <1>15, <2>2, IsoConnectionAssumption
    DEF Respond, SendMessage, Shape, Active, senderVars, writerVars, readerVars,
        IsoConnectionAssumption
  <2> QED BY <2>1, <2>3
<1> QED
  BY <1>4, <1>5, <1>6, <1>7, <1>8, <1>9, <1>10, <1>11, <1>12, <1>13, <1>14, <1>15
  DEF Next, Send, Writer, Reader

-----------------------------------------------------------------------------
(* Where a message is                                                      *)

\* A request is in one place; an answer in hand is of a request no longer at
\* the client.
Places ==
  /\ Distinct
  /\ (Queued \cup BeingWritten) \cap written \subseteq {Plain}
  /\ BeingWritten \cap Queued \subseteq {Plain}
  /\ Active => answer \notin inFlight

\* A follow-up goes out once its original has been answered and is registered
\* no longer.
InOrder ==
  /\ \A r \in References : O(r) \in Sent => sender[r] = "queued"
  /\ \A r \in References : F(r) \in Sent =>
       O(r) \in written \ inFlight /\ ~ (Active /\ answer = O(r)) /\ r \notin followUps
  /\ reader \in {"log", "send"} => answer \in Originals /\ answer.reference \notin followUps

\* What is at the client can be matched.
Entered == \A m \in (BeingWritten \cup inFlight) \ {Plain} : Entry(m) \in sentTimes

\* A follow-up is recorded as sent only if it is in the channel.
Marked == \A r \in References : scheduled[r] = "sent" => closed \/ F(r) \in Awaited \cup written

LEMMA ChannelStays ==
  /\ UNCHANGED queue => Queued' = Queued /\ (Distinct' <=> Distinct)
  /\ UNCHANGED <<writer, out>> => BeingWritten' = BeingWritten
  BY DEF Queued, Distinct, BeingWritten

\* How messages are told apart, for the steps below
LEMMA Apart ==
  ASSUME Shape
  PROVE  /\ \A m \in Message : m # Plain /\ m.reference \in References /\ (m = O(m.reference) \/ m = F(m.reference))
         /\ \A r \in References : O(r) \in Message /\ O(r).reference = r /\ F(r).reference = r
         /\ \A r, q \in References : /\ O(r) = O(q) => r = q
                                     /\ F(r) = F(q) => r = q
                                     /\ O(r) # F(q) /\ O(r) # Plain /\ F(r) # Plain
<1>1. \A m \in Message : m # Plain /\ m.reference \in References /\ (m = O(m.reference) \/ m = F(m.reference))
  BY MessageParts DEF Shape
<1> QED BY <1>1, MessagesDiffer DEF Message, Originals

LEMMA InOrderStep == Typed /\ Places /\ InOrder /\ [Next]_vars => Places' /\ InOrder'
<1> SUFFICES ASSUME Typed, Places, InOrder, [Next]_vars PROVE Places' /\ InOrder'
  OBVIOUS
<1>1. Shape
  BY TypedIs
<1>2. /\ \A r : O(r)' = O(r) /\ F(r)' = F(r)
      /\ Originals' = Originals
  <2>1. \A r : O(r)' = O(r) /\ F(r)' = F(r)
    BY TemplateStays, MessagesStay
  <2> QED BY <2>1 DEF Originals
<1>3. /\ \A m \in Message : m # Plain /\ m.reference \in References /\ (m = O(m.reference) \/ m = F(m.reference))
      /\ \A r \in References : O(r) \in Message /\ O(r).reference = r /\ F(r).reference = r
      /\ \A r, q \in References : /\ O(r) = O(q) => r = q
                                  /\ F(r) = F(q) => r = q
                                  /\ O(r) # F(q) /\ O(r) # Plain /\ F(r) # Plain
  BY <1>1, Apart
<1>4. /\ UNCHANGED queue => Queued' = Queued /\ (Distinct' <=> Distinct)
      /\ UNCHANGED <<writer, out>> => BeingWritten' = BeingWritten
  BY ChannelStays
<1>5. ASSUME NEW r \in References, Register(r) \/ LogRequest(r) PROVE Places' /\ InOrder'
  <2>1. Queued' = Queued /\ BeingWritten' = BeingWritten /\ Distinct' /\ Sent' = Sent
    BY <1>4, <1>5 DEF Register, LogRequest, writerVars, Places, Sent
  <2>2. Places'
    BY <1>5, <2>1 DEF Register, LogRequest, writerVars, readerVars, Places, Active
  <2>3. InOrder'
    <3>1. /\ sender[r] # "queued"
          /\ \A q \in References : sender[q] = "queued" => sender'[q] = "queued"
          /\ followUps' \subseteq followUps \cup {r}
          /\ UNCHANGED <<reader, answer, written, inFlight>>
      BY <1>1, <1>5 DEF Register, LogRequest, Forget, writerVars, readerVars, Shape
    <3>2. O(r) \notin Sent /\ O(r) \notin written /\ F(r) \notin Sent
      BY <3>1 DEF InOrder, Sent
    <3>3. reader \in {"log", "send"} => answer.reference # r
      BY <1>1, <1>3, <3>2 DEF InOrder, Active, Shape, Originals
    <3> QED BY <1>2, <2>1, <3>1, <3>2, <3>3 DEF InOrder, Active
  <2> QED BY <2>2, <2>3
<1>6. ASSUME NEW r \in References, QueueRequest(r) PROVE Places' /\ InOrder'
  <2>1. BeingWritten' = BeingWritten
    BY <1>4, <1>6 DEF QueueRequest, writerVars
  <2>2. CASE queue' = Append(queue, O(r)) /\ sender' = [sender EXCEPT ![r] = "queued"] /\ UNCHANGED followUps
    <3>1. O(r) \notin Sent
      BY <1>6 DEF InOrder, QueueRequest
    <3>2. Queued' = Queued \cup {O(r)} /\ Distinct'
      BY <1>1, <1>3, <2>2, <3>1, QueueGrows DEF Shape, Places, Sent
    <3>3. Sent' = Sent \cup {O(r)}
      BY <1>6, <2>1, <3>2 DEF Sent, QueueRequest, writerVars
    <3>4. Places'
      BY <1>3, <1>6, <2>1, <3>1, <3>2 DEF QueueRequest, writerVars, readerVars, Places, Active, Sent
    <3>5. InOrder'
      BY <1>1, <1>2, <1>3, <1>6, <2>2, <3>3
      DEF QueueRequest, writerVars, readerVars, InOrder, Active, Shape
    <3> QED BY <3>4, <3>5
  <2>3. CASE queue' = queue /\ sender' = [sender EXCEPT ![r] = "dropped"] /\ Forget(r)
    <3>1. Queued' = Queued /\ Distinct' /\ Sent' = Sent
      BY <1>4, <1>6, <2>1, <2>3 DEF QueueRequest, writerVars, Places, Sent
    <3>2. Places'
      BY <1>6, <2>1, <3>1 DEF QueueRequest, writerVars, readerVars, Places, Active
    <3>3. InOrder'
      BY <1>1, <1>2, <1>6, <2>3, <3>1
      DEF QueueRequest, Forget, writerVars, readerVars, InOrder, Active, Shape
    <3> QED BY <3>2, <3>3
  <2> QED BY <1>6, <2>2, <2>3 DEF QueueRequest, O
<1>7. ASSUME Take PROVE Places' /\ InOrder'
  <2>1. /\ Queued = Queued' \cup {Head(queue)}
        /\ Distinct' /\ (Head(queue) \in Queued' => Head(queue) = Plain)
    BY <1>1, <1>7, QueueShrinks DEF Take, Shape, Places
  <2>2. BeingWritten = {} /\ BeingWritten' = {Head(queue)}
    BY <1>7 DEF Take, BeingWritten
  <2>3. Sent' = Sent
    BY <1>7, <2>1, <2>2 DEF Sent, Take
  <2>4. Places'
    BY <1>7, <2>1, <2>2 DEF Take, readerVars, Places, Active
  <2>5. InOrder'
    BY <1>2, <1>7, <2>3 DEF Take, senderVars, readerVars, InOrder, Active
  <2> QED BY <2>4, <2>5
<1>8. ASSUME Write PROVE Places' /\ InOrder'
  <2>1. Queued' = Queued /\ Distinct' /\ BeingWritten = {out} /\ BeingWritten' = {}
    BY <1>4, <1>8 DEF Write, Places, BeingWritten
  <2>2. CASE out = Plain
    <3>1. written' = written /\ inFlight' = inFlight /\ (\A m \in Message : m \in Sent' <=> m \in Sent)
      BY <1>3, <1>8, <2>1, <2>2 DEF Write, Sent
    <3>2. \A q \in References : F(q) \in Sent' <=> F(q) \in Sent
      BY <1>3, <1>8, <2>1, <2>2 DEF Write, Sent
    <3>3. Places'
      BY <1>8, <2>1, <3>1 DEF Write, readerVars, Places, Active
    <3>4. InOrder'
      BY <1>2, <1>3, <1>8, <3>1, <3>2 DEF Write, senderVars, readerVars, InOrder, Active
    <3> QED BY <3>3, <3>4
  <2>3. CASE out # Plain
    <3>1. written' = written \cup {out} /\ inFlight' = inFlight \cup {out} /\ Sent' = Sent
      BY <1>8, <2>1, <2>3 DEF Write, Sent
    <3>2. out \notin written /\ out \notin Queued
      BY <2>1, <2>3 DEF Places
    <3>3. Places'
      BY <1>1, <1>8, <2>1, <3>1, <3>2 DEF Write, readerVars, Places, Active, Shape
    <3>4. InOrder'
      BY <1>2, <1>8, <3>1, <3>2 DEF Write, senderVars, readerVars, InOrder, Active
    <3> QED BY <3>3, <3>4
  <2> QED BY <2>2, <2>3
<1>9. ASSUME WriteFails \/ WriterStops PROVE Places' /\ InOrder'
  <2>1. Queued' = Queued /\ Distinct' /\ BeingWritten' = {} /\ Sent' \subseteq Sent
    BY <1>4, <1>9 DEF WriteFails, WriterStops, Places, BeingWritten, Sent
  <2>2. Places'
    BY <1>9, <2>1 DEF WriteFails, WriterStops, readerVars, Places, Active
  <2>3. InOrder'
    BY <1>2, <1>9, <2>1 DEF WriteFails, WriterStops, senderVars, readerVars, InOrder, Active
  <2> QED BY <2>2, <2>3
<1>10. ASSUME NEW m \in inFlight, ReadResponse(m) PROVE Places' /\ InOrder'
  <2>1. Queued' = Queued /\ BeingWritten' = BeingWritten /\ Distinct' /\ Sent' = Sent
    BY <1>4, <1>10 DEF ReadResponse, writerVars, Places, Sent
  <2>2. reader = "read" /\ inFlight' = inFlight \ {m} /\ UNCHANGED <<written, sender, followUps>>
    BY <1>10 DEF ReadResponse, writerVars, senderVars
  <2>3. \/ reader' = "read"
        \/ reader' = "update" /\ answer' = m
    BY <1>10, <2>2, AnswerIs
  <2>4. Places'
    BY <2>1, <2>2, <2>3 DEF Places, Active
  <2>5. InOrder'
    BY <1>2, <2>1, <2>2, <2>3 DEF InOrder, Active
  <2> QED BY <2>4, <2>5
<1>11. ASSUME RecordAnswer PROVE Places' /\ InOrder'
  <2>1. Queued' = Queued /\ BeingWritten' = BeingWritten /\ Distinct' /\ Sent' = Sent
    BY <1>4, <1>11 DEF RecordAnswer, writerVars, Places, Sent
  <2>2. Places'
    BY <1>11, <2>1 DEF RecordAnswer, writerVars, Places, Active
  <2>3. InOrder'
    BY <1>2, <1>11, <2>1 DEF RecordAnswer, writerVars, senderVars, InOrder, Active
  <2> QED BY <2>2, <2>3
<1>12. ASSUME TakeFollowUp PROVE Places' /\ InOrder'
  <2>1. Queued' = Queued /\ BeingWritten' = BeingWritten /\ Distinct' /\ Sent' = Sent
    BY <1>4, <1>12 DEF TakeFollowUp, writerVars, Places, Sent
  <2>2. Places'
    BY <1>12, <2>1 DEF TakeFollowUp, writerVars, Places, Active
  <2>3. answer.reference \in followUps => answer \in Originals
    <3>1. answer \in written /\ answer \in Message /\ answer \in Sent
      BY <1>1, <1>12 DEF TakeFollowUp, Active, Shape, Sent
    <3>2. answer.reference \in followUps => answer # F(answer.reference)
      BY <1>3, <3>1 DEF InOrder
    <3> QED BY <1>3, <3>1, <3>2 DEF Originals
  <2>4. InOrder'
    BY <1>2, <1>12, <2>1, <2>3 DEF TakeFollowUp, Forget, writerVars, senderVars, InOrder, Active
  <2> QED BY <2>2, <2>4
<1>13. ASSUME LogFollowUp PROVE Places' /\ InOrder'
  <2>1. Queued' = Queued /\ BeingWritten' = BeingWritten /\ Distinct' /\ Sent' = Sent
    BY <1>4, <1>13 DEF LogFollowUp, writerVars, Places, Sent
  <2>2. Places'
    BY <1>13, <2>1 DEF LogFollowUp, writerVars, Places, Active
  <2>3. InOrder'
    BY <1>2, <1>13, <2>1 DEF LogFollowUp, writerVars, senderVars, InOrder, Active
  <2> QED BY <2>2, <2>3
<1>14. ASSUME QueueFollowUp PROVE Places' /\ InOrder'
  <2> DEFINE r == answer.reference
  <2>1. BeingWritten' = BeingWritten
    BY <1>4, <1>14 DEF QueueFollowUp, writerVars
  <2>2. /\ r \in References /\ answer = O(r) /\ r \notin followUps
        /\ F(r) \in Message /\ O(r) \in written \ inFlight
        /\ F(r) \notin Sent
    BY <1>1, <1>3, <1>14 DEF QueueFollowUp, InOrder, Active, Shape, Places, Message, Originals
  <2>3. CASE queue' = Append(queue, F(r))
    <3>1. Queued' = Queued \cup {F(r)} /\ Distinct'
      BY <1>1, <1>3, <2>2, <2>3, QueueGrows DEF Shape, Places, Sent
    <3>2. Sent' = Sent \cup {F(r)}
      BY <1>14, <2>1, <3>1 DEF Sent, QueueFollowUp, writerVars
    <3>3. Places'
      BY <1>3, <1>14, <2>1, <2>2, <3>1 DEF QueueFollowUp, writerVars, Places, Active, Sent
    <3>4. InOrder'
      BY <1>2, <1>3, <1>14, <2>2, <3>2 DEF QueueFollowUp, senderVars, writerVars, InOrder, Active
    <3> QED BY <3>3, <3>4
  <2>4. CASE queue' = queue
    <3>1. Queued' = Queued /\ Distinct' /\ Sent' = Sent
      BY <1>4, <1>14, <2>1, <2>4 DEF QueueFollowUp, writerVars, Places, Sent
    <3>2. Places'
      BY <1>14, <2>1, <3>1 DEF QueueFollowUp, writerVars, Places, Active
    <3>3. InOrder'
      BY <1>2, <1>14, <3>1 DEF QueueFollowUp, senderVars, writerVars, InOrder, Active
    <3> QED BY <3>2, <3>3
  <2> QED BY <1>14, <2>3, <2>4 DEF QueueFollowUp, F
<1>15. ASSUME ReadFails \/ ReadRequest \/ Close \/ CloseDB \/ UNCHANGED vars PROVE Places' /\ InOrder'
  <2>1. Queued' = Queued /\ BeingWritten' = BeingWritten /\ Distinct' /\ Sent' = Sent
    BY <1>4, <1>15 DEF ReadFails, ReadRequest, Close, CloseDB, vars, writerVars, Places, Sent
  <2>2. Places'
    BY <1>15, <2>1
    DEF ReadFails, ReadRequest, Close, CloseDB, vars, writerVars, readerVars, Places, Active
  <2>3. InOrder'
    BY <1>2, <1>15, <2>1
    DEF ReadFails, ReadRequest, Close, CloseDB, vars, writerVars, readerVars, senderVars, InOrder, Active
  <2> QED BY <2>2, <2>3
<1>16. ASSUME Respond \/ SendMessage PROVE Places' /\ InOrder'
  <2>1. BeingWritten' = BeingWritten
    BY <1>4, <1>16 DEF Respond, SendMessage, writerVars
  <2>2. Distinct' /\ (Queued' = Queued \/ Queued' = Queued \cup {Plain})
    BY <1>1, <1>4, <1>16, QueueGrows DEF Respond, SendMessage, QueuePlain, Shape, Places
  <2>3. \A m : m # Plain => (m \in Sent' <=> m \in Sent)
    BY <1>16, <2>1, <2>2 DEF Respond, SendMessage, writerVars, Sent
  <2>4. Places'
    BY <1>16, <2>1, <2>2 DEF Respond, SendMessage, writerVars, readerVars, Places, Active
  <2>5. InOrder'
    BY <1>2, <1>3, <1>16, <2>3
    DEF Respond, SendMessage, writerVars, readerVars, senderVars, InOrder, Active
  <2> QED BY <2>4, <2>5
<1> QED
  BY <1>5, <1>6, <1>7, <1>8, <1>9, <1>10, <1>11, <1>12, <1>13, <1>14, <1>15, <1>16
  DEF Next, Send, Writer, Reader

-----------------------------------------------------------------------------
(* Responses are matched, registered follow-ups are taken, marks are true  *)

\* Of the two messages of a reference one is at the client or on its way there.
LEMMA OneAtClient ==
  ASSUME Typed, Places, InOrder, NEW m \in inFlight, NEW n \in (BeingWritten \cup inFlight) \ {Plain},
         m.reference = n.reference
  PROVE  m = n
<1>1. Shape
  BY TypedIs
<1>2. m \in Message /\ n \in Message /\ m \in written /\ m \in Sent /\ n \in Sent
  BY <1>1 DEF Shape, BeingWritten, Sent
<1>3. m.reference \in References /\ m \in {O(m.reference), F(m.reference)} /\ n \in {O(m.reference), F(m.reference)}
  BY <1>1, <1>2, Apart
<1>4. ~ (m = O(m.reference) /\ n = F(m.reference))
  BY <1>2, <1>3 DEF InOrder
<1>5. ~ (n = O(m.reference) /\ m = F(m.reference))
  BY <1>2, <1>3 DEF InOrder, Places
<1> QED BY <1>3, <1>4, <1>5

\* A response finds the entry of its request and takes that alone.
LEMMA ResponseMatched ==
  ASSUME Typed, Entered, NEW m \in inFlight, ReadResponse(m)
  PROVE  /\ reader = "read" /\ reader' = "update" /\ answer' = m /\ unmatched' = unmatched
         /\ sentTimes' = {s \in sentTimes : s.key # <<m.mti, m.reference>>}
<1>1. Shape
  BY TypedIs
<1>2. m \in Message /\ m # Plain /\ IsRequest(m.mti)
  BY <1>1, MessageParts DEF Shape
<1>3. /\ ResponseMTI(m.mti) \in ResponseMTIs
      /\ MatchKey(ResponseMTI(m.mti), m.reference) = <<m.mti, m.reference>>
      /\ Entry(m).key = <<m.mti, m.reference>>
  BY <1>2, KeyOfResponse DEF Entry
<1>4. Entry(m) \in sentTimes
  BY <1>2 DEF Entered
<1>5. reader' = "update" /\ unmatched' = unmatched
      /\ sentTimes' = {s \in sentTimes : s.key # <<m.mti, m.reference>>}
  BY <1>3, <1>4 DEF ReadResponse
<1>6. reader = "read"
  BY DEF ReadResponse
<1> QED BY <1>5, <1>6, AnswerIs

\* What each step does to the requests the program still has to deal with.
LEMMA AwaitedSteps ==
  ASSUME Typed, Places, Entered
  PROVE  /\ \A r \in References :
              /\ Register(r) \/ LogRequest(r) => Awaited' = Awaited
              /\ QueueRequest(r) => \/ sender'[r] = "queued" /\ Awaited' = Awaited \cup {O(r)}
                                    \/ sender'[r] = "dropped" /\ Awaited' = Awaited
         /\ Take \/ Write => Awaited' = Awaited
         /\ WriteFails \/ WriterStops => Awaited' \subseteq Awaited
         /\ \A m \in inFlight : ReadResponse(m) => Awaited' = Awaited
         /\ RecordAnswer => Awaited' = Awaited \ {answer}
         /\ TakeFollowUp \/ LogFollowUp => Awaited' = Awaited
         /\ QueueFollowUp => \/ queue' # queue /\ Awaited' = Awaited \cup {F(answer.reference)}
                             \/ queue' = queue /\ Awaited' = Awaited
         /\ ReadFails \/ ReadRequest \/ Respond \/ SendMessage \/ Close \/ CloseDB \/ UNCHANGED vars
              => Awaited' = Awaited
<1>1. Shape
  BY TypedIs
<1>2. /\ UNCHANGED queue => Queued' = Queued
      /\ UNCHANGED <<writer, out>> => BeingWritten' = BeingWritten
  BY ChannelStays
<1>3. UNCHANGED readerVars => BeingAnswered' = BeingAnswered
  BY DEF readerVars, BeingAnswered
<1>4. ASSUME NEW r \in References, Register(r) \/ LogRequest(r) PROVE Awaited' = Awaited
  BY <1>2, <1>3, <1>4 DEF Register, LogRequest, writerVars, Awaited
<1>5. ASSUME NEW r \in References, QueueRequest(r)
      PROVE  \/ sender'[r] = "queued" /\ Awaited' = Awaited \cup {O(r)}
             \/ sender'[r] = "dropped" /\ Awaited' = Awaited
  <2>1. BeingWritten' = BeingWritten /\ BeingAnswered' = BeingAnswered /\ inFlight' = inFlight
    BY <1>2, <1>3, <1>5 DEF QueueRequest, writerVars
  <2>2. CASE queue' = Append(queue, O(r)) /\ sender' = [sender EXCEPT ![r] = "queued"]
    <3>1. O(r) \in Message /\ O(r) # Plain
      BY MessagesDiffer DEF Message, Originals
    <3>2. Queued' = Queued \cup {O(r)}
      BY <1>1, <2>2, <3>1, QueueGrows DEF Shape
    <3> QED BY <1>1, <2>1, <2>2, <3>1, <3>2 DEF Shape, Awaited
  <2>3. CASE queue' = queue /\ sender' = [sender EXCEPT ![r] = "dropped"]
    BY <1>1, <1>2, <2>1, <2>3 DEF Shape, Awaited
  <2> QED BY <1>5, <2>2, <2>3 DEF QueueRequest, O
<1>6. ASSUME Take PROVE Awaited' = Awaited
  <2>1. Queued = Queued' \cup {Head(queue)}
    BY <1>1, <1>6, QueueShrinks DEF Take, Shape
  <2>2. BeingWritten = {} /\ BeingWritten' = {Head(queue)} /\ BeingAnswered' = BeingAnswered
    BY <1>3, <1>6 DEF Take, BeingWritten
  <2> QED BY <1>6, <2>1, <2>2 DEF Take, Awaited
<1>7. ASSUME Write PROVE Awaited' = Awaited
  <2>1. BeingWritten = {out} /\ BeingWritten' = {} /\ BeingAnswered' = BeingAnswered /\ Queued' = Queued
    BY <1>2, <1>3, <1>7 DEF Write, BeingWritten
  <2> QED BY <1>7, <2>1 DEF Write, Awaited
<1>8. ASSUME WriteFails \/ WriterStops PROVE Awaited' \subseteq Awaited
  <2>1. BeingWritten' = {} /\ BeingAnswered' = BeingAnswered /\ Queued' = Queued
    BY <1>2, <1>3, <1>8 DEF WriteFails, WriterStops, BeingWritten
  <2> QED BY <1>8, <2>1 DEF WriteFails, WriterStops, Awaited
<1>9. ASSUME NEW m \in inFlight, ReadResponse(m) PROVE Awaited' = Awaited
  <2>1. BeingAnswered = {} /\ BeingAnswered' = {m}
    BY <1>9, ResponseMatched DEF BeingAnswered
  <2>2. BeingWritten' = BeingWritten /\ Queued' = Queued /\ inFlight = inFlight' \cup {m}
    BY <1>2, <1>9 DEF ReadResponse, writerVars
  <2> QED BY <2>1, <2>2 DEF Awaited
<1>10. ASSUME RecordAnswer PROVE Awaited' = Awaited \ {answer}
  <2>1. BeingAnswered = {answer} /\ BeingAnswered' = {}
    BY <1>10 DEF RecordAnswer, BeingAnswered
  <2>2. BeingWritten' = BeingWritten /\ Queued' = Queued /\ inFlight' = inFlight
    BY <1>2, <1>10 DEF RecordAnswer, writerVars
  <2>3. answer \in written /\ answer # Plain /\ answer \notin inFlight
    BY <1>1, <1>10, Apart DEF RecordAnswer, Active, Shape, Places
  <2>4. answer \notin Queued \cup BeingWritten
    BY <2>3 DEF Places
  <2> QED BY <2>1, <2>2, <2>3, <2>4 DEF Awaited
<1>11. ASSUME TakeFollowUp \/ LogFollowUp PROVE Awaited' = Awaited
  <2>1. BeingAnswered = {} /\ BeingAnswered' = {}
    BY <1>11 DEF TakeFollowUp, LogFollowUp, BeingAnswered
  <2> QED BY <1>2, <1>11, <2>1 DEF TakeFollowUp, LogFollowUp, writerVars, Awaited
<1>12. ASSUME QueueFollowUp
       PROVE  \/ queue' # queue /\ Awaited' = Awaited \cup {F(answer.reference)}
              \/ queue' = queue /\ Awaited' = Awaited
  <2> DEFINE m == F(answer.reference)
  <2>1. BeingAnswered = {} /\ BeingAnswered' = {}
    BY <1>12 DEF QueueFollowUp, BeingAnswered
  <2>2. BeingWritten' = BeingWritten /\ inFlight' = inFlight
    BY <1>2, <1>12 DEF QueueFollowUp, writerVars
  <2>3. m \in Message /\ m # Plain
    BY <1>1, <1>12, MessagesDiffer DEF QueueFollowUp, Shape, Message
  <2>4. CASE queue' = Append(queue, m)
    <3>1. Queued' = Queued \cup {m} /\ Len(queue') = Len(queue) + 1 /\ Len(queue) \in Nat
      BY <1>1, <2>3, <2>4, QueueGrows, LenProperties DEF Shape
    <3> QED BY <2>1, <2>2, <2>3, <3>1 DEF Awaited
  <2>5. CASE queue' = queue
    BY <1>2, <2>1, <2>2, <2>5 DEF Awaited
  <2> QED BY <1>12, <2>4, <2>5 DEF QueueFollowUp, F
<1>13. ASSUME ReadFails \/ ReadRequest \/ Close \/ CloseDB \/ UNCHANGED vars PROVE Awaited' = Awaited
  <2>1. BeingAnswered' = BeingAnswered
    BY <1>13 DEF ReadFails, ReadRequest, Close, CloseDB, vars, readerVars, BeingAnswered
  <2> QED BY <1>2, <1>13, <2>1 DEF ReadFails, ReadRequest, Close, CloseDB, vars, writerVars, Awaited
<1>14. ASSUME Respond \/ SendMessage PROVE Awaited' = Awaited
  <2>1. Queued' = Queued \/ Queued' = Queued \cup {Plain}
    BY <1>1, <1>2, <1>14, QueueGrows DEF Respond, SendMessage, QueuePlain, Shape
  <2>2. BeingWritten' = BeingWritten /\ BeingAnswered' = BeingAnswered /\ inFlight' = inFlight
    BY <1>2, <1>3, <1>14 DEF Respond, SendMessage, writerVars
  <2> QED BY <2>1, <2>2 DEF Awaited
<1> QED
  BY <1>4, <1>5, <1>6, <1>7, <1>8, <1>9, <1>10, <1>11, <1>12, <1>13, <1>14

\* Entries stay until their responses are read.
LEMMA EnteredStep ==
  Typed /\ Places /\ InOrder /\ Entered /\ NoneUnmatched /\ [Next]_vars => Entered' /\ NoneUnmatched'
<1> SUFFICES ASSUME Typed, Places, InOrder, Entered, NoneUnmatched, [Next]_vars
             PROVE  Entered' /\ NoneUnmatched'
  OBVIOUS
<1>1. Shape
  BY TypedIs
<1>2. \A m : Entry(m)' = Entry(m)
  BY TemplateStays, MessagesStay
<1>3. \A m \in (BeingWritten \cup inFlight) \ {Plain} :
        /\ m \in Message /\ m.reference \in References
        /\ Entry(m) = [key |-> <<m.mti, m.reference>>, mti |-> m.mti]
  <2> SUFFICES ASSUME NEW m \in (BeingWritten \cup inFlight) \ {Plain}
               PROVE  /\ m \in Message /\ m.reference \in References
                      /\ Entry(m) = [key |-> <<m.mti, m.reference>>, mti |-> m.mti]
    OBVIOUS
  <2>1. m \in Message
    BY <1>1 DEF Shape, BeingWritten
  <2> QED BY <1>1, <2>1, MessageParts, KeyOfResponse DEF Entry, Shape
<1>4. CASE Take
  <2>1. BeingWritten' = {Head(queue)} /\ inFlight' = inFlight /\ unmatched' = unmatched
    BY <1>4 DEF Take, BeingWritten, readerVars
  <2>2. CASE Head(queue) = Plain
    BY <1>2, <1>4, <2>1, <2>2 DEF Take, Entered, NoneUnmatched
  <2>3. CASE Head(queue) # Plain
    <3> DEFINE m == Head(queue)
    <3>1. sentTimes' = {s \in sentTimes : s.key # MatchKey(m.mti, m.reference)} \cup {Entry(m)}
      BY <1>4, <2>3 DEF Take, Entry
    <3>2. m \in Message
      BY <1>1, <1>4, <2>3, QueueShrinks DEF Take, Shape
    <3>3. MatchKey(m.mti, m.reference) = <<m.mti, m.reference>>
      BY <1>1, <3>2, MessageParts, KeyOfResponse DEF Shape
    <3>4. ASSUME NEW n \in inFlight \ {Plain} PROVE Entry(n) \in sentTimes'
      <4>1. Entry(n) \in sentTimes
        BY <3>4 DEF Entered
      <4>2. CASE Entry(n).key = <<m.mti, m.reference>>
        <5>1. Entry(n) = Entry(m)
          <6>1. Entry(n) = [key |-> <<n.mti, n.reference>>, mti |-> n.mti]
            BY <1>3, <3>4
          <6>2. <<n.mti, n.reference>> = <<m.mti, m.reference>>
            BY <4>2, <6>1
          <6>3. n.mti = m.mti
            BY <6>2
          <6> QED BY <3>3, <6>1, <6>2, <6>3 DEF Entry
        <5> QED BY <3>1, <5>1
      <4> QED BY <3>1, <3>3, <4>1, <4>2
    <3> QED BY <1>2, <2>1, <3>1, <3>4 DEF Entered, NoneUnmatched
  <2> QED BY <2>2, <2>3
<1>5. CASE Write \/ WriteFails \/ WriterStops
  <2>1. (BeingWritten' \cup inFlight') \ {Plain} \subseteq (BeingWritten \cup inFlight) \ {Plain}
    BY <1>5 DEF Write, WriteFails, WriterStops, BeingWritten
  <2>2. UNCHANGED <<sentTimes, unmatched>>
    BY <1>5 DEF Write, WriteFails, WriterStops, readerVars
  <2> QED BY <1>2, <2>1, <2>2 DEF Entered, NoneUnmatched
<1>6. ASSUME NEW m \in inFlight, ReadResponse(m) PROVE Entered' /\ NoneUnmatched'
  <2>1. /\ unmatched' = unmatched
        /\ sentTimes' = {s \in sentTimes : s.key # <<m.mti, m.reference>>}
    BY <1>6, ResponseMatched
  <2>2. BeingWritten' = BeingWritten /\ inFlight' = inFlight \ {m}
    BY <1>6, ChannelStays DEF ReadResponse, writerVars
  <2>3. m # Plain
    BY <1>1, Apart DEF Shape
  <2>4. ASSUME NEW n \in (BeingWritten' \cup inFlight') \ {Plain} PROVE Entry(n) \in sentTimes'
    <3>1. n \in (BeingWritten \cup inFlight) \ {Plain} /\ n # m
      <4>1. m \in written
        BY <1>1 DEF Shape
      <4> QED BY <2>2, <2>3, <4>1 DEF Places
    <3>2. n.reference # m.reference
      BY <3>1, OneAtClient
    <3>3. Entry(n) \in sentTimes
      BY <3>1 DEF Entered
    <3>4. Entry(n).key = <<n.mti, n.reference>>
      BY <1>3, <3>1
    <3>5. Entry(n).key # <<m.mti, m.reference>>
      BY <3>2, <3>4
    <3> QED BY <2>1, <3>3, <3>5
  <2> QED BY <1>2, <2>1, <2>4 DEF Entered, NoneUnmatched
<1>7. ASSUME UNCHANGED <<writer, out, inFlight, sentTimes, unmatched>> PROVE Entered' /\ NoneUnmatched'
  BY <1>2, <1>7, ChannelStays DEF Entered, NoneUnmatched
<1>8. CASE \E r \in References : Send(r)
  BY <1>7, <1>8 DEF Send, Register, LogRequest, QueueRequest, writerVars, readerVars
<1>9. CASE RecordAnswer \/ TakeFollowUp \/ LogFollowUp \/ QueueFollowUp \/ ReadFails \/ ReadRequest
  BY <1>7, <1>9
  DEF RecordAnswer, TakeFollowUp, LogFollowUp, QueueFollowUp, ReadFails, ReadRequest, writerVars, readerVars
<1>10. CASE Respond \/ SendMessage \/ Close \/ CloseDB \/ UNCHANGED vars
  BY <1>7, <1>10 DEF Respond, SendMessage, Close, CloseDB, vars, writerVars, readerVars
<1> QED BY <1>4, <1>5, <1>6, <1>8, <1>9, <1>10 DEF Next, Writer, Reader

\* A registered follow-up's original stays answerable.
LEMMA RegisteredStep ==
  Typed /\ Places /\ InOrder /\ Entered /\ FollowUpHasItsOriginal /\ [Next]_vars => FollowUpHasItsOriginal'
<1> SUFFICES ASSUME Typed, Places, InOrder, Entered, FollowUpHasItsOriginal, [Next]_vars,
                    NEW r \in followUps'
             PROVE  \/ sender'[r] \in {"log", "queue"}
                    \/ sender'[r] = "queued" /\ \/ O(r)' \in Awaited'
                                                \/ reader' = "followUp" /\ answer'.reference = r
                                                \/ closed'
  BY DEF FollowUpHasItsOriginal, O
<1>1. Shape
  BY TypedIs
<1>2. O(r)' = O(r)
  BY TemplateStays, MessagesStay
<1>3. r \in followUps =>
        \/ sender[r] \in {"log", "queue"}
        \/ sender[r] = "queued" /\ \/ O(r) \in Awaited
                                   \/ reader = "followUp" /\ answer.reference = r
                                   \/ closed
  BY DEF FollowUpHasItsOriginal, O
<1>4. CASE \E q \in References : Register(q) \/ LogRequest(q)
  <2>1. PICK q \in References : Register(q) \/ LogRequest(q)
    BY <1>4
  <2>2. Awaited' = Awaited
    BY <2>1, AwaitedSteps
  <2> QED BY <1>1, <1>2, <1>3, <2>1, <2>2 DEF Register, LogRequest, Forget, readerVars, Shape
<1>5. CASE \E q \in References : QueueRequest(q)
  <2>1. PICK q \in References : QueueRequest(q)
    BY <1>5
  <2>2. CASE queue' = Append(queue, O(q)) /\ sender' = [sender EXCEPT ![q] = "queued"] /\ UNCHANGED followUps
    <3>1. Awaited' = Awaited \cup {O(q)}
      BY <1>1, <2>1, <2>2, AwaitedSteps DEF Shape
    <3> QED BY <1>1, <1>2, <1>3, <2>1, <2>2, <3>1 DEF QueueRequest, readerVars, Shape
  <2>3. CASE sender' = [sender EXCEPT ![q] = "dropped"] /\ Forget(q)
    <3>1. Awaited' = Awaited
      BY <1>1, <2>1, <2>3, AwaitedSteps DEF Shape
    <3> QED BY <1>1, <1>2, <1>3, <2>1, <2>3, <3>1 DEF QueueRequest, Forget, readerVars, Shape
  <2> QED BY <2>1, <2>2, <2>3 DEF QueueRequest, O
<1>6. CASE Take \/ Write
  BY <1>2, <1>3, <1>6, AwaitedSteps DEF Take, Write, senderVars, readerVars
<1>7. CASE WriteFails \/ WriterStops \/ ReadFails
  BY <1>3, <1>7 DEF WriteFails, WriterStops, ReadFails, senderVars
<1>8. CASE \E m \in inFlight : ReadResponse(m)
  <2>1. PICK m \in inFlight : ReadResponse(m)
    BY <1>8
  <2>2. reader = "read" /\ Awaited' = Awaited /\ UNCHANGED <<sender, followUps, closed>>
    BY <2>1, AwaitedSteps DEF ReadResponse, senderVars
  <2> QED BY <1>2, <1>3, <2>2
<1>9. CASE RecordAnswer
  <2>1. Awaited' = Awaited \ {answer} /\ UNCHANGED <<sender, followUps, closed, answer>> /\ reader' = "followUp"
    BY <1>9, AwaitedSteps DEF RecordAnswer, senderVars
  <2>2. O(r).reference = r
    BY DEF O, Request
  <2> QED BY <1>2, <1>3, <1>9, <2>1, <2>2 DEF RecordAnswer
<1>10. CASE TakeFollowUp
  <2>1. Awaited' = Awaited /\ UNCHANGED <<sender, closed>> /\ followUps' = followUps \ {answer.reference}
    BY <1>10, AwaitedSteps DEF TakeFollowUp, Forget, senderVars
  <2> QED BY <1>2, <1>3, <2>1
<1>11. CASE LogFollowUp \/ QueueFollowUp
  <2>1. Awaited \subseteq Awaited' /\ UNCHANGED <<sender, followUps, closed>> /\ reader # "followUp"
    BY <1>11, AwaitedSteps DEF LogFollowUp, QueueFollowUp, senderVars
  <2> QED BY <1>2, <1>3, <2>1
<1>12. CASE ReadRequest \/ Respond \/ SendMessage \/ Close \/ CloseDB \/ UNCHANGED vars
  <2>1. Awaited' = Awaited /\ UNCHANGED <<sender, followUps, reader, answer>> /\ (closed => closed')
    <3>1. Awaited' = Awaited
      BY <1>12, AwaitedSteps
    <3>2. UNCHANGED <<sender, followUps, reader, answer>> /\ (closed => closed')
      BY <1>12 DEF ReadRequest, Respond, SendMessage, Close, CloseDB, vars, senderVars, readerVars
    <3> QED BY <3>1, <3>2
  <2> QED BY <1>2, <1>3, <2>1
<1> QED
  BY <1>4, <1>5, <1>6, <1>7, <1>8, <1>9, <1>10, <1>11, <1>12 DEF Next, Send, Writer, Reader

\* A mark is set when the follow-up is queued, and the follow-up is not lost
\* while the connection is open.
LEMMA MarkedStep ==
  Typed /\ Places /\ Entered /\ Marked /\ [Next]_vars => Marked'
<1> SUFFICES ASSUME Typed, Places, Entered, Marked, [Next]_vars PROVE Marked'
  OBVIOUS
<1>1. Shape /\ scheduled \in Marks
  BY TypedIs DEF DbTyped
<1>2. \A r : F(r)' = F(r)
  BY TemplateStays, MessagesStay
<1>3. SUFFICES ASSUME NEW r \in References, scheduled'[r] = "sent", ~ closed'
               PROVE  F(r) \in Awaited' \cup written'
  BY <1>2 DEF Marked
<1>4. scheduled[r] = "sent" /\ ~ closed => F(r) \in Awaited \cup written
  BY DEF Marked
<1>5. CASE \E q \in References : Register(q) \/ LogRequest(q)
  <2>1. PICK q \in References : Register(q) \/ LogRequest(q)
    BY <1>5
  <2>2. Awaited' = Awaited
    BY <2>1, AwaitedSteps
  <2>3. written' = written /\ closed' = closed
    BY <2>1 DEF Register, LogRequest, writerVars
  <2>4. scheduled[r] = "sent"
    BY <1>1, <1>3, <2>1
    DEF Register, LogRequest, AddScheduledMessage, AddRequestLog, Accepted, Refused, dbVars, Marks
  <2> QED BY <1>3, <1>4, <2>2, <2>3, <2>4
<1>6. CASE \E q \in References : QueueRequest(q)
  <2>1. PICK q \in References : QueueRequest(q)
    BY <1>6
  <2>2. Awaited \subseteq Awaited'
    BY <2>1, AwaitedSteps
  <2>3. written' = written /\ closed' = closed
    BY <2>1 DEF QueueRequest, writerVars
  <2>4. scheduled[r] = "sent"
    BY <1>3, <2>1 DEF QueueRequest, DeleteRequestLog, Accepted, Refused, dbVars
  <2> QED BY <1>3, <1>4, <2>2, <2>3, <2>4
<1>7. CASE Take \/ Write
  <2>1. Awaited' = Awaited
    BY <1>7, AwaitedSteps
  <2>2. written \subseteq written' /\ closed' = closed /\ scheduled' = scheduled
    BY <1>7 DEF Take, Write, dbVars
  <2> QED BY <1>3, <1>4, <2>1, <2>2
<1>8. CASE WriteFails \/ WriterStops \/ ReadFails
  BY <1>3, <1>8 DEF WriteFails, WriterStops, ReadFails
<1>9. CASE \E m \in inFlight : ReadResponse(m)
  <2>1. PICK m \in inFlight : ReadResponse(m)
    BY <1>9
  <2>2. Awaited' = Awaited
    BY <2>1, AwaitedSteps
  <2>3. written' = written /\ closed' = closed /\ scheduled' = scheduled
    BY <2>1 DEF ReadResponse, writerVars, dbVars
  <2> QED BY <1>3, <1>4, <2>2, <2>3
<1>10. CASE RecordAnswer
  <2>1. Awaited' = Awaited \ {answer} /\ answer \in written
    BY <1>1, <1>10, AwaitedSteps DEF Shape, RecordAnswer, Active
  <2>2. written' = written /\ closed' = closed
    BY <1>10 DEF RecordAnswer, writerVars
  <2>3. scheduled[r] = "sent"
    BY <1>3, <1>10 DEF RecordAnswer, UpdateResponseTime, Accepted, Refused, dbVars
  <2> QED BY <1>3, <1>4, <2>1, <2>2, <2>3
<1>11. CASE TakeFollowUp \/ LogFollowUp
  <2>1. Awaited' = Awaited
    BY <1>11, AwaitedSteps
  <2>2. written' = written /\ closed' = closed
    BY <1>11 DEF TakeFollowUp, LogFollowUp, writerVars
  <2>3. scheduled[r] = "sent"
    BY <1>3, <1>11 DEF TakeFollowUp, LogFollowUp, AddRequestLog, Accepted, Refused, dbVars
  <2> QED BY <1>3, <1>4, <2>1, <2>2, <2>3
<1>12. CASE QueueFollowUp
  <2>1. written' = written /\ closed' = closed
    BY <1>12 DEF QueueFollowUp, writerVars
  <2>2. CASE queue' = queue
    <3>1. Awaited \subseteq Awaited'
      BY <1>12, AwaitedSteps
    <3>2. Append(queue, F(answer.reference)) # queue
      BY <1>1, <1>12, AppendProperties, LenProperties DEF QueueFollowUp, Shape, Message
    <3>3. scheduled[r] = "sent"
      BY <1>3, <1>12, <2>2, <3>2
      DEF QueueFollowUp, DeleteRequestLog, Accepted, Refused, dbVars, F
    <3> QED BY <1>3, <1>4, <2>1, <3>1, <3>3
  <2>3. CASE queue' # queue
    <3>1. Awaited' = Awaited \cup {F(answer.reference)}
      BY <1>12, <2>3, AwaitedSteps
    <3>2. F(answer.reference).reference = answer.reference
      BY DEF F, Request
    <3>3. r = answer.reference \/ scheduled[r] = "sent"
      BY <1>1, <1>3, <1>12, <2>3, <3>2
      DEF QueueFollowUp, MarkScheduledMessageSent, Accepted, Refused, dbVars, F, Marks
    <3> QED BY <1>3, <1>4, <2>1, <3>1, <3>3
  <2> QED BY <2>2, <2>3
<1>13. CASE ReadRequest \/ Respond \/ SendMessage \/ Close \/ CloseDB \/ UNCHANGED vars
  <2>1. Awaited' = Awaited
    BY <1>13, AwaitedSteps
  <2>2. written' = written /\ (closed => closed') /\ scheduled' = scheduled
    BY <1>3, <1>13 DEF ReadRequest, Respond, SendMessage, Close, CloseDB, vars, writerVars, dbVars
  <2> QED BY <1>3, <1>4, <2>1, <2>2
<1> QED
  BY <1>5, <1>6, <1>7, <1>8, <1>9, <1>10, <1>11, <1>12, <1>13 DEF Next, Send, Writer, Reader

-----------------------------------------------------------------------------
(* Rows                                                                    *)

\* The requests that are on their way, or have been logged to be queued next.
Due ==
  Awaited \cup {O(r) : r \in {q \in References : sender[q] = "queue"}}
          \cup (IF reader = "send" THEN {F(answer.reference)} ELSE {})

\* A row is of a message that has been logged, a follow-up's after its
\* original's answer has been recorded.
RowsKnown ==
  \A row \in log :
    /\ row.mti = MtiOf(row.reference, row.stage)
    /\ sender[row.reference] \notin {"idle", "log"}
    /\ row.stage = "followUp" =>
         /\ O(row.reference) \in written \ inFlight
         /\ row.reference \notin followUps
         /\ ~ (reader \in {"update", "followUp", "log"} /\ answer = O(row.reference))

\* With every statement applied, what is due has its row and no other request
\* has its reference and MTI, and the rows of an answered request are answered.
Rowed ==
  Reliable =>
    /\ \A m \in Due : Unanswered(m.reference, m.mti) = {Row(m)}
    /\ reader \in {"followUp", "log"} => Unanswered(answer.reference, answer.mti) = {}

OnItsWay == Reliable /\ ~ closed => \A row \in log : row.answeredBy = "none" => \E m \in Due : Row(m) = row

\* The effect of each statement on the rows, and on them when all are applied.
LEMMA RowsChange ==
  ASSUME Typed, UNCHANGED dbOpen
  PROVE  /\ \A m : AddRequestLog(m) =>
              /\ log' \subseteq log \cup {Row(m)}
              /\ Reliable' => Reliable /\ log' = log \cup {Row(m)}
         /\ \A m : DeleteRequestLog(m) =>
              /\ log' \subseteq log
              /\ Reliable' => Reliable /\ log' = log \ Unanswered(m.reference, m.mti)
         /\ \A r, mti, stage : UpdateResponseTime(r, mti, stage) =>
              LET old == Unanswered(r, mti)
                  new == (log \ old) \cup {[row EXCEPT !.answeredBy = stage] : row \in old}
              IN  /\ log' \in {log, new}
                  /\ Reliable' => Reliable /\ log' = new
         /\ \A r : AddScheduledMessage(r) \/ MarkScheduledMessageSent(r) =>
              log' = log /\ (Reliable' => Reliable)
         /\ Refused => log' = log /\ ~ Reliable'
         /\ UNCHANGED dbVars => log' = log /\ (Reliable' => Reliable)
<1>1. faults \in Nat
  BY TypedIs, IsoConnectionAssumption DEF DbTyped, IsoConnectionAssumption
<1>2. ASSUME NEW newLog, NEW newScheduled, Accepted(newLog, newScheduled)
      PROVE  log' \in {log, newLog} /\ (Reliable' => Reliable /\ log' = newLog)
  BY <1>1, <1>2 DEF Accepted, Reliable
<1>3. ASSUME NEW m, AddRequestLog(m)
      PROVE  /\ log' \subseteq log \cup {Row(m)}
             /\ Reliable' => Reliable /\ log' = log \cup {Row(m)}
  BY <1>2, <1>3 DEF AddRequestLog
<1>4. ASSUME NEW m, DeleteRequestLog(m)
      PROVE  /\ log' \subseteq log
             /\ Reliable' => Reliable /\ log' = log \ Unanswered(m.reference, m.mti)
  BY <1>2, <1>4 DEF DeleteRequestLog
<1>5. ASSUME NEW r, NEW mti, NEW stage, UpdateResponseTime(r, mti, stage)
      PROVE  LET old == Unanswered(r, mti)
                 new == (log \ old) \cup {[row EXCEPT !.answeredBy = stage] : row \in old}
             IN  /\ log' \in {log, new}
                 /\ Reliable' => Reliable /\ log' = new
  BY <1>2, <1>5 DEF UpdateResponseTime
<1>6. ASSUME NEW r, AddScheduledMessage(r) \/ MarkScheduledMessageSent(r)
      PROVE  log' = log /\ (Reliable' => Reliable)
  BY <1>2, <1>6 DEF AddScheduledMessage, MarkScheduledMessageSent
<1>7. Refused => log' = log /\ ~ Reliable'
  BY DEF Refused, dbVars, Reliable
<1>8. UNCHANGED dbVars => log' = log /\ (Reliable' => Reliable)
  BY DEF dbVars, Reliable
<1> QED BY <1>3, <1>4, <1>5, <1>6, <1>7, <1>8

\* Where a row comes from.
LEMMA RowsOrigin ==
  ASSUME Typed, [Next]_vars, NEW row \in log'
  PROVE  \/ \E old \in log : /\ row.reference = old.reference /\ row.mti = old.mti
                             /\ row.stage = old.stage
         \/ \E r \in References : LogRequest(r) /\ sender' = [sender EXCEPT ![r] = "queue"] /\ row = Row(O(r))
         \/ LogFollowUp /\ reader' = "send" /\ row = Row(F(answer.reference))
<1> DEFINE Known == \E old \in log : /\ row.reference = old.reference /\ row.mti = old.mti
                                     /\ row.stage = old.stage
<1>1. row \in log => Known
  OBVIOUS
<1>2. ASSUME NEW r \in References, Register(r) PROVE Known
  BY <1>1, <1>2, RowsChange DEF Register
<1>3. ASSUME NEW r \in References, LogRequest(r)
      PROVE  Known \/ (sender' = [sender EXCEPT ![r] = "queue"] /\ row = Row(O(r)))
  BY <1>1, <1>3, RowsChange DEF LogRequest, O
<1>4. ASSUME NEW r \in References, QueueRequest(r) PROVE Known
  BY <1>1, <1>4, RowsChange DEF QueueRequest
<1>5. ASSUME LogFollowUp PROVE Known \/ (reader' = "send" /\ row = Row(F(answer.reference)))
  BY <1>1, <1>5, RowsChange DEF LogFollowUp, F
<1>6. ASSUME QueueFollowUp PROVE Known
  BY <1>1, <1>6, RowsChange DEF QueueFollowUp
<1>7. ASSUME RecordAnswer PROVE Known
  <2> DEFINE old == Unanswered(answer.reference, answer.mti)
             new == (log \ old) \cup {[x EXCEPT !.answeredBy = answer.stage] : x \in old}
  <2>1. log' \in {log, new}
    BY <1>7, RowsChange DEF RecordAnswer
  <2>2. log \subseteq Rows /\ old \subseteq log
    BY TypedIs DEF DbTyped, Unanswered
  <2>3. CASE row \in log
    BY <1>1, <2>3
  <2>4. CASE \E x \in old : row = [x EXCEPT !.answeredBy = answer.stage]
    <3>1. PICK x \in old : row = [x EXCEPT !.answeredBy = answer.stage]
      BY <2>4
    <3>2. x \in Rows
      BY <2>2
    <3>3. row.reference = x.reference /\ row.mti = x.mti /\ row.stage = x.stage
      BY <3>1, <3>2 DEF Rows
    <3> QED BY <2>2, <3>3
  <2> QED BY <2>1, <2>3, <2>4
<1>8. CASE UNCHANGED log
  BY <1>1, <1>8
<1>9. CASE Writer \/ (\E m \in inFlight : ReadResponse(m)) \/ TakeFollowUp \/ ReadFails \/ ReadRequest
  BY <1>8, <1>9 DEF Writer, Take, Write, WriteFails, WriterStops, ReadResponse, TakeFollowUp, ReadFails,
                    ReadRequest, dbVars
<1>10. CASE Respond \/ SendMessage \/ Close \/ CloseDB \/ UNCHANGED vars
  BY <1>8, <1>10 DEF Respond, SendMessage, Close, CloseDB, vars, dbVars
<1> QED BY <1>2, <1>3, <1>4, <1>5, <1>6, <1>7, <1>9, <1>10 DEF Next, Send, Reader

LEMMA RowsKnownStep == Typed /\ Places /\ InOrder /\ RowsKnown /\ [Next]_vars => RowsKnown'
<1> SUFFICES ASSUME Typed, Places, InOrder, RowsKnown, [Next]_vars PROVE RowsKnown'
  OBVIOUS
<1> DEFINE Past(x) == /\ O(x) \in written \ inFlight
                      /\ x \notin followUps
                      /\ ~ (reader \in {"update", "followUp", "log"} /\ answer = O(x))
<1>1. Shape
  BY TypedIs
<1>2. template' = template /\ \A x : O(x)' = O(x)
  BY TemplateStays, MessagesStay
<1>3. ASSUME NEW x \in References, sender[x] \notin {"idle", "log"} PROVE sender'[x] \notin {"idle", "log"}
  <2>1. CASE UNCHANGED sender
    BY <1>3, <2>1
  <2>2. CASE \E r \in References : Send(r)
    BY <1>1, <1>3, <2>2 DEF Send, Register, LogRequest, QueueRequest, Shape
  <2>3. CASE Writer \/ Reader
    BY <2>1, <2>3
    DEF Writer, Take, Write, WriteFails, WriterStops, Reader, ReadResponse, RecordAnswer, TakeFollowUp,
        LogFollowUp, QueueFollowUp, ReadFails, ReadRequest, senderVars
  <2>4. CASE Respond \/ SendMessage \/ Close \/ CloseDB \/ UNCHANGED vars
    BY <2>1, <2>4 DEF Respond, SendMessage, Close, CloseDB, vars, senderVars
  <2> QED BY <2>2, <2>3, <2>4 DEF Next
<1>4. ASSUME NEW x \in References, Past(x), sender[x] \notin {"idle", "log"} PROVE Past(x)'
  <2>1. O(x) # Plain
    BY <1>1, Apart
  <2>2. CASE \E r \in References : Send(r)
    BY <1>2, <1>4, <2>2
    DEF Send, Register, LogRequest, QueueRequest, Forget, writerVars, readerVars
  <2>3. CASE Writer
    <3>1. writer = "write" => out # O(x)
      BY <1>4, <2>1 DEF Places, BeingWritten
    <3> QED BY <1>2, <1>4, <2>3, <3>1
            DEF Writer, Take, Write, WriteFails, WriterStops, readerVars
  <2>4. CASE \E m \in inFlight : ReadResponse(m)
    <3>1. PICK m \in inFlight : ReadResponse(m)
      BY <2>4
    <3>2. UNCHANGED <<written, followUps>> /\ inFlight' \subseteq inFlight /\ reader = "read"
      BY <3>1 DEF ReadResponse, writerVars
    <3>3. UNCHANGED reader \/ answer' = m
      BY <3>1, AnswerIs
    <3> QED BY <1>2, <1>4, <3>2, <3>3
  <2>5. CASE RecordAnswer \/ TakeFollowUp \/ LogFollowUp \/ QueueFollowUp \/ ReadFails \/ ReadRequest
    BY <1>2, <1>4, <2>5
    DEF RecordAnswer, TakeFollowUp, LogFollowUp, QueueFollowUp, ReadFails, ReadRequest, Forget, writerVars,
        readerVars
  <2>6. CASE Respond \/ SendMessage \/ Close \/ CloseDB \/ UNCHANGED vars
    BY <1>2, <1>4, <2>6 DEF Respond, SendMessage, Close, CloseDB, vars, writerVars, readerVars
  <2> QED BY <2>2, <2>3, <2>4, <2>5, <2>6 DEF Next, Reader
<1>5. SUFFICES ASSUME NEW row \in log'
               PROVE  /\ row.mti = MtiOf(row.reference, row.stage)
                      /\ sender'[row.reference] \notin {"idle", "log"}
                      /\ row.stage = "followUp" => Past(row.reference)'
  BY <1>2 DEF RowsKnown, MtiOf
<1>6. ASSUME NEW old \in log, row.reference = old.reference, row.mti = old.mti, row.stage = old.stage
      PROVE  /\ row.mti = MtiOf(row.reference, row.stage)
             /\ sender'[row.reference] \notin {"idle", "log"}
             /\ row.stage = "followUp" => Past(row.reference)'
  <2>1. old.reference \in References
    BY TypedIs DEF DbTyped, Rows
  <2> QED BY <1>3, <1>4, <1>6, <2>1 DEF RowsKnown
<1>7. ASSUME NEW r \in References, LogRequest(r), sender' = [sender EXCEPT ![r] = "queue"], row = Row(O(r))
      PROVE  /\ row.mti = MtiOf(row.reference, row.stage)
             /\ sender'[row.reference] \notin {"idle", "log"}
             /\ row.stage = "followUp" => Past(row.reference)'
  BY <1>1, <1>7 DEF Row, O, Request, Shape
<1>8. ASSUME LogFollowUp, reader' = "send", row = Row(F(answer.reference))
      PROVE  /\ row.mti = MtiOf(row.reference, row.stage)
             /\ sender'[row.reference] \notin {"idle", "log"}
             /\ row.stage = "followUp" => Past(row.reference)'
  <2> DEFINE r == answer.reference
  <2>1. row.reference = r /\ row.mti = MtiOf(r, "followUp") /\ row.stage = "followUp"
    BY <1>8 DEF Row, F, Request
  <2>2. /\ r \in References /\ answer = O(r) /\ r \notin followUps
        /\ O(r) \in written \ inFlight /\ O(r) \in Sent
    BY <1>1, <1>8, Apart DEF LogFollowUp, Shape, Active, InOrder, Originals, Places, Sent
  <2>3. sender[r] = "queued"
    BY <2>2 DEF InOrder
  <2> QED BY <1>2, <1>8, <2>1, <2>2, <2>3 DEF LogFollowUp, senderVars, writerVars
<1> QED BY <1>6, <1>7, <1>8, RowsOrigin

\* At any time at most one of a reference's two messages is due.
LEMMA DueApart ==
  ASSUME Typed, Places, InOrder, NEW m \in Due
  PROVE  /\ m \in Message /\ m.reference \in References
         /\ \A n \in Due : m.reference = n.reference => m = n
<1>1. Shape
  BY TypedIs
<1>2. /\ \A x \in Message : x # Plain /\ x.reference \in References /\ (x = O(x.reference) \/ x = F(x.reference))
      /\ \A r \in References : O(r) \in Message /\ O(r).reference = r /\ F(r).reference = r
      /\ \A r, q \in References : O(r) = O(q) => r = q
  BY <1>1, Apart
<1>3. ASSUME NEW x \in Due
      PROVE  /\ x \in Message /\ x.reference \in References
             /\ x = O(x.reference) => \/ x \in (Queued \cup BeingWritten) \ {Plain}
                                      \/ x \in inFlight
                                      \/ reader = "update" /\ x = answer
                                      \/ sender[x.reference] = "queue"
             /\ x = F(x.reference) => \/ x \in Sent
                                      \/ reader = "send" /\ answer = O(x.reference)
  <2>1. CASE x \in Awaited
    <3>1. x \in Message /\ x \in Sent
      BY <1>1, <1>2, <2>1 DEF Awaited, Shape, BeingWritten, BeingAnswered, Active, Queued, Sent
    <3> QED BY <1>2, <2>1, <3>1 DEF Awaited, BeingAnswered
  <2>2. CASE \E q \in References : sender[q] = "queue" /\ x = O(q)
    BY <1>2, <2>2, MessagesDiffer
  <2>3. CASE reader = "send" /\ x = F(answer.reference)
    <3>1. answer.reference \in References /\ x \in Message /\ answer = O(answer.reference)
      BY <1>1, <1>2, <2>3 DEF Shape, Message, InOrder, Originals
    <3> QED BY <1>2, <2>3, <3>1, MessagesDiffer
  <2> QED BY <1>3, <2>1, <2>2, <2>3 DEF Due
<1>4. ASSUME NEW r \in References, O(r) \in Due, F(r) \in Due PROVE FALSE
  <2>1. /\ \/ O(r) \in (Queued \cup BeingWritten) \ {Plain}
           \/ O(r) \in inFlight
           \/ reader = "update" /\ O(r) = answer
           \/ sender[r] = "queue"
        /\ \/ F(r) \in Sent
           \/ reader = "send" /\ answer = O(r)
    BY <1>2, <1>3, <1>4
  <2>2. O(r) \in written \ inFlight /\ (reader = "update" => answer # O(r))
    BY <1>1, <2>1 DEF InOrder, Active, Places, Shape
  <2>3. sender[r] = "queued"
    BY <2>2 DEF InOrder, Sent
  <2> QED BY <2>1, <2>2, <2>3 DEF Places
<1>5. ASSUME NEW n \in Due, m.reference = n.reference PROVE m = n
  <2>1. m \in Message /\ n \in Message /\ m.reference \in References
    BY <1>3, <1>5
  <2>2. m \in {O(m.reference), F(m.reference)} /\ n \in {O(m.reference), F(m.reference)}
    BY <1>2, <1>5, <2>1
  <2> QED BY <1>4, <1>5, <2>1, <2>2
<1> QED BY <1>3, <1>5

\* What each step does to what is due.
LEMMA DueSteps ==
  ASSUME Typed, Places, InOrder, Entered, [Next]_vars
  PROVE  /\ \A r \in References :
              /\ Register(r) => Due' = Due
              /\ LogRequest(r) => \/ sender' = [sender EXCEPT ![r] = "queue"] /\ Due' = Due \cup {O(r)}
                                  \/ sender' = [sender EXCEPT ![r] = "refused"] /\ Due' = Due
              /\ QueueRequest(r) => \/ sender'[r] = "queued" /\ Due' = Due
                                    \/ sender'[r] = "dropped" /\ O(r) \in Due /\ Due' = Due \ {O(r)}
         /\ Take \/ Write \/ (\E m \in inFlight : ReadResponse(m)) \/ TakeFollowUp => Due' = Due
         /\ WriteFails \/ WriterStops => Due' \subseteq Due
         /\ RecordAnswer => answer \in Due /\ Due' = Due \ {answer}
         /\ LogFollowUp => \/ reader' = "send" /\ Due' = Due \cup {F(answer.reference)}
                           \/ reader' = "read" /\ Due' = Due
         /\ QueueFollowUp => \/ queue' # queue /\ Due' = Due
                             \/ /\ queue' = queue
                                /\ F(answer.reference) \in Due /\ Due' = Due \ {F(answer.reference)}
         /\ ReadFails \/ ReadRequest \/ Respond \/ SendMessage \/ Close \/ CloseDB \/ UNCHANGED vars
              => Due' = Due
<1> DEFINE Next1 == {O(r) : r \in {q \in References : sender[q] = "queue"}}
           Next2 == IF reader = "send" THEN {F(answer.reference)} ELSE {}
<1>1. Shape
  BY TypedIs
<1>2. \A r : O(r)' = O(r) /\ F(r)' = F(r)
  BY TemplateStays, MessagesStay
<1>3. /\ \A r, q \in References : /\ O(r) = O(q) => r = q
                                  /\ O(r) # F(q) /\ O(r) # Plain /\ F(r) # Plain
      /\ \A r \in References : F(r).reference = r /\ O(r).reference = r
  BY <1>1, Apart
<1>4. \A r \in References : O(r) \in Awaited => sender[r] = "queued"
  BY <1>1 DEF Awaited, InOrder, Sent, BeingAnswered, Active, Shape
<1>5. UNCHANGED sender => Next1' = Next1
  BY <1>2
<1>6. UNCHANGED <<reader, answer>> => Next2' = Next2
  BY <1>2
<1>7. ASSUME NEW r \in References, Register(r) PROVE Due' = Due
  <2>1. Next1' = Next1
    BY <1>1, <1>2, <1>7 DEF Register, Shape
  <2>2. Next2' = Next2
    BY <1>6, <1>7 DEF Register, readerVars
  <2>3. Awaited' = Awaited
    BY <1>7, AwaitedSteps
  <2> QED BY <2>1, <2>2, <2>3 DEF Due
<1>8. ASSUME NEW r \in References, LogRequest(r)
      PROVE  \/ sender' = [sender EXCEPT ![r] = "queue"] /\ Due' = Due \cup {O(r)}
             \/ sender' = [sender EXCEPT ![r] = "refused"] /\ Due' = Due
  <2>1. Next2' = Next2 /\ Awaited' = Awaited
    BY <1>6, <1>8, AwaitedSteps DEF LogRequest, readerVars
  <2>2. CASE sender' = [sender EXCEPT ![r] = "queue"]
    <3>1. \A q \in References : sender'[q] = "queue" <=> q = r \/ sender[q] = "queue"
      BY <1>1, <2>2 DEF Shape
    <3>2. Next1' = Next1 \cup {O(r)}
      BY <1>2, <3>1
    <3> QED BY <2>1, <2>2, <3>2 DEF Due
  <2>3. CASE sender' = [sender EXCEPT ![r] = "refused"]
    <3>1. \A q \in References : sender'[q] = "queue" <=> sender[q] = "queue"
      BY <1>1, <1>8, <2>3 DEF LogRequest, Shape
    <3>2. Next1' = Next1
      BY <1>2, <3>1
    <3> QED BY <2>1, <2>3, <3>2 DEF Due
  <2> QED BY <1>8, <2>2, <2>3 DEF LogRequest
<1>9. ASSUME NEW r \in References, QueueRequest(r)
      PROVE  \/ sender'[r] = "queued" /\ Due' = Due
             \/ sender'[r] = "dropped" /\ O(r) \in Due /\ Due' = Due \ {O(r)}
  <2>1. Next2' = Next2
    BY <1>6, <1>9 DEF QueueRequest, readerVars
  <2>2. Next1' = Next1 \ {O(r)} /\ O(r) \in Next1
    <3>1. sender[r] = "queue" /\ sender'[r] # "queue" /\ \A q \in References : q # r => sender'[q] = sender[q]
      BY <1>1, <1>9 DEF QueueRequest, Shape
    <3> QED BY <1>2, <1>3, <3>1
  <2>3. O(r) \notin Next2 /\ O(r) \notin Awaited
    BY <1>1, <1>3, <1>4, <1>9 DEF QueueRequest, Shape
  <2>4. \/ sender'[r] = "queued" /\ Awaited' = Awaited \cup {O(r)}
        \/ sender'[r] = "dropped" /\ Awaited' = Awaited
    BY <1>9, AwaitedSteps
  <2> QED BY <2>1, <2>2, <2>3, <2>4 DEF Due
<1>10. ASSUME Take \/ Write PROVE Due' = Due
  <2>1. Awaited' = Awaited
    BY <1>10, AwaitedSteps
  <2>2. UNCHANGED <<sender, reader, answer>>
    BY <1>10 DEF Take, Write, senderVars, readerVars
  <2> QED BY <1>5, <1>6, <2>1, <2>2 DEF Due
<1>11. ASSUME NEW m \in inFlight, ReadResponse(m) PROVE Due' = Due
  <2>1. Awaited' = Awaited /\ reader = "read" /\ reader' = "update"
    BY <1>11, AwaitedSteps, ResponseMatched
  <2>2. UNCHANGED sender
    BY <1>11 DEF ReadResponse, senderVars
  <2> QED BY <1>5, <2>1, <2>2 DEF Due
<1>12. ASSUME TakeFollowUp PROVE Due' = Due
  <2>1. Awaited' = Awaited
    BY <1>12, AwaitedSteps
  <2>2. UNCHANGED sender /\ reader = "followUp" /\ reader' # "send"
    BY <1>12 DEF TakeFollowUp, senderVars
  <2> QED BY <1>5, <2>1, <2>2 DEF Due
<1>13. ASSUME WriteFails \/ WriterStops PROVE Due' \subseteq Due
  <2>1. Awaited' \subseteq Awaited
    BY <1>13, AwaitedSteps
  <2>2. UNCHANGED <<sender, reader, answer>>
    BY <1>13 DEF WriteFails, WriterStops, senderVars, readerVars
  <2> QED BY <1>5, <1>6, <2>1, <2>2 DEF Due
<1>14. ASSUME RecordAnswer PROVE answer \in Due /\ Due' = Due \ {answer}
  <2>1. Awaited' = Awaited \ {answer}
    BY <1>14, AwaitedSteps
  <2>2. UNCHANGED sender /\ reader = "update" /\ reader' = "followUp"
    BY <1>14 DEF RecordAnswer, senderVars
  <2>3. answer \in Awaited
    BY <1>1, <2>2, Apart DEF Awaited, BeingAnswered, Shape, Active
  <2>4. answer \notin Next1
    BY <1>4, <2>3
  <2> QED BY <1>5, <2>1, <2>2, <2>3, <2>4 DEF Due
<1>15. ASSUME LogFollowUp
       PROVE  \/ reader' = "send" /\ Due' = Due \cup {F(answer.reference)}
              \/ reader' = "read" /\ Due' = Due
  <2>1. Awaited' = Awaited
    BY <1>15, AwaitedSteps
  <2>2. UNCHANGED <<sender, answer>> /\ reader = "log" /\ reader' \in {"read", "send"}
    BY <1>15 DEF LogFollowUp, senderVars
  <2> QED BY <1>2, <1>5, <2>1, <2>2 DEF Due
<1>16. ASSUME QueueFollowUp
       PROVE  \/ queue' # queue /\ Due' = Due
              \/ /\ queue' = queue
                 /\ F(answer.reference) \in Due /\ Due' = Due \ {F(answer.reference)}
  <2> DEFINE m == F(answer.reference)
  <2>1. UNCHANGED sender /\ reader = "send" /\ reader' = "read"
    BY <1>16 DEF QueueFollowUp, senderVars
  <2>2. Next2 = {m} /\ Next2' = {} /\ Next1' = Next1
    BY <1>5, <2>1
  <2>3. answer.reference \in References /\ m \notin Sent /\ m \notin Next1
    BY <1>1, <1>3, <2>1, Apart DEF InOrder, Active, Shape, Originals
  <2>4. m \notin Awaited
    BY <2>1, <2>3, <1>1 DEF Awaited, BeingAnswered, Sent, Shape
  <2>5. \/ queue' # queue /\ Awaited' = Awaited \cup {m}
        \/ queue' = queue /\ Awaited' = Awaited
    BY <1>16, AwaitedSteps
  <2> QED BY <2>2, <2>3, <2>4, <2>5 DEF Due
<1>17. ASSUME ReadFails \/ ReadRequest PROVE Due' = Due
  <2>1. Awaited' = Awaited
    BY <1>17, AwaitedSteps
  <2>2. UNCHANGED <<sender, answer>> /\ reader = "read" /\ reader' # "send"
    BY <1>17 DEF ReadFails, ReadRequest, senderVars, readerVars
  <2> QED BY <1>5, <2>1, <2>2 DEF Due
<1>18. ASSUME Respond \/ SendMessage \/ Close \/ CloseDB \/ UNCHANGED vars PROVE Due' = Due
  <2>1. Awaited' = Awaited
    BY <1>18, AwaitedSteps
  <2>2. UNCHANGED <<sender, reader, answer>>
    BY <1>18 DEF Respond, SendMessage, Close, CloseDB, vars, senderVars, readerVars
  <2> QED BY <1>5, <1>6, <2>1, <2>2 DEF Due
<1> QED
  BY <1>7, <1>8, <1>9, <1>10, <1>11, <1>12, <1>13, <1>14, <1>15, <1>16, <1>17, <1>18

\* Rowed and OnItsWay without their conditions
DueRows == \A m \in Due : Unanswered(m.reference, m.mti) = {Row(m)}
AnswerDone == reader \in {"followUp", "log"} => Unanswered(answer.reference, answer.mti) = {}
RowsDue == \A row \in log : row.answeredBy = "none" => \E m \in Due : Row(m) = row

\* A row is added for a message whose reference is not busy.
LEMMA RowAdded ==
  ASSUME Typed, Places, InOrder, DueRows, NEW m \in Message,
         log' = log \cup {Row(m)}, Due' = Due \cup {m}, [Next]_vars,
         Unanswered(m.reference, m.mti) = {}, \A n \in Due : n.reference # m.reference
  PROVE  DueRows' /\ (RowsDue => RowsDue')
<1>1. \A r, mti : Unanswered(r, mti)' =
                    Unanswered(r, mti) \cup (IF r = m.reference /\ mti = m.mti THEN {Row(m)} ELSE {})
  BY DEF Unanswered, Row
<1>2. ASSUME NEW n \in Due' PROVE Unanswered(n.reference, n.mti)' = {Row(n)}
  <2>1. CASE n = m
    BY <1>1, <2>1
  <2>2. CASE n \in Due
    BY <1>1, <2>2 DEF DueRows
  <2> QED BY <1>2, <2>1, <2>2
<1>3. DueRows'
  BY <1>2 DEF DueRows, Row
<1>4. RowsDue => RowsDue'
  BY DEF RowsDue, Row
<1> QED BY <1>3, <1>4

\* The row of a message is deleted or answered, and others' are left alone.
LEMMA RowSettled ==
  ASSUME Typed, Places, InOrder, DueRows, NEW m \in Due, Due' = Due \ {m}, [Next]_vars,
         Unanswered(m.reference, m.mti)' = {},
         log \ Unanswered(m.reference, m.mti) \subseteq log',
         \A row \in log' : row \in log \/ row.answeredBy # "none"
  PROVE  DueRows' /\ (RowsDue => RowsDue')
<1>1. ASSUME NEW n \in Due' PROVE Unanswered(n.reference, n.mti)' = {Row(n)}
  <2>1. n.reference # m.reference /\ n \in Due
    BY DueApart
  <2>2. \A row : row \in Unanswered(n.reference, n.mti) => row \notin Unanswered(m.reference, m.mti)
    BY <2>1 DEF Unanswered
  <2>3. Unanswered(n.reference, n.mti)' = Unanswered(n.reference, n.mti)
    BY <2>2 DEF Unanswered
  <2> QED BY <2>1, <2>3 DEF DueRows
<1>2. DueRows'
  BY <1>1 DEF DueRows, Row
<1>3. ASSUME RowsDue PROVE RowsDue'
  <2> SUFFICES ASSUME NEW row \in log', row.answeredBy = "none" PROVE \E n \in Due' : Row(n) = row
    BY DEF RowsDue, Row
  <2>1. row \in log
    OBVIOUS
  <2>2. PICK n \in Due : Row(n) = row
    BY <1>3, <2>1 DEF RowsDue
  <2>3. row \notin Unanswered(m.reference, m.mti)
    BY DEF Unanswered
  <2>4. n # m
    BY <2>2, <2>3 DEF DueRows
  <2> QED BY <2>2, <2>4
<1> QED BY <1>2, <1>3

LEMMA RowsStay ==
  ASSUME DueRows, log' = log, Due' \subseteq Due
  PROVE  DueRows' /\ (RowsDue /\ Due' = Due => RowsDue')
  BY DEF DueRows, RowsDue, Unanswered, Row

LEMMA RowedStep ==
  Typed /\ Places /\ InOrder /\ Entered /\ RowsKnown /\ Rowed /\ OnItsWay /\ [Next]_vars => Rowed' /\ OnItsWay'
<1> SUFFICES ASSUME Typed, Places, InOrder, Entered, RowsKnown, Rowed, OnItsWay, [Next]_vars
             PROVE  Rowed' /\ OnItsWay'
  OBVIOUS
<1>1. Shape
  BY TypedIs
<1>2. \A r : O(r)' = O(r) /\ F(r)' = F(r)
  BY TemplateStays, MessagesStay
<1>3. (Reliable => DueRows /\ AnswerDone) /\ (Reliable /\ ~ closed => RowsDue)
  BY DEF Rowed, OnItsWay, DueRows, AnswerDone, RowsDue
<1> DEFINE Goal == /\ Reliable' => DueRows' /\ AnswerDone'
                   /\ Reliable' /\ ~ closed' => RowsDue'
<1>4. SUFFICES Goal
  BY DEF Rowed, OnItsWay, DueRows, AnswerDone, RowsDue
<1>5. ASSUME Reliable' => Reliable /\ log' = log, closed' \/ (Due' = Due /\ ~ closed), Due' \subseteq Due,
             reader' \in {"followUp", "log"} => reader \in {"followUp", "log"} /\ answer' = answer
      PROVE  Goal
  <2>1. Reliable' => DueRows' /\ (~ closed' => RowsDue')
    BY <1>3, <1>5, RowsStay
  <2>2. Reliable' => AnswerDone'
    BY <1>3, <1>5 DEF AnswerDone, Unanswered
  <2> QED BY <2>1, <2>2
<1>6. ASSUME NEW r \in References, Register(r) PROVE Goal
  <2>1. Due' = Due
    BY <1>6, DueSteps
  <2>2. log' = log /\ (Reliable' => Reliable)
    BY <1>6, RowsChange DEF Register
  <2> QED BY <1>1, <1>5, <1>6, <2>1, <2>2 DEF Register, readerVars, Shape
<1>7. ASSUME NEW r \in References, LogRequest(r) PROVE Goal
  <2>1. CASE sender' = [sender EXCEPT ![r] = "queue"] /\ AddRequestLog(O(r)) /\ Due' = Due \cup {O(r)}
    <3>1. Reliable' => Reliable /\ log' = log \cup {Row(O(r))}
      BY <1>7, <2>1, RowsChange DEF LogRequest
    <3>2. O(r) \in Message /\ O(r).reference = r
      BY <1>1, Apart
    <3>3. \A n \in Due : n.reference # r
      <4>1. sender[r] = "log" /\ O(r) \notin Sent /\ F(r) \notin Sent
        BY <1>7 DEF LogRequest, InOrder, Sent
      <4>2. ASSUME NEW n \in Due, n.reference = r PROVE FALSE
        <5>1. n \in Message /\ n \in {O(r), F(r)}
          BY <1>1, <4>2, DueApart, Apart
        <5>2. n \notin Awaited
          BY <1>1, <4>1, <5>1 DEF Awaited, Sent, BeingAnswered, Active, Shape
        <5>3. \A q \in References : sender[q] = "queue" => n # O(q)
          BY <1>1, <4>1, <4>2, Apart
        <5>4. ~ (reader = "send" /\ n = F(answer.reference))
          <6>1. CASE reader = "send"
            <7>1. answer.reference \in References /\ answer = O(answer.reference) /\ answer \in Sent
              BY <1>1, <6>1, Apart DEF InOrder, Originals, Shape, Active, Sent
            <7>2. answer.reference # r
              BY <4>1, <7>1
            <7> QED BY <1>1, <4>2, <7>1, <7>2, Apart
          <6> QED BY <6>1
        <5> QED BY <5>2, <5>3, <5>4 DEF Due
      <4> QED BY <4>2
    <3>4. \A mti : Unanswered(r, mti) = {}
      BY <1>7 DEF RowsKnown, Unanswered, LogRequest
    <3>5. Reliable' => DueRows' /\ (~ closed' => RowsDue')
      BY <1>3, <1>7, <2>1, <3>1, <3>2, <3>3, <3>4, RowAdded DEF LogRequest
    <3>6. Reliable' => AnswerDone'
      <4>1. UNCHANGED <<reader, answer>>
        BY <1>7 DEF LogRequest, readerVars
      <4>2. reader \in {"followUp", "log"} => answer.reference # r
        <5>1. reader \in {"followUp", "log"} => answer \in Message /\ answer \in Sent
          BY <1>1 DEF Shape, Active, Sent
        <5>2. O(r) \notin Sent /\ F(r) \notin Sent
          BY <1>7 DEF LogRequest, InOrder, Sent
        <5> QED BY <1>1, <5>1, <5>2, Apart
      <4> QED BY <1>3, <3>1, <3>2, <4>1, <4>2 DEF AnswerDone, Unanswered, Row
    <3> QED BY <3>5, <3>6
  <2>2. CASE Refused /\ Due' = Due
    <3>1. ~ Reliable'
      BY <1>7, <2>2, RowsChange DEF LogRequest
    <3> QED BY <3>1
  <2> QED
    <3>1. \/ sender'[r] = "queue" /\ AddRequestLog(O(r)) /\ sender' = [sender EXCEPT ![r] = "queue"]
          \/ sender'[r] = "refused" /\ Refused
      BY <1>1, <1>7 DEF LogRequest, Shape, O
    <3>2. \/ sender'[r] = "queue" /\ Due' = Due \cup {O(r)}
          \/ sender'[r] = "refused" /\ Due' = Due
      BY <1>1, <1>7, DueSteps DEF Shape
    <3> QED BY <2>1, <2>2, <3>1, <3>2
<1>8. ASSUME NEW m \in Due, DeleteRequestLog(m) \/ Refused, Due' = Due \ {m}, UNCHANGED <<dbOpen, closed, answer>>,
             reader' \in {"followUp", "log"} => reader \in {"followUp", "log"}
      PROVE  Goal
  <2>1. CASE Refused
    <3>1. ~ Reliable'
      BY <1>8, <2>1, RowsChange
    <3> QED BY <3>1
  <2>2. CASE DeleteRequestLog(m)
    <3>1. Reliable' => Reliable /\ log' = log \ Unanswered(m.reference, m.mti)
      BY <1>8, <2>2, RowsChange
    <3>2. ASSUME Reliable' PROVE DueRows' /\ (RowsDue => RowsDue')
      <4>1. DueRows /\ log' = log \ Unanswered(m.reference, m.mti)
        BY <1>3, <3>1, <3>2
      <4>2. Unanswered(m.reference, m.mti)' = {}
        BY <4>1 DEF Unanswered
      <4> QED BY <1>8, <4>1, <4>2, RowSettled
    <3>3. Reliable' => AnswerDone'
      BY <1>3, <1>8, <3>1 DEF AnswerDone, Unanswered
    <3> QED BY <1>3, <1>8, <3>1, <3>2, <3>3
  <2> QED BY <1>8, <2>1, <2>2
<1>9. ASSUME NEW r \in References, QueueRequest(r) PROVE Goal
  <2>1. CASE sender' = [sender EXCEPT ![r] = "queued"] /\ UNCHANGED dbVars
    <3>1. Due' = Due
      BY <1>1, <1>9, <2>1, DueSteps DEF Shape
    <3>2. log' = log /\ (Reliable' => Reliable)
      BY <1>9, <2>1, RowsChange DEF QueueRequest
    <3> QED BY <1>1, <1>5, <1>9, <3>1, <3>2 DEF QueueRequest, readerVars, Shape
  <2>2. CASE sender' = [sender EXCEPT ![r] = "dropped"] /\ (DeleteRequestLog(O(r)) \/ Refused)
    <3>1. O(r) \in Due /\ Due' = Due \ {O(r)}
      BY <1>1, <1>9, <2>2, DueSteps DEF Shape
    <3>2. UNCHANGED <<dbOpen, closed, answer, reader>>
      BY <1>9 DEF QueueRequest, readerVars
    <3> QED BY <1>8, <2>2, <3>1, <3>2
  <2> QED BY <1>9, <2>1, <2>2 DEF QueueRequest, O
<1>10. CASE Take \/ Write
  <2>1. Due' = Due
    BY <1>10, DueSteps
  <2>2. log' = log /\ (Reliable' => Reliable) /\ UNCHANGED <<reader, answer, closed>>
    BY <1>10, RowsChange DEF Take, Write, readerVars
  <2> QED BY <1>1, <1>5, <2>1, <2>2 DEF Shape
<1>11. CASE WriteFails \/ WriterStops
  <2>1. Due' \subseteq Due
    BY <1>11, DueSteps
  <2>2. log' = log /\ (Reliable' => Reliable) /\ UNCHANGED <<reader, answer>> /\ closed'
    BY <1>11, RowsChange DEF WriteFails, WriterStops, readerVars
  <2> QED BY <1>5, <2>1, <2>2
<1>12. ASSUME NEW m \in inFlight, ReadResponse(m) PROVE Goal
  <2>1. Due' = Due
    BY <1>12, DueSteps
  <2>2. log' = log /\ (Reliable' => Reliable) /\ reader' = "update" /\ UNCHANGED closed
    BY <1>12, RowsChange, ResponseMatched DEF ReadResponse
  <2> QED BY <1>1, <1>5, <2>1, <2>2 DEF Shape
<1>13. CASE RecordAnswer
  <2> DEFINE old == Unanswered(answer.reference, answer.mti)
             new == (log \ old) \cup {[row EXCEPT !.answeredBy = answer.stage] : row \in old}
  <2>1. answer \in Due /\ Due' = Due \ {answer}
    BY <1>13, DueSteps
  <2>2. UNCHANGED <<answer, closed, dbOpen>>
    BY <1>13 DEF RecordAnswer
  <2>3. Reliable' => Reliable /\ log' = new
    <3>1. UpdateResponseTime(answer.reference, answer.mti, answer.stage) \/ Refused
      BY <1>13 DEF RecordAnswer
    <3> QED BY <2>2, <3>1, RowsChange
  <2>4. ASSUME Reliable' PROVE DueRows' /\ AnswerDone' /\ (RowsDue => RowsDue')
    <3>1. \A row \in log : [row EXCEPT !.answeredBy = answer.stage].answeredBy # "none"
      <4>1. answer.stage \in Stages
        BY <1>1, <2>1, DueApart, MessageParts DEF Shape
      <4>2. \A row \in log : row \in Rows
        BY TypedIs DEF DbTyped
      <4> QED BY <4>1, <4>2 DEF Stages, Rows
    <3>2. log' = new /\ old \subseteq log /\ DueRows
      BY <1>3, <2>3, <2>4 DEF Unanswered
    <3>3. \A row \in log' : row \in log \ old \/ row.answeredBy # "none"
      BY <3>1, <3>2
    <3>4. Unanswered(answer.reference, answer.mti)' = {}
      BY <2>2, <3>3 DEF Unanswered
    <3>5. log \ old \subseteq log'
      BY <3>2
    <3>6. DueRows' /\ (RowsDue => RowsDue')
      <4>1. \A row \in log' : row \in log \/ row.answeredBy # "none"
        BY <3>3
      <4>2. {row \in log' : row.reference = answer.reference /\ row.mti = answer.mti /\ row.answeredBy = "none"} = {}
        BY <3>3 DEF Unanswered
      <4> QED BY <2>1, <2>2, <3>2, <3>5, <4>1, <4>2, RowSettled DEF Unanswered
    <3> QED BY <3>4, <3>6 DEF AnswerDone
  <2> QED BY <1>3, <2>2, <2>3, <2>4
<1>14. CASE TakeFollowUp
  <2>1. Due' = Due
    BY <1>14, DueSteps
  <2>2. log' = log /\ (Reliable' => Reliable) /\ UNCHANGED <<closed, answer>> /\ reader = "followUp"
    BY <1>14, RowsChange DEF TakeFollowUp
  <2> QED BY <1>1, <1>5, <2>1, <2>2 DEF Shape
<1>15. CASE LogFollowUp
  <2> DEFINE r == answer.reference
  <2>1. CASE reader' = "send" /\ AddRequestLog(F(r)) /\ Due' = Due \cup {F(r)}
    <3>1. Reliable' => Reliable /\ log' = log \cup {Row(F(r))}
      BY <1>15, <2>1, RowsChange DEF LogFollowUp
    <3>2. /\ r \in References /\ answer = O(r) /\ F(r) \in Message /\ F(r).reference = r
          /\ O(r) \in written \ inFlight /\ F(r) \notin Sent /\ sender[r] = "queued"
      <4>1. r \in References /\ F(r) \in Message /\ F(r).reference = r
        BY <1>1, <1>15, MessagesDiffer DEF LogFollowUp, Shape, Message
      <4>2. answer = O(r) /\ O(r) \in written \ inFlight
        BY <1>1, <1>15, <4>1, Apart DEF LogFollowUp, Shape, Active, InOrder, Originals, Places
      <4> QED BY <1>15, <4>1, <4>2 DEF LogFollowUp, InOrder, Active, Sent
    <3>3. \A n \in Due : n.reference # r
      <4>1. ASSUME NEW n \in Due, n.reference = r PROVE FALSE
        <5>1. n \in Message /\ n \in {O(r), F(r)}
          BY <1>1, <4>1, DueApart, Apart
        <5>2. n \notin Awaited
          <6>1. BeingAnswered = {} /\ inFlight \subseteq written
            BY <1>1, <1>15 DEF LogFollowUp, BeingAnswered, Shape
          <6>2. n = O(r) => n \notin Queued \cup BeingWritten \cup inFlight
            BY <1>1, <3>2, Apart DEF Places
          <6>3. n = F(r) => n \notin Queued \cup BeingWritten \cup inFlight
            BY <3>2, <6>1 DEF Sent
          <6> QED BY <5>1, <6>1, <6>2, <6>3 DEF Awaited
        <5>3. \A q \in References : sender[q] = "queue" => n # O(q)
          BY <1>1, <3>2, <4>1, Apart
        <5> QED BY <1>15, <5>2, <5>3 DEF LogFollowUp, Due
      <4> QED BY <4>1
    <3>4. Reliable => Unanswered(r, F(r).mti) = {}
      <4>1. ASSUME Reliable, NEW row \in Unanswered(r, F(r).mti) PROVE FALSE
        <5>1. row \in log /\ row.reference = r /\ row.answeredBy = "none" /\ row.stage \in Stages
              /\ row.mti = MtiOf(r, row.stage)
          BY TypedIs DEF Unanswered, RowsKnown, DbTyped, Rows
        <5>2. row.stage = "original"
          BY <1>15, <3>2, <5>1 DEF RowsKnown, LogFollowUp, Stages
        <5>3. row \in Unanswered(answer.reference, answer.mti)
          BY <3>2, <5>1, <5>2 DEF Unanswered, O, Request
        <5> QED BY <1>3, <1>15, <4>1, <5>3 DEF AnswerDone, LogFollowUp
      <4> QED BY <4>1
    <3>5. Reliable' => DueRows' /\ (~ closed' => RowsDue')
      <4>1. UNCHANGED closed
        BY <1>15 DEF LogFollowUp
      <4> QED BY <1>3, <2>1, <3>1, <3>2, <3>3, <3>4, <4>1, RowAdded
    <3>6. AnswerDone'
      BY <2>1 DEF AnswerDone
    <3> QED BY <3>5, <3>6
  <2>2. CASE Refused
    <3>1. ~ Reliable'
      BY <1>15, <2>2, RowsChange DEF LogFollowUp
    <3> QED BY <3>1
  <2> QED
    <3>1. \/ reader' = "send" /\ AddRequestLog(F(r))
          \/ reader' = "read" /\ Refused
      BY <1>15 DEF LogFollowUp, F
    <3>2. \/ reader' = "send" /\ Due' = Due \cup {F(r)}
          \/ reader' = "read" /\ Due' = Due
      BY <1>15, DueSteps
    <3> QED BY <2>1, <2>2, <3>1, <3>2
<1>16. CASE QueueFollowUp
  <2> DEFINE m == F(answer.reference)
  <2>1. UNCHANGED <<dbOpen, closed, answer>> /\ reader' = "read"
    BY <1>16 DEF QueueFollowUp
  <2>2. CASE queue' # queue
    <3>1. Due' = Due
      BY <1>16, <2>2, DueSteps
    <3>2. MarkScheduledMessageSent(m.reference) \/ Refused
      BY <1>16, <2>2 DEF QueueFollowUp, F
    <3>3. log' = log /\ (Reliable' => Reliable)
      BY <2>1, <3>2, RowsChange
    <3> QED BY <1>1, <1>5, <2>1, <3>1, <3>3 DEF Shape
  <2>3. CASE queue' = queue
    <3>1. m \in Due /\ Due' = Due \ {m}
      BY <1>16, <2>3, DueSteps
    <3>2. Append(queue, m) # queue
      BY <1>1, <1>16, AppendProperties, LenProperties DEF QueueFollowUp, Shape, Message
    <3>3. DeleteRequestLog(m) \/ Refused
      BY <1>16, <2>3, <3>2 DEF QueueFollowUp, F
    <3> QED BY <1>8, <2>1, <3>1, <3>3
  <2> QED BY <2>2, <2>3
<1>17. CASE ReadFails \/ ReadRequest
  <2>1. Due' = Due
    BY <1>17, DueSteps
  <2>2. log' = log /\ (Reliable' => Reliable) /\ (closed' \/ UNCHANGED closed) /\ reader' \in {"read", "stopped"}
    BY <1>17, RowsChange DEF ReadFails, ReadRequest, readerVars
  <2> QED BY <1>1, <1>5, <2>1, <2>2 DEF Shape
<1>18. CASE Respond \/ SendMessage \/ Close \/ CloseDB \/ UNCHANGED vars
  <2>1. Due' = Due
    BY <1>18, DueSteps
  <2>2. /\ log' = log /\ (Reliable' => Reliable) /\ (closed' \/ UNCHANGED closed)
        /\ UNCHANGED <<reader, answer>>
    BY <1>18 DEF Respond, SendMessage, Close, CloseDB, vars, readerVars, dbVars, Reliable
  <2> QED BY <1>1, <1>5, <2>1, <2>2 DEF Shape
<1> QED
  BY <1>6, <1>7, <1>9, <1>10, <1>11, <1>12, <1>13, <1>14, <1>15, <1>16, <1>17, <1>18
  DEF Next, Send, Writer, Reader

\* An answer reaches another row only once statements have been lost.
LEMMA RightRowStep ==
  Typed /\ Places /\ InOrder /\ Entered /\ RowsKnown /\ Rowed /\ RightRowAnswered /\ [Next]_vars => RightRowAnswered'
<1> SUFFICES ASSUME Typed, Places, InOrder, Entered, RowsKnown, Rowed, RightRowAnswered, [Next]_vars,
                    NEW row \in log'
             PROVE  \/ row.answeredBy \in {"none", row.stage}
                    \/ ~ Reliable' /\ template'[row.reference].mti = template'[row.reference].followUp
  BY DEF RightRowAnswered
<1>1. Shape /\ log \subseteq Rows
  BY TypedIs DEF DbTyped
<1>2. template' = template
  BY TemplateStays
<1> DEFINE Right(x, reliable) ==
             \/ x.answeredBy \in {"none", x.stage}
             \/ ~ reliable /\ template[x.reference].mti = template[x.reference].followUp
<1>3. \A x \in log : Right(x, Reliable)
  BY DEF RightRowAnswered
<1>4. CASE row \in log /\ (Reliable' => Reliable)
  BY <1>2, <1>3, <1>4
<1>5. CASE row.answeredBy = "none"
  BY <1>5
<1>6. CASE RecordAnswer
  <2> DEFINE old == Unanswered(answer.reference, answer.mti)
             new == (log \ old) \cup {[x EXCEPT !.answeredBy = answer.stage] : x \in old}
  <2>1. UpdateResponseTime(answer.reference, answer.mti, answer.stage) \/ Refused
    BY <1>6 DEF RecordAnswer
  <2>2. log' \in {log, new} /\ (Reliable' => Reliable /\ log' = new)
    BY <1>6, <2>1, RowsChange DEF RecordAnswer
  <2>3. ASSUME NEW x \in old, row = [x EXCEPT !.answeredBy = answer.stage] PROVE Right(row, Reliable')
    <3>1. /\ x \in log /\ x \in Rows /\ x.reference = answer.reference /\ x.mti = answer.mti
          /\ x.mti = MtiOf(x.reference, x.stage) /\ x.stage \in Stages
      BY <1>1 DEF Unanswered, RowsKnown, Rows
    <3>2. /\ row.reference = x.reference /\ row.stage = x.stage /\ row.answeredBy = answer.stage
      BY <2>3, <3>1 DEF Rows
    <3>3. answer \in Due
      BY <1>6, DueSteps
    <3>4. answer.stage \in Stages /\ answer.mti = MtiOf(answer.reference, answer.stage)
      <4>1. answer \in Message
        BY <3>3, DueApart
      <4> QED BY <1>1, <4>1, MessageParts DEF Shape, O, F, Request
    <3>5. CASE x.stage = answer.stage
      BY <3>2, <3>5
    <3>6. CASE x.stage # answer.stage
      <4>1. template[x.reference].mti = template[x.reference].followUp
        BY <3>1, <3>4, <3>6 DEF Stages, MtiOf
      <4>2. ~ Reliable
        <5>1. Reliable => x = Row(answer)
          BY <3>3 DEF Rowed
        <5>2. Row(answer).stage = answer.stage
          BY DEF Row
        <5> QED BY <3>6, <5>1, <5>2
      <4> QED BY <2>2, <3>2, <4>1, <4>2
    <3> QED BY <3>5, <3>6
  <2> QED BY <1>2, <1>4, <2>2, <2>3
<1>7. CASE \E r \in References : Send(r)
  <2>1. PICK r \in References : Register(r) \/ LogRequest(r) \/ QueueRequest(r)
    BY <1>7 DEF Send
  <2>2. CASE Register(r)
    BY <1>4, <2>2, RowsChange DEF Register
  <2>3. CASE LogRequest(r)
    <3>1. CASE AddRequestLog(O(r))
      BY <1>4, <1>5, <2>3, <3>1, RowsChange DEF LogRequest, Row
    <3>2. CASE Refused
      BY <1>4, <2>3, <3>2, RowsChange DEF LogRequest
    <3> QED BY <2>3, <3>1, <3>2 DEF LogRequest, O
  <2>4. CASE QueueRequest(r)
    BY <1>4, <2>4, RowsChange DEF QueueRequest
  <2> QED BY <2>1, <2>2, <2>3, <2>4
<1>8. CASE LogFollowUp
  <2>1. CASE AddRequestLog(F(answer.reference))
    BY <1>4, <1>5, <1>8, <2>1, RowsChange DEF LogFollowUp, Row
  <2>2. CASE Refused
    BY <1>4, <1>8, <2>2, RowsChange DEF LogFollowUp
  <2> QED BY <1>8, <2>1, <2>2 DEF LogFollowUp, F
<1>9. CASE QueueFollowUp
  BY <1>4, <1>9, RowsChange DEF QueueFollowUp
<1>10. CASE Writer \/ (\E m \in inFlight : ReadResponse(m)) \/ TakeFollowUp \/ ReadFails \/ ReadRequest
  BY <1>4, <1>10
  DEF Writer, Take, Write, WriteFails, WriterStops, ReadResponse, TakeFollowUp, ReadFails, ReadRequest, dbVars,
      Reliable
<1>11. CASE Respond \/ SendMessage \/ Close \/ CloseDB \/ UNCHANGED vars
  BY <1>4, <1>11 DEF Respond, SendMessage, Close, CloseDB, vars, dbVars, Reliable
<1> QED BY <1>6, <1>7, <1>8, <1>9, <1>10, <1>11 DEF Next, Reader

-----------------------------------------------------------------------------
(* The invariant and what follows from it                                  *)

IInv ==
  /\ Typed /\ Places /\ InOrder /\ Entered /\ NoneUnmatched /\ FollowUpHasItsOriginal /\ Marked
  /\ RowsKnown /\ Rowed /\ OnItsWay /\ RightRowAnswered

LEMMA IInvInit == Init => IInv
<1> SUFFICES ASSUME Init PROVE IInv
  OBVIOUS
<1>1. Queued = {} /\ BeingWritten = {} /\ BeingAnswered = {} /\ Awaited = {} /\ Sent = {} /\ Distinct
  BY EmptySeq DEF Init, Queued, BeingWritten, BeingAnswered, Awaited, Sent, Distinct
<1>2. Typed /\ Places /\ InOrder /\ Entered /\ NoneUnmatched
  BY <1>1, TypedInit DEF Init, Places, InOrder, Entered, NoneUnmatched, Active
<1>3. FollowUpHasItsOriginal /\ Marked /\ RowsKnown /\ OnItsWay /\ RightRowAnswered
  BY DEF Init, FollowUpHasItsOriginal, Marked, RowsKnown, OnItsWay, RightRowAnswered
<1>4. Due = {}
  BY <1>1 DEF Init, Due
<1>5. Rowed
  BY <1>4 DEF Init, Rowed
<1> QED BY <1>2, <1>3, <1>5 DEF IInv

LEMMA IInvStep == IInv /\ [Next]_vars => IInv'
  BY TypedStep, InOrderStep, EnteredStep, RegisteredStep, MarkedStep, RowsKnownStep, RowedStep, RightRowStep
  DEF IInv

LEMMA IInvHolds == Spec => []IInv
  BY IInvInit, IInvStep, PTL DEF Spec

\* The types of the connection's state, the capacity of the write channel among
\* them.
THEOREM TypeCorrect == Spec => []TypeOK
<1>1. IInv => TypeOK
  BY DEF IInv, Typed
<1> QED BY <1>1, IInvHolds, PTL

\* Whatever order responses come in, HandleRead finds for each the entry that
\* HandleChannelEvents made before the write.
THEOREM EveryResponseMatched == Spec => []NoneUnmatched
<1>1. IInv => NoneUnmatched
  BY DEF IInv
<1> QED BY <1>1, IInvHolds, PTL

\* A request is written once, and a follow-up only after its original has been
\* answered; it is marked as sent in scheduled_message only if it is queued.
THEOREM EachSentOnceInOrder == Spec => []SentOnceInOrder
<1>1. IInv => SentOnceInOrder
  <2> SUFFICES ASSUME IInv PROVE SentOnceInOrder
    OBVIOUS
  <2>1. Shape /\ Places /\ InOrder /\ Marked
    BY TypedIs DEF IInv
  <2>2. \A i, j \in 1 .. Len(queue) : queue[i] = queue[j] /\ queue[i] # Plain => i = j
    BY <2>1 DEF Places, Distinct
  <2>3. ASSUME NEW m \in Awaited, m.stage = "followUp"
        PROVE  O(m.reference) \in written /\ O(m.reference) \notin Awaited
    <3>1. m \in Message /\ m \in Sent
      BY <2>1, <2>3, Apart DEF Awaited, Shape, BeingWritten, BeingAnswered, Active, Queued, Sent
    <3>2. m = F(m.reference) /\ m.reference \in References
      BY <2>1, <2>3, <3>1, MessageParts DEF Shape
    <3>3. O(m.reference) \in written \ inFlight /\ ~ (Active /\ answer = O(m.reference))
      BY <2>1, <3>1, <3>2 DEF InOrder
    <3> QED BY <2>1, <3>3 DEF Awaited, Places, BeingAnswered, Active
  <2>4. \A r \in References : scheduled[r] = "sent" => closed \/ F(r) \in Awaited \cup written
    BY <2>1 DEF Marked
  <2>5. (Queued \cup BeingWritten) \cap written \subseteq {Plain}
    BY <2>1 DEF Places
  <2> QED BY <2>2, <2>3, <2>4, <2>5 DEF SentOnceInOrder, O, F
<1> QED BY <1>1, IInvHolds, PTL

\* No entry of followUps outlives the request whose answer would take it.
THEOREM FollowUpsAnswerable == Spec => []FollowUpHasItsOriginal
<1>1. IInv => FollowUpHasItsOriginal
  BY DEF IInv
<1> QED BY <1>1, IInvHolds, PTL

\* As long as no statement is lost, UpdateResponseTime and DeleteRequestLog hit
\* the one row they are meant for, though they name it by reference and MTI.
THEOREM AwaitedRows == Spec => []AwaitedHasItsRow
<1>1. IInv => AwaitedHasItsRow
  <2> SUFFICES ASSUME IInv PROVE AwaitedHasItsRow
    OBVIOUS
  <2> QED BY DEF IInv, Rowed, Due, AwaitedHasItsRow
<1> QED BY <1>1, IInvHolds, PTL

\* An answer is recorded on another request's row only after a lost statement,
\* and then on that of the same reference and MTI.
THEOREM RowsRightlyAnswered == Spec => []RightRowAnswered
<1>1. IInv => RightRowAnswered
  BY DEF IInv
<1> QED BY <1>1, IInvHolds, PTL

\* On an open connection, with no statement lost, a row without an answer is of
\* a request still on its way: the counts of unanswered requests are right.
THEOREM NothingLeftBehind == Spec => []UnansweredIsOnItsWay
<1>1. IInv => UnansweredIsOnItsWay
  <2> SUFFICES ASSUME IInv PROVE UnansweredIsOnItsWay
    OBVIOUS
  <2>1. SUFFICES ASSUME Reliable, ~ closed, NEW row \in log, row.answeredBy = "none"
                 PROVE  \/ \E m \in Awaited : Row(m) = row
                        \/ row.stage = "original" /\ sender[row.reference] = "queue"
                        \/ row.stage = "followUp" /\ reader = "send" /\ answer.reference = row.reference
    BY DEF UnansweredIsOnItsWay
  <2>2. PICK n \in Due : Row(n) = row
    BY <2>1 DEF IInv, OnItsWay
  <2>3. row.stage = n.stage /\ row.reference = n.reference
    BY <2>2 DEF Row
  <2>4. CASE \E q \in References : sender[q] = "queue" /\ n = O(q)
    BY <2>3, <2>4 DEF O, Request
  <2>5. CASE reader = "send" /\ n = F(answer.reference)
    BY <2>3, <2>5 DEF F, Request
  <2> QED BY <2>2, <2>4, <2>5 DEF Due
<1> QED BY <1>1, IInvHolds, PTL

-----------------------------------------------------------------------------
(* The refinement of RequestLog                                            *)

\* A row is answered once its request has been written.
AnsweredRows ==
  \A row \in log : row.answeredBy # "none" => Request(row.reference, row.stage) \in written

LEMMA AnsweredRowsStep == Typed /\ Places /\ InOrder /\ RowsKnown /\ AnsweredRows /\ [Next]_vars => AnsweredRows'
<1> SUFFICES ASSUME Typed, Places, InOrder, RowsKnown, AnsweredRows, [Next]_vars PROVE AnsweredRows'
  OBVIOUS
<1>0. \A r, stage : Request(r, stage)' = Request(r, stage)
  <2>1. template' = template
    BY TemplateStays
  <2> QED BY <2>1 DEF Request, MtiOf
<1> SUFFICES ASSUME NEW row \in log', row.answeredBy # "none"
             PROVE  Request(row.reference, row.stage) \in written'
  BY <1>0 DEF AnsweredRows
<1>1. Shape /\ log \subseteq Rows
  BY TypedIs DEF DbTyped
<1>2. row \in log /\ written \subseteq written' => Request(row.reference, row.stage) \in written'
  BY DEF AnsweredRows
<1>3. CASE RecordAnswer
  <2> DEFINE old == Unanswered(answer.reference, answer.mti)
             new == (log \ old) \cup {[x EXCEPT !.answeredBy = answer.stage] : x \in old}
  <2>1. log' \in {log, new} /\ written' = written
    BY <1>3, RowsChange DEF RecordAnswer, writerVars
  <2>2. ASSUME NEW x \in old, row = [x EXCEPT !.answeredBy = answer.stage]
        PROVE  Request(row.reference, row.stage) \in written
    <3>1. x \in log /\ x \in Rows /\ x.reference = answer.reference /\ x.stage \in Stages
      BY <1>1 DEF Unanswered, Rows
    <3>2. row.reference = answer.reference /\ row.stage = x.stage
      BY <2>2, <3>1 DEF Rows
    <3>3. answer \in written /\ answer \in Message /\ answer \in Sent /\ reader = "update"
      BY <1>1, <1>3 DEF RecordAnswer, Active, Shape, Sent
    <3>4. answer.reference \in References /\ (answer = O(answer.reference) \/ answer = F(answer.reference))
      BY <1>1, <3>3, Apart
    <3>5. CASE answer = O(answer.reference)
      <4>1. x.stage # "followUp"
        BY <3>1, <3>3, <3>5 DEF RowsKnown
      <4> QED BY <3>1, <3>2, <3>3, <3>5, <4>1 DEF Stages, O
    <3>6. CASE answer = F(answer.reference)
      <4>1. O(answer.reference) \in written
        BY <3>3, <3>4, <3>6 DEF InOrder
      <4> QED BY <3>1, <3>2, <3>3, <3>6, <4>1 DEF Stages, O, F
    <3> QED BY <3>4, <3>5, <3>6
  <2> QED BY <1>2, <2>1, <2>2
<1>4. CASE \E r \in References : Send(r)
  <2>1. PICK r \in References : Register(r) \/ LogRequest(r) \/ QueueRequest(r)
    BY <1>4 DEF Send
  <2>2. written' = written
    BY <2>1 DEF Register, LogRequest, QueueRequest, writerVars
  <2>3. Register(r) \/ QueueRequest(r) => row \in log
    BY RowsChange DEF Register, QueueRequest
  <2>4. LogRequest(r) => row \in log
    BY RowsChange DEF LogRequest, Row
  <2> QED BY <1>2, <2>1, <2>2, <2>3, <2>4
<1>5. CASE LogFollowUp
  BY <1>2, <1>5, RowsChange DEF LogFollowUp, Row, writerVars
<1>6. CASE QueueFollowUp
  BY <1>2, <1>6, RowsChange DEF QueueFollowUp, writerVars
<1>7. CASE Writer \/ (\E m \in inFlight : ReadResponse(m)) \/ TakeFollowUp \/ ReadFails \/ ReadRequest
  BY <1>2, <1>7
  DEF Writer, Take, Write, WriteFails, WriterStops, ReadResponse, TakeFollowUp, ReadFails, ReadRequest, dbVars,
      writerVars
<1>8. CASE Respond \/ SendMessage \/ Close \/ CloseDB \/ UNCHANGED vars
  BY <1>2, <1>8 DEF Respond, SendMessage, Close, CloseDB, vars, dbVars, writerVars
<1> QED BY <1>3, <1>4, <1>5, <1>6, <1>7, <1>8 DEF Next, Reader

LogInv == IInv /\ AnsweredRows

LEMMA LogInvHolds == Spec => []LogInv
<1>1. Init => LogInv
  BY IInvInit DEF Init, AnsweredRows, LogInv
<1>2. LogInv /\ [Next]_vars => LogInv'
  BY IInvStep, AnsweredRowsStep DEF LogInv, IInv
<1> QED BY <1>1, <1>2, PTL DEF Spec

\* On the way to the client
OnWay == Queued \cup BeingWritten

Untouched(m) ==
  (m \in OnWay' <=> m \in OnWay) /\ (m \in Awaited' <=> m \in Awaited) /\ (m \in written' <=> m \in written)

\* What the places of messages and goroutines say of each other.
LEMMA Standing ==
  ASSUME Typed, Places, InOrder, NEW r \in References
  PROVE  /\ OnWay \subseteq Sent /\ Awaited \subseteq Sent /\ written \subseteq Sent /\ OnWay \ {Plain} \subseteq Awaited
         /\ sender[r] # "queued" =>
              O(r) \notin Sent /\ F(r) \notin Sent /\ ~ InHand(r, "log") /\ ~ InHand(r, "send")
         /\ InHand(r, "log") \/ InHand(r, "send") =>
              /\ answer = O(r) /\ sender[r] = "queued" /\ r \notin followUps /\ F(r) \notin Sent
              /\ O(r) \in written /\ O(r) \notin OnWay /\ O(r) \notin Awaited
         /\ F(r) \in Sent => sender[r] = "queued" /\ r \notin followUps /\ ~ InHand(r, "log") /\ ~ InHand(r, "send")
         /\ r \in followUps => ~ NoFollowUp(r)
         /\ NoFollowUp(r) => F(r) \notin Sent
         /\ O(r) \in Sent => OriginalAt(r) = Whereabouts(O(r))
         /\ F(r) \in Sent => FollowUpAt(r) = Whereabouts(F(r))
<1>1. Shape
  BY TypedIs
<1>2. O(r) # Plain /\ F(r) # Plain /\ O(r) \in Message
  BY <1>1, Apart
<1>3. /\ OnWay \subseteq Sent /\ Awaited \subseteq Sent /\ written \subseteq Sent
      /\ OnWay \ {Plain} \subseteq Awaited
  BY <1>1 DEF OnWay, Sent, Awaited, BeingAnswered, Active, Shape
<1>4. InHand(r, "log") \/ InHand(r, "send") => answer = O(r) /\ O(r) \in written \ inFlight
  BY <1>1, Apart DEF InHand, InOrder, Originals, Shape, Active, Places
<1>5. F(r) \in Sent => O(r) \in written \ inFlight /\ ~ (Active /\ answer = O(r)) /\ r \notin followUps
  BY DEF InOrder
<1>6. O(r) \in Sent => sender[r] = "queued"
  BY DEF InOrder
<1>7. InHand(r, "log") \/ InHand(r, "send") => F(r) \notin Sent /\ r \notin followUps
  BY <1>4, <1>5 DEF InHand, Active, InOrder
<1>8. InHand(r, "log") \/ InHand(r, "send") => O(r) \notin OnWay /\ O(r) \notin Awaited
  BY <1>2, <1>4 DEF InHand, OnWay, Awaited, BeingAnswered, Places
<1>9. F(r) \in Sent => sender[r] = "queued"
  BY <1>3, <1>5, <1>6
<1>10. NoFollowUp(r) => F(r) \notin Sent
  <2>1. Sent \subseteq Message \cup {Plain}
    <3>1. Queued \subseteq Message \cup {Plain}
      BY <1>1 DEF Shape, Queued
    <3> QED BY <1>1, <3>1 DEF Shape, BeingWritten, Sent
  <2>2. F(r) \in Message => ~ NoFollowUp(r)
    BY <1>1, MessageParts, MessagesDiffer DEF Shape
  <2> QED BY <1>2, <2>1, <2>2
<1>11. O(r) \in Sent => OriginalAt(r) = Whereabouts(O(r))
  BY <1>6 DEF OriginalAt, O
<1>12. F(r) \in Sent => FollowUpAt(r) = Whereabouts(F(r))
  BY <1>5, <1>7, <1>9 DEF FollowUpAt, Ahead, F
<1> QED BY <1>1, <1>3, <1>4, <1>5, <1>6, <1>7, <1>8, <1>9, <1>10, <1>11, <1>12 DEF Shape

LEMMA OriginalStays ==
  ASSUME [Next]_vars, NEW r \in References, sender'[r] = sender[r], Untouched(O(r))
  PROVE  OriginalAt(r)' = OriginalAt(r)
<1>1. O(r)' = O(r)
  BY TemplateStays, MessagesStay
<1>2. Whereabouts(O(r))' = Whereabouts(O(r))
  BY <1>1 DEF Untouched, OnWay, Whereabouts
<1> QED BY <1>2 DEF OriginalAt, O

LEMMA FollowUpStays ==
  ASSUME [Next]_vars, NEW r \in References, Untouched(F(r)),
         InHand(r, "send")' <=> InHand(r, "send"), Ahead(r)' <=> Ahead(r)
  PROVE  FollowUpAt(r)' = FollowUpAt(r)
<1>1. F(r)' = F(r)
  BY TemplateStays, MessagesStay
<1>2. Whereabouts(F(r))' = Whereabouts(F(r))
  BY <1>1 DEF Untouched, OnWay, Whereabouts
<1> QED BY <1>2 DEF FollowUpAt, F

\* Where the reader and followUps stand as they did, a follow-up is ahead if it was.
LEMMA AheadStays ==
  ASSUME [Next]_vars, NEW r \in References
  PROVE  /\ UNCHANGED <<reader, answer>> => \A stage : InHand(r, stage)' <=> InHand(r, stage)
         /\ (sender'[r] = "idle" <=> sender[r] = "idle") /\ (r \in followUps' <=> r \in followUps)
            /\ (InHand(r, "log")' <=> InHand(r, "log"))
            => (Ahead(r)' <=> Ahead(r))
<1>1. NoFollowUp(r)' <=> NoFollowUp(r)
  BY TemplateStays, MessagesStay
<1> QED BY <1>1 DEF InHand, Ahead

\* The places of the requests, from where those of one reference go.
LEMMA PlaceMoves ==
  ASSUME NEW r \in References,
         \A q \in References \ {r} : OriginalAt(q)' = OriginalAt(q) /\ FollowUpAt(q)' = FollowUpAt(q)
  PROVE  /\ OriginalAt(r)' = OriginalAt(r) /\ FollowUpAt(r)' = FollowUpAt(r) => Place' = Place
         /\ FollowUpAt(r)' = FollowUpAt(r) =>
              Place' = [Place EXCEPT ![<<r, "original">>] = OriginalAt(r)']
         /\ OriginalAt(r)' = OriginalAt(r) =>
              Place' = [Place EXCEPT ![<<r, "followUp">>] = FollowUpAt(r)']
         /\ OriginalAt(r)' = "gone" /\ FollowUpAt(r)' = "gone" => RequestLog!GiveUp(<<r, "original">>)
         /\ OriginalAt(r)' = OriginalAt(r) /\ FollowUpAt(r)' = "gone" => RequestLog!GiveUp(<<r, "followUp">>)
<1> DEFINE R == References \X Stages
           At(m) == IF m[2] = "original" THEN OriginalAt(m[1]) ELSE FollowUpAt(m[1])
<1>1. ASSUME NEW m \in R PROVE m = <<m[1], m[2]>> /\ m[1] \in References /\ m[2] \in {"original", "followUp"}
  BY DEF Stages
<1>2. <<r, "original">> \in R /\ <<r, "followUp">> \in R /\ <<r, "original">> # <<r, "followUp">>
  BY DEF Stages
<1>3. Place = [m \in R |-> At(m)] /\ Place' = [m \in R |-> At(m)']
  BY DEF Place
<1>4. ASSUME NEW m \in R, m[1] # r PROVE At(m)' = At(m)
  BY <1>1, <1>4
<1>5. ASSUME NEW m \in R, m[1] = r PROVE m = <<r, "original">> \/ m = <<r, "followUp">>
  BY <1>1, <1>5
<1>6. /\ At(<<r, "original">>) = OriginalAt(r) /\ At(<<r, "original">>)' = OriginalAt(r)'
      /\ At(<<r, "followUp">>) = FollowUpAt(r) /\ At(<<r, "followUp">>)' = FollowUpAt(r)'
  OBVIOUS
<1> HIDE DEF At, R
<1>7. OriginalAt(r)' = OriginalAt(r) /\ FollowUpAt(r)' = FollowUpAt(r) => Place' = Place
  BY <1>3, <1>4, <1>5, <1>6
<1>8. FollowUpAt(r)' = FollowUpAt(r) => Place' = [Place EXCEPT ![<<r, "original">>] = OriginalAt(r)']
  BY <1>2, <1>3, <1>4, <1>5, <1>6
<1>9. OriginalAt(r)' = OriginalAt(r) => Place' = [Place EXCEPT ![<<r, "followUp">>] = FollowUpAt(r)']
  BY <1>2, <1>3, <1>4, <1>5, <1>6
<1>10. ASSUME NEW n \in R
       PROVE  /\ n \in RequestLog!WithFollowUp(<<r, "original">>) <=> n[1] = r
              /\ n \in RequestLog!WithFollowUp(<<r, "followUp">>) <=> n = <<r, "followUp">>
  <2>1. n \in RequestLog!Requests
    BY DEF RequestLog!Requests, R, Stages
  <2> QED BY <1>1, <1>2, <1>5, <2>1 DEF RequestLog!WithFollowUp, RequestLog!Original
<1>11. RequestLog!Requests = R
  BY DEF RequestLog!Requests, R, Stages
<1>12. OriginalAt(r)' = "gone" /\ FollowUpAt(r)' = "gone" => RequestLog!GiveUp(<<r, "original">>)
  BY <1>3, <1>4, <1>5, <1>6, <1>10, <1>11 DEF RequestLog!GiveUp
<1>13. OriginalAt(r)' = OriginalAt(r) /\ FollowUpAt(r)' = "gone" => RequestLog!GiveUp(<<r, "followUp">>)
  BY <1>3, <1>4, <1>5, <1>6, <1>10, <1>11 DEF RequestLog!GiveUp
<1> QED BY <1>7, <1>8, <1>9, <1>12, <1>13

LEMMA PlaceIs ==
  ASSUME NEW r \in References
  PROVE  /\ <<r, "original">> \in RequestLog!Requests /\ <<r, "followUp">> \in RequestLog!Requests
         /\ Place[<<r, "original">>] = OriginalAt(r) /\ Place[<<r, "followUp">>] = FollowUpAt(r)
         /\ RequestLog!Original(<<r, "original">>) = <<r, "original">>
         /\ RequestLog!Original(<<r, "followUp">>) = <<r, "original">>
  BY DEF Place, Stages, RequestLog!Requests, RequestLog!Original

\* Nothing is queued, written or answered.
LEMMA NothingMoves ==
  ASSUME [Next]_vars, Awaited' = Awaited, UNCHANGED <<queue, writer, out, written>>
  PROVE  \A m : Untouched(m)
  BY ChannelStays DEF Untouched, OnWay

\* sendSingleMessage, as far as the requests' places.
LEMMA PlaceRegister ==
  ASSUME Typed, Places, InOrder, Entered, [Next]_vars, NEW r \in References, Register(r)
  PROVE  Place' = Place
<1>1. Shape
  BY TypedIs
<1>2. \A m : Untouched(m)
  BY AwaitedSteps, NothingMoves DEF Register, writerVars
<1>3. /\ sender[r] = "idle" /\ sender'[r] = "log" /\ UNCHANGED <<reader, answer>>
      /\ followUps' = IF NoFollowUp(r) THEN followUps ELSE followUps \cup {r}
      /\ \A q \in References \ {r} : sender'[q] = sender[q]
  BY <1>1 DEF Register, readerVars, Shape
<1>4. ASSUME NEW q \in References \ {r} PROVE OriginalAt(q)' = OriginalAt(q) /\ FollowUpAt(q)' = FollowUpAt(q)
  BY <1>2, <1>3, OriginalStays, FollowUpStays, AheadStays
<1>5. OriginalAt(r)' = OriginalAt(r)
  BY <1>3 DEF OriginalAt
<1>6. FollowUpAt(r)' = FollowUpAt(r)
  <2>1. InHand(r, "send")' <=> InHand(r, "send")
    BY <1>3, AheadStays
  <2>2. ~ InHand(r, "log") /\ ~ InHand(r, "log")'
    BY <1>3, Standing, AheadStays
  <2>3. Ahead(r) <=> ~ NoFollowUp(r)
    BY <1>3, <2>2, Standing DEF Ahead
  <2>4. NoFollowUp(r)' <=> NoFollowUp(r)
    BY TemplateStays, MessagesStay
  <2>5. r \notin followUps \/ ~ NoFollowUp(r)
    BY Standing
  <2>6. Ahead(r)' <=> ~ NoFollowUp(r)
    BY <1>3, <2>2, <2>4, <2>5 DEF Ahead
  <2> QED BY <1>2, <2>1, <2>3, <2>6, FollowUpStays
<1> QED BY <1>4, <1>5, <1>6, PlaceMoves

LEMMA PlaceLogRequest ==
  ASSUME Typed, Places, InOrder, Entered, [Next]_vars, NEW r \in References, LogRequest(r)
  PROVE  /\ Place[<<r, "original">>] = "new"
         /\ sender'[r] = "queue" => Place' = [Place EXCEPT ![<<r, "original">>] = "due"]
         /\ sender'[r] = "refused" => RequestLog!GiveUp(<<r, "original">>)
<1>1. Shape
  BY TypedIs
<1>2. \A m : Untouched(m)
  BY AwaitedSteps, NothingMoves DEF LogRequest, writerVars
<1>3. /\ sender[r] = "log" /\ UNCHANGED <<reader, answer>>
      /\ \/ sender'[r] = "queue" /\ followUps' = followUps
         \/ sender'[r] = "refused" /\ followUps' = followUps \ {r}
      /\ \A q \in References \ {r} : sender'[q] = sender[q]
  BY <1>1 DEF LogRequest, Forget, readerVars, Shape
<1>4. ASSUME NEW q \in References \ {r} PROVE OriginalAt(q)' = OriginalAt(q) /\ FollowUpAt(q)' = FollowUpAt(q)
  BY <1>2, <1>3, OriginalStays, FollowUpStays, AheadStays
<1>5. OriginalAt(r) = "new"
  BY <1>3 DEF OriginalAt
<1>6. CASE sender'[r] = "queue"
  <2>1. OriginalAt(r)' = "due"
    BY <1>6 DEF OriginalAt
  <2>2. FollowUpAt(r)' = FollowUpAt(r)
    BY <1>2, <1>3, <1>6, FollowUpStays, AheadStays
  <2>3. Place' = [Place EXCEPT ![<<r, "original">>] = "due"]
    BY <1>4, <2>1, <2>2, PlaceMoves
  <2> QED BY <1>5, <1>6, <2>3, PlaceIs
<1>7. CASE sender'[r] = "refused"
  <2>1. O(r)' = O(r) /\ F(r)' = F(r)
    BY TemplateStays, MessagesStay
  <2>2. O(r) \notin Sent /\ F(r) \notin Sent /\ ~ InHand(r, "log") /\ ~ InHand(r, "send")
    BY <1>3, Standing
  <2>3. /\ O(r) \notin OnWay' /\ O(r) \notin Awaited' /\ O(r) \notin written'
        /\ F(r) \notin OnWay' /\ F(r) \notin Awaited' /\ F(r) \notin written'
    BY <1>2, <2>2, Standing DEF Untouched
  <2>4. OriginalAt(r)' = "gone"
    BY <1>7, <2>1, <2>3 DEF OriginalAt, Whereabouts, O, OnWay
  <2>5. ~ InHand(r, "send")' /\ ~ Ahead(r)'
    BY <1>3, <1>7, <2>2, AheadStays DEF Ahead
  <2>6. FollowUpAt(r)' = "gone"
    BY <2>1, <2>3, <2>5 DEF FollowUpAt, Whereabouts, F, OnWay
  <2> QED BY <1>4, <1>5, <1>7, <2>4, <2>6, PlaceMoves, PlaceIs
<1> QED BY <1>3, <1>6, <1>7

LEMMA PlaceQueueRequest ==
  ASSUME Typed, Places, InOrder, Entered, [Next]_vars, NEW r \in References, QueueRequest(r)
  PROVE  /\ Place[<<r, "original">>] = "due"
         /\ sender'[r] = "queued" => Place' = Place
         /\ sender'[r] = "dropped" => RequestLog!GiveUp(<<r, "original">>)
<1>1. Shape
  BY TypedIs
<1>2. /\ sender[r] = "queue" /\ UNCHANGED <<reader, answer, writer, out, written>>
      /\ \A q \in References \ {r} : sender'[q] = sender[q]
      /\ \/ sender'[r] = "queued" /\ followUps' = followUps /\ queue' = Append(queue, O(r))
         \/ sender'[r] = "dropped" /\ followUps' = followUps \ {r} /\ queue' = queue
  BY <1>1 DEF QueueRequest, Forget, writerVars, readerVars, Shape, O
<1>3. O(r)' = O(r) /\ F(r)' = F(r)
  BY TemplateStays, MessagesStay
<1>4. OriginalAt(r) = "due"
  BY <1>2 DEF OriginalAt
<1>5. O(r) \notin Sent /\ F(r) \notin Sent /\ ~ InHand(r, "log") /\ ~ InHand(r, "send")
  BY <1>2, Standing
<1>6. CASE sender'[r] = "queued"
  <2>1. Awaited' = Awaited \cup {O(r)}
    BY <1>6, AwaitedSteps
  <2>2. OnWay' = OnWay \cup {O(r)}
    <3>1. O(r) \in Message
      BY <1>1, Apart
    <3>2. Queued' = Queued \cup {O(r)}
      BY <1>1, <1>2, <1>6, <3>1, QueueGrows DEF Shape
    <3> QED BY <1>2, <3>2, ChannelStays DEF OnWay
  <2>3. \A m : m # O(r) => Untouched(m)
    BY <1>2, <2>1, <2>2 DEF Untouched
  <2>4. ASSUME NEW q \in References \ {r} PROVE OriginalAt(q)' = OriginalAt(q) /\ FollowUpAt(q)' = FollowUpAt(q)
    <3>1. O(q) # O(r) /\ F(q) # O(r)
      BY MessagesDiffer
    <3> QED BY <1>2, <1>6, <2>3, <3>1, OriginalStays, FollowUpStays, AheadStays
  <2>5. OriginalAt(r)' = "due"
    BY <1>3, <1>6, <2>2 DEF OriginalAt, Whereabouts, O, OnWay
  <2>6. FollowUpAt(r)' = FollowUpAt(r)
    <3>1. F(r) # O(r)
      BY MessagesDiffer
    <3> QED BY <1>2, <1>6, <2>3, <3>1, FollowUpStays, AheadStays
  <2> QED BY <1>4, <1>6, <2>4, <2>5, <2>6, PlaceMoves, PlaceIs
<1>7. CASE sender'[r] = "dropped"
  <2>1. \A m : Untouched(m)
    BY <1>2, <1>7, AwaitedSteps, NothingMoves
  <2>2. ASSUME NEW q \in References \ {r} PROVE OriginalAt(q)' = OriginalAt(q) /\ FollowUpAt(q)' = FollowUpAt(q)
    BY <1>2, <1>7, <2>1, OriginalStays, FollowUpStays, AheadStays
  <2>3. /\ O(r) \notin OnWay' /\ O(r) \notin Awaited' /\ O(r) \notin written'
        /\ F(r) \notin OnWay' /\ F(r) \notin Awaited' /\ F(r) \notin written'
    BY <1>5, <2>1, Standing DEF Untouched
  <2>4. OriginalAt(r)' = "gone"
    BY <1>3, <1>7, <2>3 DEF OriginalAt, Whereabouts, O, OnWay
  <2>5. ~ InHand(r, "send")' /\ ~ Ahead(r)'
    BY <1>2, <1>5, <1>7, AheadStays DEF Ahead
  <2>6. FollowUpAt(r)' = "gone"
    BY <1>3, <2>3, <2>5 DEF FollowUpAt, Whereabouts, F, OnWay
  <2> QED BY <1>4, <1>7, <2>2, <2>4, <2>6, PlaceMoves, PlaceIs
<1> QED BY <1>2, <1>6, <1>7

\* Only one message goes on, and nobody else takes part.
LEMMA PlaceOfOne ==
  ASSUME Typed, Places, InOrder, [Next]_vars, UNCHANGED <<sender, followUps, reader, answer>>,
         NEW m \in Message \cap Sent, \A n : n \notin {m, Plain} => Untouched(n)
  PROVE  LET at == <<m.reference, m.stage>>
         IN  /\ at \in RequestLog!Requests /\ Place[at] = Whereabouts(m)
             /\ Place' = [Place EXCEPT ![at] = Whereabouts(m)']
<1> DEFINE r == m.reference
<1>1. Shape
  BY TypedIs
<1>2. r \in References /\ m \in Message /\ m \in Sent
  BY <1>1, MessageParts DEF Shape
<1> HIDE DEF r
<1>3. \A q \in References : O(q) # Plain /\ F(q) # Plain /\ O(q) # F(q)
  BY MessagesDiffer
<1>5. O(r)' = O(r) /\ F(r)' = F(r)
  BY TemplateStays, MessagesStay
<1>6. ASSUME NEW q \in References \ {r} PROVE OriginalAt(q)' = OriginalAt(q) /\ FollowUpAt(q)' = FollowUpAt(q)
  <2>1. O(q) # m /\ F(q) # m
    BY <1>2, MessagesDiffer DEF r
  <2> QED BY <1>3, <2>1, OriginalStays, FollowUpStays, AheadStays
<1>7. CASE m = O(r)
  <2>1. OriginalAt(r) = Whereabouts(m) /\ sender[r] = "queued"
    BY <1>2, <1>7, Standing DEF InOrder
  <2>2. OriginalAt(r)' = Whereabouts(m)'
    BY <1>5, <1>7, <2>1 DEF OriginalAt, O, Whereabouts
  <2>3. FollowUpAt(r)' = FollowUpAt(r)
    BY <1>2, <1>3, <1>7, FollowUpStays, AheadStays
  <2>4. m.stage = "original"
    BY <1>2, <1>7, MessagesDiffer
  <2> QED BY <1>2, <1>6, <2>1, <2>2, <2>3, <2>4, PlaceMoves, PlaceIs DEF r
<1>8. CASE m = F(r)
  <2>1. FollowUpAt(r) = Whereabouts(m) /\ sender[r] = "queued" /\ r \notin followUps
        /\ ~ InHand(r, "log") /\ ~ InHand(r, "send")
    BY <1>2, <1>8, Standing
  <2>2. ~ InHand(r, "send")' /\ ~ Ahead(r)'
    BY <1>2, <2>1, AheadStays DEF Ahead
  <2>3. FollowUpAt(r)' = Whereabouts(m)'
    BY <1>5, <1>8, <2>2 DEF FollowUpAt, F, Whereabouts
  <2>4. OriginalAt(r)' = OriginalAt(r)
    BY <1>2, <1>3, <1>8, OriginalStays
  <2>5. m.stage = "followUp"
    BY <1>2, <1>8, MessagesDiffer
  <2> QED BY <1>2, <1>6, <2>1, <2>3, <2>4, <2>5, PlaceMoves, PlaceIs DEF r
<1> QED BY <1>1, <1>2, <1>7, <1>8, MessageParts DEF r, Shape

\* Where nobody goes on.
LEMMA PlaceStays ==
  ASSUME [Next]_vars, UNCHANGED <<sender, followUps>>,
         \A r \in References : Untouched(O(r)) /\ Untouched(F(r)),
         \A r \in References : (InHand(r, "log")' <=> InHand(r, "log")) /\ (InHand(r, "send")' <=> InHand(r, "send"))
  PROVE  Place' = Place
<1>1. ASSUME NEW r \in References PROVE OriginalAt(r)' = OriginalAt(r) /\ FollowUpAt(r)' = FollowUpAt(r)
  BY OriginalStays, FollowUpStays, AheadStays
<1>2. CASE References = {}
  BY <1>2 DEF Place
<1>3. CASE References # {}
  BY <1>1, <1>3, PlaceMoves
<1> QED BY <1>2, <1>3

\* HandleChannelEvents
LEMMA PlaceWriter ==
  ASSUME Typed, Places, InOrder, Entered, [Next]_vars
  PROVE  /\ Take \/ WriterStops => Place' = Place
         /\ Write => \/ Place' = Place
                     \/ \E m \in RequestLog!Requests : Place[m] = "due" /\ Place' = [Place EXCEPT ![m] = "sent"]
         /\ WriteFails => \/ Place' = Place
                          \/ \E m \in RequestLog!Requests : Place[m] = "due" /\ Place' = [Place EXCEPT ![m] = "gone"]
<1>1. Shape
  BY TypedIs
<1>2. Writer => UNCHANGED <<sender, followUps, reader, answer>>
  BY DEF Writer, Take, Write, WriteFails, WriterStops, senderVars, readerVars
<1>3. UNCHANGED <<reader, answer>> =>
        \A r \in References : (InHand(r, "log")' <=> InHand(r, "log")) /\ (InHand(r, "send")' <=> InHand(r, "send"))
  BY AheadStays
<1>4. \A r \in References : O(r) # Plain /\ F(r) # Plain
  BY MessagesDiffer
<1>5. ASSUME Take \/ WriterStops PROVE Place' = Place
  <2>1. \A m : Untouched(m)
    <3>1. CASE Take
      <4>1. Queued = Queued' \cup {Head(queue)}
        BY <1>1, <3>1, QueueShrinks DEF Take, Shape
      <4>2. BeingWritten = {} /\ BeingWritten' = {Head(queue)} /\ written' = written
        BY <3>1 DEF Take, BeingWritten
      <4>3. Awaited' = Awaited
        BY <3>1, AwaitedSteps
      <4> QED BY <4>1, <4>2, <4>3 DEF Untouched, OnWay
    <3>2. CASE WriterStops
      <4>1. UNCHANGED <<queue, written, inFlight, reader, answer>> /\ BeingWritten = {} /\ BeingWritten' = {}
        BY <3>2 DEF WriterStops, BeingWritten, readerVars
      <4>2. Queued' = Queued /\ BeingAnswered' = BeingAnswered
        BY <4>1, ChannelStays DEF BeingAnswered
      <4> QED BY <4>1, <4>2 DEF Untouched, OnWay, Awaited
    <3> QED BY <1>5, <3>1, <3>2
  <2> QED BY <1>2, <1>3, <1>5, <2>1, PlaceStays DEF Writer
<1>6. ASSUME Write \/ WriteFails
      PROVE  /\ BeingWritten = {out} /\ BeingWritten' = {} /\ Queued' = Queued /\ BeingAnswered' = BeingAnswered
             /\ out # Plain => out \in Message /\ out \in Sent /\ out \notin written /\ out \notin Queued
  <2>1. /\ BeingWritten = {out} /\ BeingWritten' = {} /\ Queued' = Queued /\ BeingAnswered' = BeingAnswered
        /\ writer = "write"
    BY <1>6, ChannelStays DEF Write, WriteFails, BeingWritten, BeingAnswered, readerVars
  <2> QED BY <1>1, <2>1 DEF Shape, Sent, Places
<1>7. ASSUME Write
      PROVE  \/ Place' = Place
             \/ \E m \in RequestLog!Requests : Place[m] = "due" /\ Place' = [Place EXCEPT ![m] = "sent"]
  <2>1. Awaited' = Awaited
    BY <1>7, AwaitedSteps
  <2>2. CASE out = Plain
    <3>1. \A m : m # Plain => Untouched(m)
      BY <1>6, <1>7, <2>1, <2>2 DEF Write, Untouched, OnWay
    <3> QED BY <1>2, <1>3, <1>4, <1>7, <3>1, PlaceStays DEF Writer
  <2>3. CASE out # Plain
    <3>1. \A m : m \notin {out, Plain} => Untouched(m)
      BY <1>6, <1>7, <2>1 DEF Write, Untouched, OnWay
    <3>2. out \in Awaited
      BY <1>6, <1>7, <2>3 DEF Awaited
    <3>3. Whereabouts(out) = "due"
      BY <1>6, <1>7 DEF Whereabouts
    <3>4. out' = out
      BY <1>7 DEF Write
    <3>5. Whereabouts(out)' = "sent"
      BY <1>6, <1>7, <2>1, <2>3, <3>2, <3>4 DEF Whereabouts
    <3>6. out \in Message \cap Sent
      BY <1>6, <1>7, <2>3
    <3> QED BY <1>2, <1>7, <3>1, <3>3, <3>4, <3>5, <3>6, PlaceOfOne DEF Writer
  <2> QED BY <2>2, <2>3
<1>8. ASSUME WriteFails
      PROVE  \/ Place' = Place
             \/ \E m \in RequestLog!Requests : Place[m] = "due" /\ Place' = [Place EXCEPT ![m] = "gone"]
  <2>1. UNCHANGED <<written, inFlight, out>>
    BY <1>8 DEF WriteFails
  <2>2. \A m : m \notin {out, Plain} => Untouched(m)
    BY <1>6, <1>8, <2>1 DEF Untouched, OnWay, Awaited
  <2>3. CASE out = Plain
    BY <1>2, <1>3, <1>4, <1>8, <2>2, <2>3, PlaceStays DEF Writer
  <2>4. CASE out # Plain
    <3>1. Whereabouts(out) = "due"
      BY <1>6, <1>8 DEF Whereabouts
    <3>2. out \notin inFlight /\ out \notin BeingAnswered
      BY <1>1, <1>6, <1>8, <2>4 DEF Shape, BeingAnswered, Active
    <3>3. Whereabouts(out)' = "gone"
      BY <1>6, <1>8, <2>1, <2>4, <3>2 DEF Whereabouts, Awaited
    <3>4. out \in Message \cap Sent
      BY <1>6, <1>8, <2>4
    <3> QED BY <1>2, <1>8, <2>1, <2>2, <3>1, <3>3, <3>4, PlaceOfOne DEF Writer
  <2> QED BY <2>3, <2>4
<1> QED BY <1>5, <1>7, <1>8

\* HandleRead, as far as the answer
LEMMA PlaceAnswer ==
  ASSUME Typed, Places, InOrder, Entered, [Next]_vars
  PROVE  /\ \A m \in inFlight : ReadResponse(m) => Place' = Place
         /\ RecordAnswer =>
              LET at == <<answer.reference, answer.stage>>
              IN  /\ at \in RequestLog!Requests /\ Place[at] = "sent"
                  /\ Place' = [Place EXCEPT ![at] = "answered"]
         /\ TakeFollowUp => Place' = Place
<1>1. Shape
  BY TypedIs
<1>2. ASSUME NEW m \in inFlight, ReadResponse(m) PROVE Place' = Place
  <2>1. Awaited' = Awaited /\ reader = "read" /\ reader' = "update"
    BY <1>2, AwaitedSteps, ResponseMatched
  <2>2. UNCHANGED <<sender, followUps, queue, writer, out, written>>
    BY <1>2 DEF ReadResponse, senderVars, writerVars
  <2>3. \A x : Untouched(x)
    BY <2>1, <2>2, NothingMoves
  <2> QED BY <2>1, <2>2, <2>3, PlaceStays DEF InHand
<1>3. ASSUME RecordAnswer
      PROVE  LET at == <<answer.reference, answer.stage>>
             IN  /\ at \in RequestLog!Requests /\ Place[at] = "sent"
                 /\ Place' = [Place EXCEPT ![at] = "answered"]
  <2>1. /\ reader = "update" /\ reader' = "followUp"
        /\ UNCHANGED <<sender, followUps, answer, queue, writer, out, written, inFlight>>
    BY <1>3 DEF RecordAnswer, senderVars, writerVars
  <2>2. answer \in written /\ answer \in Message /\ answer \in Sent /\ answer # Plain
    BY <1>1, <2>1, Apart DEF Active, Shape, Sent
  <2>3. answer \notin OnWay
    BY <2>2 DEF OnWay, Places
  <2>4. answer \in Awaited
    BY <2>1, <2>2 DEF Awaited, BeingAnswered
  <2>5. OnWay' = OnWay
    BY <2>1, ChannelStays DEF OnWay
  <2>6. Awaited' = Awaited \ {answer}
    BY <1>3, AwaitedSteps
  <2>7. Whereabouts(answer) = "sent"
    BY <2>3, <2>4 DEF Whereabouts, OnWay
  <2>8. Whereabouts(answer)' = "answered"
    BY <2>1, <2>2, <2>3, <2>5, <2>6 DEF Whereabouts, OnWay
  <2>9. PICK r \in References : r = answer.reference /\ (answer = O(r) \/ answer = F(r))
    BY <1>1, <2>2, Apart
  <2>10. \A m : m # answer => Untouched(m)
    BY <2>1, <2>5, <2>6 DEF Untouched
  <2>11. \A q : ~ InHand(q, "log") /\ ~ InHand(q, "log")' /\ ~ InHand(q, "send") /\ ~ InHand(q, "send")'
    BY <2>1 DEF InHand
  <2>12. ASSUME NEW q \in References \ {r}
         PROVE  OriginalAt(q)' = OriginalAt(q) /\ FollowUpAt(q)' = FollowUpAt(q)
    <3>1. O(q) # answer /\ F(q) # answer
      BY <2>9, MessagesDiffer
    <3>2. (Ahead(q)' <=> Ahead(q)) /\ sender'[q] = sender[q]
      BY <2>1, <2>11, AheadStays
    <3> QED BY <2>10, <2>11, <3>1, <3>2, OriginalStays, FollowUpStays
  <2>13. O(r)' = O(r) /\ F(r)' = F(r) /\ O(r) # F(r)
    BY <2>9, TemplateStays, MessagesStay, MessagesDiffer
  <2>14. CASE answer = O(r)
    <3>1. answer.stage = "original"
      BY <2>9, <2>14, MessagesDiffer
    <3>2. OriginalAt(r) = "sent" /\ sender[r] = "queued"
      BY <2>2, <2>7, <2>9, <2>14, Standing DEF InOrder
    <3>3. OriginalAt(r)' = "answered"
      BY <2>1, <2>8, <2>13, <2>14, <3>2 DEF OriginalAt, O
    <3>4. FollowUpAt(r)' = FollowUpAt(r)
      <4>1. Ahead(r)' <=> Ahead(r)
        BY <2>1, <2>9, <2>11, AheadStays
      <4> QED BY <2>9, <2>10, <2>11, <2>13, <2>14, <4>1, FollowUpStays
    <3> QED BY <2>9, <2>12, <3>1, <3>2, <3>3, <3>4, PlaceMoves, PlaceIs
  <2>15. CASE answer = F(r)
    <3>1. answer.stage = "followUp"
      BY <2>9, <2>15, MessagesDiffer
    <3>2. FollowUpAt(r) = "sent" /\ sender[r] = "queued" /\ r \notin followUps
      BY <2>2, <2>7, <2>9, <2>15, Standing
    <3>3. FollowUpAt(r)' = "answered"
      <4>1. ~ Ahead(r)'
        BY <2>1, <2>11, <3>2 DEF Ahead
      <4> QED BY <2>1, <2>8, <2>11, <2>13, <2>15, <4>1 DEF FollowUpAt, F
    <3>4. OriginalAt(r)' = OriginalAt(r)
      BY <2>1, <2>9, <2>10, <2>13, <2>15, OriginalStays
    <3> QED BY <2>9, <2>12, <3>1, <3>2, <3>3, <3>4, PlaceMoves, PlaceIs
  <2> QED BY <2>9, <2>14, <2>15
<1>4. ASSUME TakeFollowUp PROVE Place' = Place
  <2> DEFINE r == answer.reference
  <2>1. /\ reader = "followUp" /\ reader' = (IF r \in followUps THEN "log" ELSE "read")
        /\ followUps' = followUps \ {r}
        /\ UNCHANGED <<sender, answer, queue, writer, out, written>>
    BY <1>4 DEF TakeFollowUp, Forget, senderVars, writerVars
  <2>2. answer \in Sent /\ answer \in Message
    BY <1>1, <2>1 DEF Active, Shape, Sent
  <2>3. r \in References /\ sender[r] = "queued"
    <3>1. r \in References /\ (answer = O(r) \/ answer = F(r))
      BY <1>1, <2>2, Apart
    <3>2. answer = O(r) => sender[r] = "queued"
      BY <2>2, <3>1 DEF InOrder
    <3>3. answer = F(r) => sender[r] = "queued"
      BY <2>2, <3>1, Standing
    <3> QED BY <3>1, <3>2, <3>3
  <2>4. \A x : Untouched(x)
    BY <1>4, <2>1, AwaitedSteps, NothingMoves
  <2>5. ~ \E q : InHand(q, "send") \/ InHand(q, "send")' \/ InHand(q, "log")
    BY <2>1 DEF InHand
  <2>6. \A q : InHand(q, "log")' <=> q = r /\ r \in followUps
    BY <2>1 DEF InHand
  <2>7. ASSUME NEW q \in References PROVE Ahead(q)' <=> Ahead(q)
    <3>1. NoFollowUp(q)' <=> NoFollowUp(q)
      BY TemplateStays, MessagesStay
    <3>2. q \in followUps' <=> q \in followUps /\ q # r
      BY <2>1
    <3> HIDE DEF r
    <3> QED BY <2>1, <2>5, <2>6, <3>1, <3>2 DEF Ahead
  <2>8. ASSUME NEW q \in References PROVE OriginalAt(q)' = OriginalAt(q) /\ FollowUpAt(q)' = FollowUpAt(q)
    BY <2>1, <2>4, <2>5, <2>7, OriginalStays, FollowUpStays
  <2> QED BY <2>3, <2>8, PlaceMoves
<1> QED BY <1>2, <1>3, <1>4

\* sendFollowUp
LEMMA PlaceFollowUp ==
  ASSUME Typed, Places, InOrder, Entered, [Next]_vars, NEW r \in References, answer.reference = r
  PROVE  /\ LogFollowUp =>
              /\ Place[<<r, "followUp">>] = "new" /\ Place[<<r, "original">>] = "answered"
              /\ reader' = "send" => Place' = [Place EXCEPT ![<<r, "followUp">>] = "due"]
              /\ reader' = "read" => RequestLog!GiveUp(<<r, "followUp">>)
         /\ QueueFollowUp =>
              /\ Place[<<r, "followUp">>] = "due"
              /\ queue' # queue => Place' = Place
              /\ queue' = queue => RequestLog!GiveUp(<<r, "followUp">>)
<1>1. Shape
  BY TypedIs
<1>2. O(r)' = O(r) /\ F(r)' = F(r) /\ O(r) # F(r) /\ F(r) # Plain
  BY TemplateStays, MessagesStay, MessagesDiffer
<1>3. /\ LogFollowUp \/ QueueFollowUp => UNCHANGED <<sender, followUps, answer, writer, out, written, inFlight>>
      /\ LogFollowUp => reader = "log" /\ reader' \in {"send", "read"} /\ UNCHANGED queue
      /\ QueueFollowUp => reader = "send" /\ reader' = "read"
  BY DEF LogFollowUp, QueueFollowUp, senderVars, writerVars
<1>4. ASSUME LogFollowUp \/ QueueFollowUp
      PROVE  /\ answer = O(r) /\ sender[r] = "queued" /\ r \notin followUps /\ F(r) \notin Sent
             /\ O(r) \in written /\ O(r) \notin OnWay /\ O(r) \notin Awaited
  BY <1>3, <1>4, Standing DEF InHand
<1>5. \A q \in References \ {r} : \A stage : ~ InHand(q, stage)
  BY DEF InHand
<1>6. LogFollowUp \/ QueueFollowUp => \A q \in References \ {r} : \A stage : ~ InHand(q, stage)'
  BY <1>3 DEF InHand
<1>7. ASSUME LogFollowUp \/ QueueFollowUp, \A n : n # F(r) => Untouched(n),
             NEW q \in References \ {r}
      PROVE  OriginalAt(q)' = OriginalAt(q) /\ FollowUpAt(q)' = FollowUpAt(q)
  <2>1. O(q) # F(r) /\ F(q) # F(r)
    BY MessagesDiffer
  <2>2. Ahead(q)' <=> Ahead(q)
    BY <1>3, <1>5, <1>6, <1>7, AheadStays
  <2> QED BY <1>3, <1>5, <1>6, <1>7, <2>1, <2>2, OriginalStays, FollowUpStays
<1>8. ASSUME LogFollowUp \/ QueueFollowUp, \A n : n # F(r) => Untouched(n) PROVE OriginalAt(r)' = OriginalAt(r)
  BY <1>2, <1>3, <1>8, OriginalStays
<1>9. ASSUME LogFollowUp \/ QueueFollowUp, ~ InHand(r, "send")', ~ InHand(r, "log")'
      PROVE  FollowUpAt(r)' = Whereabouts(F(r))'
  <2>1. ~ Ahead(r)'
    BY <1>3, <1>4, <1>9 DEF Ahead
  <2> QED BY <1>9, <2>1 DEF FollowUpAt, F
<1>10. ASSUME LogFollowUp
       PROVE  /\ Place[<<r, "followUp">>] = "new" /\ Place[<<r, "original">>] = "answered"
              /\ reader' = "send" => Place' = [Place EXCEPT ![<<r, "followUp">>] = "due"]
              /\ reader' = "read" => RequestLog!GiveUp(<<r, "followUp">>)
  <2>1. \A n : Untouched(n)
    BY <1>3, <1>10, AwaitedSteps, NothingMoves
  <2>2. FollowUpAt(r) = "new"
    BY <1>3, <1>10 DEF FollowUpAt, Ahead, InHand
  <2>3. OriginalAt(r) = "answered"
    BY <1>4, <1>10 DEF OriginalAt, O, Whereabouts, OnWay
  <2>4. ASSUME reader' = "send" PROVE Place' = [Place EXCEPT ![<<r, "followUp">>] = "due"]
    <3>1. FollowUpAt(r)' = "due"
      BY <1>3, <1>10, <2>4 DEF FollowUpAt, InHand
    <3> QED BY <1>7, <1>8, <1>10, <2>1, <3>1, PlaceMoves
  <2>5. ASSUME reader' = "read" PROVE RequestLog!GiveUp(<<r, "followUp">>)
    <3>1. ~ InHand(r, "send")' /\ ~ InHand(r, "log")'
      BY <2>5 DEF InHand
    <3>2. F(r) \notin OnWay' /\ F(r) \notin Awaited' /\ F(r) \notin written'
      BY <1>4, <1>10, <2>1, Standing DEF Untouched
    <3>3. FollowUpAt(r)' = "gone"
      BY <1>2, <1>9, <1>10, <3>1, <3>2 DEF Whereabouts, OnWay
    <3> QED BY <1>7, <1>8, <1>10, <2>1, <3>3, PlaceMoves
  <2> QED BY <2>2, <2>3, <2>4, <2>5, PlaceIs
<1>11. ASSUME QueueFollowUp
       PROVE  /\ Place[<<r, "followUp">>] = "due"
              /\ queue' # queue => Place' = Place
              /\ queue' = queue => RequestLog!GiveUp(<<r, "followUp">>)
  <2>1. FollowUpAt(r) = "due"
    BY <1>3, <1>11 DEF FollowUpAt, InHand
  <2>2. ~ InHand(r, "send")' /\ ~ InHand(r, "log")'
    BY <1>3, <1>11 DEF InHand
  <2>3. F(r) \in Message
    BY <1>1, <1>3, <1>11 DEF Shape, Message
  <2>4. ASSUME queue' # queue PROVE Place' = Place
    <3>1. Awaited' = Awaited \cup {F(r)}
      BY <1>11, <2>4, AwaitedSteps
    <3>2. queue' = Append(queue, F(r))
      BY <1>11, <2>4 DEF QueueFollowUp, F
    <3>3. Queued' = Queued \cup {F(r)}
      BY <1>1, <2>3, <3>2, QueueGrows DEF Shape
    <3>4. OnWay' = OnWay \cup {F(r)}
      BY <1>3, <1>11, <3>3, ChannelStays DEF OnWay
    <3>5. \A n : n # F(r) => Untouched(n)
      BY <1>3, <1>11, <3>1, <3>4 DEF Untouched
    <3>6. FollowUpAt(r)' = "due"
      BY <1>2, <1>9, <1>11, <2>2, <3>4 DEF Whereabouts, OnWay
    <3> QED BY <1>7, <1>8, <1>11, <2>1, <3>5, <3>6, PlaceMoves
  <2>5. ASSUME queue' = queue PROVE RequestLog!GiveUp(<<r, "followUp">>)
    <3>1. Awaited' = Awaited
      <4>1. BeingAnswered = {} /\ BeingAnswered' = {}
        BY <1>3, <1>11 DEF BeingAnswered
      <4> QED BY <1>3, <1>11, <2>5, <4>1, ChannelStays DEF Awaited
    <3>2. \A n : Untouched(n)
      BY <1>3, <1>11, <2>5, <3>1, NothingMoves
    <3>3. F(r) \notin OnWay' /\ F(r) \notin Awaited' /\ F(r) \notin written'
      BY <1>4, <1>11, <3>2, Standing DEF Untouched
    <3>4. FollowUpAt(r)' = "gone"
      BY <1>2, <1>9, <1>11, <2>2, <3>3 DEF Whereabouts, OnWay
    <3> QED BY <1>7, <1>8, <1>11, <3>2, <3>4, PlaceMoves
  <2> QED BY <2>1, <2>4, <2>5, PlaceIs
<1> QED BY <1>10, <1>11

\* The other steps
LEMMA PlaceRest ==
  ASSUME Typed, Places, Entered, [Next]_vars,
         ReadFails \/ ReadRequest \/ Respond \/ SendMessage \/ Close \/ CloseDB \/ UNCHANGED vars
  PROVE  Place' = Place
<1>1. Shape
  BY TypedIs
<1>2. Awaited' = Awaited
  BY AwaitedSteps
<1>3. /\ UNCHANGED <<sender, followUps, answer, writer, out, written>>
      /\ reader' = reader \/ (reader = "read" /\ reader' = "stopped")
  BY DEF ReadFails, ReadRequest, Respond, SendMessage, Close, CloseDB, vars, senderVars, writerVars, readerVars
<1>4. Queued' \ {Plain} = Queued \ {Plain}
  <2>1. CASE Respond \/ SendMessage
    BY <1>1, <2>1, QueueGrows, ChannelStays DEF Respond, SendMessage, QueuePlain, Shape
  <2>2. CASE ReadFails \/ ReadRequest \/ Close \/ CloseDB \/ UNCHANGED vars
    BY <2>2, ChannelStays DEF ReadFails, ReadRequest, Close, CloseDB, vars
  <2> QED BY <2>1, <2>2
<1>5. \A m : m # Plain => Untouched(m)
  BY <1>2, <1>3, <1>4, ChannelStays DEF Untouched, OnWay
<1>6. \A r : (InHand(r, "log")' <=> InHand(r, "log")) /\ (InHand(r, "send")' <=> InHand(r, "send"))
  BY <1>3 DEF InHand
<1> QED BY <1>3, <1>5, <1>6, PlaceStays, MessagesDiffer

\* Its rows say of a request what they did.
LEMMA StatusStays ==
  ASSUME NEW r, NEW stage,
         \A row : row.reference = r /\ row.stage = stage => (row \in log' <=> row \in log)
  PROVE  Status(r, stage)' = Status(r, stage)
<1>1. RowsOf(r, stage)' = RowsOf(r, stage)
  BY DEF RowsOf
<1> QED BY <1>1 DEF Status

LEMMA StatusTyped == RowStatus \in [RequestLog!Requests -> {"none", "pending", "answered"}]
<1>1. \A r, stage : Status(r, stage) \in {"none", "pending", "answered"}
  BY DEF Status
<1> QED BY <1>1 DEF RowStatus, RequestLog!Requests, Stages

LEMMA StatusSame == log' = log => RowStatus' = RowStatus
<1>1. log' = log => \A r, stage : Status(r, stage)' = Status(r, stage)
  BY StatusStays
<1> QED BY <1>1 DEF RowStatus

\* A statement's effect on all rows, from what it does to those of each request.
LEMMA StatementIs ==
  ASSUME NEW r \in References, NEW stage \in Stages, NEW status,
         Reliable' =>
           /\ Reliable /\ Status(r, stage)' = status
           /\ \A q \in References, s \in Stages : q # r \/ s # stage => Status(q, s)' = Status(q, s),
         ~ Reliable' =>
           \A q \in References, s \in Stages : q # r \/ Status(q, s) = "answered" => Status(q, s)' = Status(q, s)
  PROVE  RequestLog!Statement(<<r, stage>>, status)
<1> DEFINE R == References \X Stages
           St(m) == Status(m[1], m[2])
<1>1. R = RequestLog!Requests
  BY DEF RequestLog!Requests, Stages
<1>2. RowStatus = [m \in R |-> St(m)] /\ RowStatus' = [m \in R |-> St(m)']
  BY DEF RowStatus
<1>3. <<r, stage>> \in R /\ <<r, stage>>[1] = r
  OBVIOUS
<1>4. \A m \in R : m = <<r, stage>> \/ m[1] # r \/ m[2] # stage
  OBVIOUS
<1>5. CASE Reliable'
  <2>1. St(<<r, stage>>)' = status
    BY <1>5
  <2>2. ASSUME NEW m \in R, m # <<r, stage>> PROVE St(m)' = St(m)
    BY <1>4, <1>5, <2>2
  <2> HIDE DEF R, St
  <2>3. RowStatus' = [RowStatus EXCEPT ![<<r, stage>>] = status]
    BY <1>2, <1>3, <2>1, <2>2
  <2> QED BY <1>5, <2>3 DEF RequestLog!Statement, Reliable
<1>6. CASE ~ Reliable'
  <2>1. ASSUME NEW m \in R, m[1] # r \/ St(m) = "answered" PROVE St(m)' = St(m)
    BY <1>6, <2>1
  <2>2. RowStatus' \in [R -> {"none", "pending", "answered"}]
    <3>1. (RowStatus \in [RequestLog!Requests -> {"none", "pending", "answered"}])'
      BY StatusTyped, PTL
    <3> QED BY <1>1, <3>1 DEF RequestLog!Requests
  <2> HIDE DEF R, St
  <2>3. \A n \in R : n[1] # r \/ RowStatus[n] = "answered" => RowStatus'[n] = RowStatus[n]
    BY <1>2, <2>1
  <2> QED BY <1>1, <1>3, <1>6, <2>2, <2>3 DEF RequestLog!Statement
<1> QED BY <1>5, <1>6

\* A request's row is added where it had none.
LEMMA StatusLogged ==
  ASSUME Typed, UNCHANGED dbOpen, NEW r \in References, NEW stage \in Stages,
         RowsOf(r, stage) = {}, AddRequestLog(Request(r, stage))
  PROVE  RequestLog!Statement(<<r, stage>>, "pending")
<1> DEFINE m == Request(r, stage)
<1>1. Row(m).reference = r /\ Row(m).stage = stage /\ Row(m).answeredBy = "none"
  BY DEF Row, Request
<1>2. log' \in {log, log \cup {Row(m)}} /\ (Reliable' => Reliable /\ log' = log \cup {Row(m)})
  <2>1. log' \in {log, log \cup {Row(m)}}
    BY DEF AddRequestLog, Accepted
  <2> QED BY <2>1, RowsChange
<1> HIDE DEF m
<1>3. ASSUME NEW q \in References, NEW s \in Stages, q # r \/ s # stage PROVE Status(q, s)' = Status(q, s)
  BY <1>1, <1>2, <1>3, StatusStays
<1>4. Status(r, stage) = "none"
  BY DEF Status
<1>5. ASSUME Reliable' PROVE Status(r, stage)' = "pending"
  <2>1. Row(m) \in RowsOf(r, stage)'
    BY <1>1, <1>2, <1>5 DEF RowsOf
  <2> QED BY <1>1, <2>1 DEF Status
<1>6. Reliable' => Reliable
  BY <1>2
<1> QED BY <1>3, <1>4, <1>5, <1>6, StatementIs

\* The row of a request that has not been answered is deleted.
LEMMA StatusDropped ==
  ASSUME Typed, UNCHANGED dbOpen, RowsKnown, Rowed, AnsweredRows, NEW r \in References, NEW stage \in Stages,
         Request(r, stage) \in Due, Request(r, stage) \notin written,
         DeleteRequestLog(Request(r, stage)) \/ Refused
  PROVE  RequestLog!Statement(<<r, stage>>, "none")
<1> DEFINE m == Request(r, stage)
           old == Unanswered(m.reference, m.mti)
<1>1. m.reference = r /\ m.stage = stage /\ m.mti = MtiOf(r, stage)
  BY DEF Request
<1>2. log' \in {log, log \ old} /\ (Reliable' => Reliable /\ log' = log \ old)
  <2>1. CASE Refused
    BY <2>1, RowsChange
  <2>2. CASE DeleteRequestLog(m)
    <3>1. log' \in {log, log \ old}
      BY <2>2 DEF DeleteRequestLog, Accepted
    <3> QED BY <2>2, <3>1, RowsChange
  <2> QED BY <2>1, <2>2
<1>3. \A row \in old : row \in log /\ row.reference = r /\ row.answeredBy = "none"
  BY <1>1 DEF Unanswered
<1>4. ASSUME NEW row \in RowsOf(r, stage) PROVE row \in old
  <2>1. row \in log /\ row.reference = r /\ row.stage = stage /\ row.mti = MtiOf(r, stage)
    BY DEF RowsOf, RowsKnown
  <2>2. row.answeredBy = "none"
    BY <2>1 DEF AnsweredRows
  <2> QED BY <1>1, <2>1, <2>2 DEF Unanswered
<1>5. Reliable => old = {Row(m)}
  BY DEF Rowed
<1>6. Row(m).reference = r /\ Row(m).stage = stage
  BY <1>1 DEF Row
<1> HIDE DEF m, old
<1>7. ASSUME Reliable', NEW q \in References, NEW s \in Stages, q # r \/ s # stage
      PROVE  Status(q, s)' = Status(q, s)
  BY <1>2, <1>5, <1>6, <1>7, StatusStays
<1>8. ASSUME Reliable' PROVE Status(r, stage)' = "none"
  <2>1. RowsOf(r, stage)' = {}
    BY <1>2, <1>4, <1>8 DEF RowsOf
  <2> QED BY <2>1 DEF Status
<1>9. ASSUME NEW q \in References, NEW s \in Stages, q # r \/ Status(q, s) = "answered"
      PROVE  Status(q, s)' = Status(q, s)
  <2>1. \A row \in log : row.reference = q /\ row.stage = s => row \notin old
    <3>1. CASE q # r
      BY <1>3, <3>1
    <3>2. CASE Status(q, s) = "answered"
      BY <1>3, <3>2 DEF Status, RowsOf
    <3> QED BY <1>9, <3>1, <3>2
  <2> QED BY <1>2, <2>1, StatusStays
<1> QED BY <1>2, <1>7, <1>8, <1>9, StatementIs

\* The row of a request is answered.
LEMMA StatusAnswered ==
  ASSUME Typed, UNCHANGED dbOpen, RowsKnown, Rowed, NEW r \in References, NEW stage \in Stages,
         Request(r, stage) \in Due,
         UpdateResponseTime(r, MtiOf(r, stage), stage) \/ Refused
  PROVE  RequestLog!Statement(<<r, stage>>, "answered")
<1> DEFINE m == Request(r, stage)
           old == Unanswered(r, m.mti)
           settled(row) == [row EXCEPT !.answeredBy = stage]
           new == (log \ old) \cup {settled(row) : row \in old}
<1>1. m.reference = r /\ m.stage = stage /\ m.mti = MtiOf(r, stage)
  BY DEF Request
<1>2. log' \in {log, new} /\ (Reliable' => Reliable /\ log' = new)
  <2>1. CASE Refused
    BY <2>1, RowsChange
  <2>2. CASE UpdateResponseTime(r, m.mti, stage)
    BY <2>2, RowsChange
  <2> QED BY <1>1, <2>1, <2>2
<1>3. \A row \in old : row \in log /\ row.reference = r /\ row.answeredBy = "none"
  BY DEF Unanswered
<1>4. ASSUME NEW row \in old
      PROVE  /\ settled(row).reference = r /\ settled(row).stage = row.stage
             /\ settled(row).answeredBy = stage /\ stage # "none"
  <2>1. row \in Rows
    BY <1>3, TypedIs DEF DbTyped
  <2> QED BY <1>3, <2>1 DEF Rows, Stages
<1>5. Reliable => old = {Row(m)}
  BY <1>1 DEF Rowed
<1>6. Row(m).reference = r /\ Row(m).stage = stage
  BY <1>1 DEF Row
<1>7. ASSUME NEW row \in RowsOf(r, stage), row.answeredBy = "none" PROVE row \in old
  BY <1>1, <1>7 DEF RowsOf, RowsKnown, Unanswered
<1> HIDE DEF m, old, settled
<1>8. ASSUME Reliable', NEW q \in References, NEW s \in Stages, q # r \/ s # stage
      PROVE  Status(q, s)' = Status(q, s)
  <2>1. \A row : row.reference = q /\ row.stage = s => (row \in log' <=> row \in log)
    BY <1>2, <1>4, <1>5, <1>6, <1>8
  <2> QED BY <2>1, StatusStays
<1>9. ASSUME Reliable' PROVE Status(r, stage)' = "answered"
  <2>1. Row(m) \in old /\ log' = new
    BY <1>2, <1>5, <1>9
  <2>2. settled(Row(m)) \in RowsOf(r, stage)'
    BY <1>4, <1>6, <2>1 DEF RowsOf
  <2>3. ASSUME NEW row \in RowsOf(r, stage)' PROVE row.answeredBy # "none"
    <3>1. row \in log' /\ row.reference = r /\ row.stage = stage
      BY DEF RowsOf
    <3>2. CASE row \in log \ old
      BY <1>7, <3>1, <3>2 DEF RowsOf
    <3>3. CASE \E x \in old : row = settled(x)
      BY <1>4, <3>3
    <3> QED BY <2>1, <3>1, <3>2, <3>3
  <2> QED BY <2>2, <2>3 DEF Status
<1>10. ASSUME NEW q \in References, NEW s \in Stages, q # r \/ Status(q, s) = "answered"
       PROVE  Status(q, s)' = Status(q, s)
  <2>1. CASE q # r
    <3>1. \A row : row.reference = q /\ row.stage = s => (row \in log' <=> row \in log)
      BY <1>2, <1>3, <1>4, <2>1
    <3> QED BY <3>1, StatusStays
  <2>2. CASE q = r /\ Status(r, s) = "answered"
    <3>1. \A row \in RowsOf(r, s) : row.answeredBy # "none"
      BY <2>2 DEF Status
    <3>2. \A x \in old : x.stage # s
      BY <1>3, <3>1 DEF RowsOf
    <3>3. \A row : row.reference = r /\ row.stage = s => (row \in log' <=> row \in log)
      BY <1>2, <1>4, <3>2
    <3> QED BY <2>2, <3>3, StatusStays
  <2> QED BY <1>10, <2>1, <2>2
<1> QED BY <1>2, <1>8, <1>9, <1>10, StatementIs

\* A step that shows on no request: nothing, or that the connection is closed, or that a
\* statement has been lost.
LEMMA QuietStep ==
  ASSUME Place' = Place, RowStatus' = RowStatus, Reliable' => Reliable,
         \/ UNCHANGED closed
         \/ closed' = TRUE /\ UNCHANGED dbVars /\ UNCHANGED dbOpen
  PROVE  [RequestLog!Next]_(RequestLog!vars)
<1>1. CASE UNCHANGED closed /\ Reliable' = Reliable
  BY <1>1 DEF RequestLog!vars
<1>2. CASE UNCHANGED closed /\ Reliable' # Reliable
  <2>1. Reliable' = FALSE
    BY <1>2 DEF Reliable
  <2> QED BY <1>2, <2>1 DEF RequestLog!Next, RequestLog!Lose
<1>3. CASE closed' = TRUE /\ UNCHANGED dbVars /\ UNCHANGED dbOpen
  <2>1. Reliable' = Reliable
    BY <1>3 DEF Reliable, dbVars
  <2> QED BY <1>3, <2>1 DEF RequestLog!Next, RequestLog!Close
<1> QED BY <1>1, <1>2, <1>3

LEMMA LogSender ==
  ASSUME LogInv, [Next]_vars, NEW r \in References, Send(r)
  PROVE  [RequestLog!Next]_(RequestLog!vars)
<1>1. Typed /\ Places /\ InOrder /\ Entered /\ RowsKnown /\ Rowed /\ AnsweredRows /\ Shape
  BY TypedIs DEF LogInv, IInv
<1>2. UNCHANGED dbOpen /\ UNCHANGED closed
  BY DEF Send, Register, LogRequest, QueueRequest
<1> DEFINE at == <<r, "original">>
<1>3. at \in RequestLog!Requests /\ RequestLog!Original(at) = at
  BY PlaceIs
<1>4. CASE Register(r)
  <2>1. Place' = Place
    BY <1>1, <1>4, PlaceRegister
  <2>2. log' = log /\ (Reliable' => Reliable)
    BY <1>1, <1>2, <1>4, RowsChange DEF Register
  <2> QED BY <1>2, <2>1, <2>2, StatusSame, QuietStep
<1>5. CASE LogRequest(r)
  <2>1. Place[at] = "new"
    BY <1>1, <1>5, PlaceLogRequest
  <2>2. CASE sender'[r] = "queue" /\ AddRequestLog(O(r))
    <3>1. Place' = [Place EXCEPT ![at] = "due"]
      BY <1>1, <1>5, <2>2, PlaceLogRequest
    <3>2. RowsOf(r, "original") = {}
      BY <1>1, <1>5 DEF LogRequest, RowsOf, RowsKnown
    <3>3. RequestLog!Statement(at, "pending")
      BY <1>1, <1>2, <2>2, <3>2, StatusLogged DEF O, Stages
    <3>4. RequestLog!Log(at)
      BY <1>2, <1>3, <2>1, <3>1, <3>3 DEF RequestLog!Log
    <3> QED BY <1>3, <3>4 DEF RequestLog!Next
  <2>3. CASE sender'[r] = "refused" /\ Refused
    <3>1. RequestLog!GiveUp(at)
      BY <1>1, <1>5, <2>3, PlaceLogRequest
    <3>2. log' = log /\ Reliable' = Reliable /\ ~ Reliable
      BY <1>2, <2>3 DEF Refused, dbVars, Reliable
    <3>3. RequestLog!Refuse(at)
      BY <1>2, <2>1, <3>1, <3>2, StatusSame DEF RequestLog!Refuse
    <3> QED BY <1>3, <3>3 DEF RequestLog!Next
  <2> QED BY <1>1, <1>5, <2>2, <2>3 DEF LogRequest, Shape, O
<1>6. CASE QueueRequest(r)
  <2>1. Place[at] = "due"
    BY <1>1, <1>6, PlaceQueueRequest
  <2>2. CASE sender'[r] = "queued" /\ UNCHANGED dbVars
    <3>1. Place' = Place
      BY <1>1, <1>6, <2>2, PlaceQueueRequest
    <3>2. log' = log /\ (Reliable' => Reliable)
      BY <1>2, <2>2 DEF dbVars, Reliable
    <3> QED BY <1>2, <3>1, <3>2, StatusSame, QuietStep
  <2>3. CASE sender'[r] = "dropped" /\ (DeleteRequestLog(O(r)) \/ Refused)
    <3>1. RequestLog!GiveUp(at)
      BY <1>1, <1>6, <2>3, PlaceQueueRequest
    <3>2. O(r) \notin written /\ O(r) \in Due
      BY <1>1, <1>6 DEF QueueRequest, InOrder, Sent, Due
    <3>3. RequestLog!Statement(at, "none")
      BY <1>1, <1>2, <2>3, <3>2, StatusDropped DEF O, Stages
    <3>4. RequestLog!Drop(at)
      BY <1>2, <2>1, <3>1, <3>3 DEF RequestLog!Drop
    <3> QED BY <1>3, <3>4 DEF RequestLog!Next
  <2> QED BY <1>1, <1>6, <2>2, <2>3 DEF QueueRequest, Shape, O
<1> QED BY <1>4, <1>5, <1>6 DEF Send

LEMMA LogWriter ==
  ASSUME LogInv, [Next]_vars, Writer
  PROVE  [RequestLog!Next]_(RequestLog!vars)
<1>1. Typed /\ Places /\ InOrder /\ Entered /\ Shape
  BY TypedIs DEF LogInv, IInv
<1>2. UNCHANGED dbOpen /\ UNCHANGED dbVars
  BY DEF Writer, Take, Write, WriteFails, WriterStops
<1>3. RowStatus' = RowStatus /\ Reliable' = Reliable
  BY <1>2, StatusSame DEF dbVars, Reliable
<1>4. CASE Take \/ WriterStops
  <2>1. Place' = Place /\ UNCHANGED closed
    BY <1>1, <1>4, PlaceWriter DEF Take, WriterStops
  <2> QED BY <1>3, <2>1, QuietStep
<1>5. CASE Write
  <2>1. closed' = closed /\ closed = FALSE
    BY <1>1, <1>5 DEF Write, Shape
  <2>2. CASE Place' = Place
    BY <1>3, <2>1, <2>2, QuietStep
  <2>3. CASE \E m \in RequestLog!Requests : Place[m] = "due" /\ Place' = [Place EXCEPT ![m] = "sent"]
    <3>1. PICK m \in RequestLog!Requests : Place[m] = "due" /\ Place' = [Place EXCEPT ![m] = "sent"]
      BY <2>3
    <3>2. RequestLog!Send(m)
      BY <1>3, <2>1, <3>1 DEF RequestLog!Send
    <3> QED BY <3>2 DEF RequestLog!Next
  <2> QED BY <1>1, <1>5, <2>2, <2>3, PlaceWriter
<1>6. CASE WriteFails
  <2>1. closed' = TRUE
    BY <1>6 DEF WriteFails
  <2>2. CASE Place' = Place
    BY <1>2, <1>3, <2>1, <2>2, QuietStep
  <2>3. CASE \E m \in RequestLog!Requests : Place[m] = "due" /\ Place' = [Place EXCEPT ![m] = "gone"]
    <3>1. PICK m \in RequestLog!Requests : Place[m] = "due" /\ Place' = [Place EXCEPT ![m] = "gone"]
      BY <2>3
    <3>2. RequestLog!Break(m)
      BY <1>3, <2>1, <3>1 DEF RequestLog!Break
    <3> QED BY <3>2 DEF RequestLog!Next
  <2> QED BY <1>1, <1>6, <2>2, <2>3, PlaceWriter
<1> QED BY <1>4, <1>5, <1>6 DEF Writer

LEMMA LogReader ==
  ASSUME LogInv, [Next]_vars, Reader
  PROVE  [RequestLog!Next]_(RequestLog!vars)
<1>1. Typed /\ Places /\ InOrder /\ Entered /\ RowsKnown /\ Rowed /\ AnsweredRows /\ Shape
  BY TypedIs DEF LogInv, IInv
<1>2. CASE (\E m \in inFlight : ReadResponse(m)) \/ TakeFollowUp \/ ReadFails \/ ReadRequest
  <2>1. Place' = Place
    BY <1>1, <1>2, PlaceAnswer, PlaceRest
  <2>2. UNCHANGED dbVars /\ UNCHANGED dbOpen
    BY <1>2 DEF ReadResponse, TakeFollowUp, ReadFails, ReadRequest
  <2>3. UNCHANGED closed \/ closed' = TRUE
    BY <1>2 DEF ReadResponse, TakeFollowUp, ReadFails, ReadRequest
  <2>4. log' = log /\ Reliable' = Reliable
    BY <2>2 DEF dbVars, Reliable
  <2> QED BY <2>1, <2>2, <2>3, <2>4, StatusSame, QuietStep
<1>3. CASE RecordAnswer
  <2>1. UNCHANGED <<dbOpen, closed, answer>>
    BY <1>3 DEF RecordAnswer
  <2>2. answer \in Due /\ answer \in Message
    BY <1>1, <1>3, DueSteps, DueApart
  <2>3. PICK r \in References, stage \in Stages :
          answer.reference = r /\ answer.stage = stage /\ answer = Request(r, stage) /\ answer.mti = MtiOf(r, stage)
    <3>1. answer.reference \in References /\ answer.stage \in Stages
          /\ (answer.stage = "original" => answer = O(answer.reference))
          /\ (answer.stage = "followUp" => answer = F(answer.reference))
      BY <1>1, <2>2, MessageParts DEF Shape
    <3>2. answer = Request(answer.reference, answer.stage)
      BY <3>1 DEF Stages, O, F
    <3>3. answer.mti = MtiOf(answer.reference, answer.stage)
      BY <3>2 DEF Request
    <3> QED BY <3>1, <3>2, <3>3
  <2>4. UpdateResponseTime(r, MtiOf(r, stage), stage) \/ Refused
    BY <1>3, <2>3 DEF RecordAnswer
  <2>5. RequestLog!Statement(<<r, stage>>, "answered")
    BY <1>1, <2>1, <2>2, <2>3, <2>4, StatusAnswered
  <2>6. /\ <<r, stage>> \in RequestLog!Requests /\ Place[<<r, stage>>] = "sent"
        /\ Place' = [Place EXCEPT ![<<r, stage>>] = "answered"]
    BY <1>1, <1>3, <2>3, PlaceAnswer
  <2>7. RequestLog!Answer(<<r, stage>>)
    BY <2>1, <2>5, <2>6 DEF RequestLog!Answer
  <2> QED BY <2>6, <2>7 DEF RequestLog!Next
<1>4. CASE LogFollowUp \/ QueueFollowUp
  <2>1. UNCHANGED <<dbOpen, closed, answer>> /\ reader \in {"log", "send"}
    BY <1>4 DEF LogFollowUp, QueueFollowUp
  <2>2. PICK r \in References : answer.reference = r
    BY <1>1, <2>1 DEF Shape
  <2> DEFINE at == <<r, "followUp">>
  <2>3. at \in RequestLog!Requests /\ RequestLog!Original(at) = <<r, "original">>
    BY PlaceIs
  <2>4. answer = O(r) /\ F(r) \notin Sent
    BY <1>1, <2>1, <2>2, Standing DEF InHand
  <2>5. CASE LogFollowUp
    <3>1. Place[at] = "new" /\ Place[<<r, "original">>] = "answered"
      BY <1>1, <2>2, <2>5, PlaceFollowUp
    <3>2. CASE AddRequestLog(F(r)) /\ reader' = "send"
      <4>1. Place' = [Place EXCEPT ![at] = "due"]
        BY <1>1, <2>2, <2>5, <3>2, PlaceFollowUp
      <4>2. RowsOf(r, "followUp") = {}
        BY <1>1, <2>4, <2>5 DEF LogFollowUp, RowsOf, RowsKnown
      <4>3. RequestLog!Statement(at, "pending")
        BY <1>1, <2>1, <3>2, <4>2, StatusLogged DEF F, Stages
      <4>4. RequestLog!Log(at)
        BY <2>1, <2>3, <3>1, <4>1, <4>3 DEF RequestLog!Log
      <4> QED BY <2>3, <4>4 DEF RequestLog!Next
    <3>3. CASE Refused /\ reader' = "read"
      <4>1. RequestLog!GiveUp(at)
        BY <1>1, <2>2, <2>5, <3>3, PlaceFollowUp
      <4>2. log' = log /\ Reliable' = Reliable /\ ~ Reliable
        BY <2>1, <3>3 DEF Refused, dbVars, Reliable
      <4>3. RequestLog!Refuse(at)
        BY <2>1, <3>1, <4>1, <4>2, StatusSame DEF RequestLog!Refuse
      <4> QED BY <2>3, <4>3 DEF RequestLog!Next
    <3> QED BY <2>2, <2>5, <3>2, <3>3 DEF LogFollowUp, F
  <2>6. CASE QueueFollowUp
    <3>1. Place[at] = "due"
      BY <1>1, <2>2, <2>6, PlaceFollowUp
    <3>2. CASE queue' # queue
      <4>1. Place' = Place
        BY <1>1, <2>2, <2>6, <3>2, PlaceFollowUp
      <4>2. MarkScheduledMessageSent(r) \/ Refused
        <5>1. Request(r, "followUp").reference = r
          BY DEF Request
        <5> QED BY <2>2, <2>6, <3>2, <5>1 DEF QueueFollowUp
      <4>3. log' = log /\ (Reliable' => Reliable)
        BY <1>1, <2>1, <4>2, RowsChange
      <4> QED BY <2>1, <4>1, <4>3, StatusSame, QuietStep
    <3>3. CASE queue' = queue
      <4>1. RequestLog!GiveUp(at)
        BY <1>1, <2>2, <2>6, <3>3, PlaceFollowUp
      <4>2. DeleteRequestLog(F(r)) \/ Refused
        <5>1. F(r) \in Message
          BY <1>1, <2>1, <2>2 DEF Shape, Message
        <5>2. Append(queue, F(r)) # queue
          BY <1>1, <5>1, AppendProperties, LenProperties DEF Shape
        <5> QED BY <2>2, <2>6, <3>3, <5>2 DEF QueueFollowUp, F
      <4>3. F(r) \in Due /\ F(r) \notin written
        BY <2>2, <2>4, <2>6 DEF QueueFollowUp, Due, Sent
      <4>4. RequestLog!Statement(at, "none")
        BY <1>1, <2>1, <4>2, <4>3, StatusDropped DEF F, Stages
      <4>5. RequestLog!Drop(at)
        BY <2>1, <3>1, <4>1, <4>4 DEF RequestLog!Drop
      <4> QED BY <2>3, <4>5 DEF RequestLog!Next
    <3> QED BY <3>2, <3>3
  <2> QED BY <1>4, <2>5, <2>6
<1> QED BY <1>2, <1>3, <1>4 DEF Reader

\* Every step of the connection is one of its requests, or none that can be seen.
LEMMA LogStep == LogInv /\ [Next]_vars => [RequestLog!Next]_(RequestLog!vars)
<1> SUFFICES ASSUME LogInv, [Next]_vars PROVE [RequestLog!Next]_(RequestLog!vars)
  OBVIOUS
<1>1. CASE Respond \/ SendMessage \/ Close \/ CloseDB \/ UNCHANGED vars
  <2>1. Typed /\ Places /\ Entered
    BY DEF LogInv, IInv
  <2>2. Place' = Place
    BY <1>1, <2>1, PlaceRest
  <2>3. log' = log /\ (Reliable' => Reliable)
    BY <1>1 DEF Respond, SendMessage, Close, CloseDB, vars, dbVars, Reliable
  <2>4. Close => closed' = TRUE /\ UNCHANGED dbVars /\ UNCHANGED dbOpen
    BY DEF Close
  <2>5. ~ Close => UNCHANGED closed
    BY <1>1 DEF Respond, SendMessage, CloseDB, vars
  <2> QED BY <2>2, <2>3, <2>4, <2>5, StatusSame, QuietStep
<1> QED BY <1>1, LogSender, LogWriter, LogReader DEF Next

LEMMA LogInit == Init => RequestLog!Init
<1> SUFFICES ASSUME Init PROVE RequestLog!Init
  OBVIOUS
<1>1. Queued = {} /\ BeingWritten = {} /\ Awaited = {} /\ written = {}
  BY EmptySeq DEF Init, Queued, BeingWritten, BeingAnswered, Awaited
<1>2. ASSUME NEW r \in References PROVE OriginalAt(r) = "new" /\ FollowUpAt(r) \in {"new", "gone"}
  <2>1. OriginalAt(r) = "new"
    BY DEF Init, OriginalAt
  <2>2. ~ InHand(r, "send")
    BY DEF Init, InHand
  <2>3. Whereabouts(Request(r, "followUp")) = "gone"
    BY <1>1 DEF Whereabouts
  <2> QED BY <2>1, <2>2, <2>3 DEF FollowUpAt
<1>3. Place \in [RequestLog!Requests -> {"new", "gone"}]
  BY <1>2 DEF Place, RequestLog!Requests, Stages
<1>4. \A m \in RequestLog!Requests : m = RequestLog!Original(m) => Place[m] = "new"
  <2> SUFFICES ASSUME NEW m \in RequestLog!Requests, m = RequestLog!Original(m) PROVE Place[m] = "new"
    OBVIOUS
  <2>1. m \in References \X Stages /\ m[2] = "original"
    BY DEF RequestLog!Requests, RequestLog!Original, Stages
  <2> QED BY <1>2, <2>1 DEF Place
<1>5. RowStatus = [m \in RequestLog!Requests |-> "none"]
  <2>1. \A r, stage : Status(r, stage) = "none"
    BY DEF Init, Status, RowsOf
  <2> QED BY <2>1 DEF RowStatus, RequestLog!Requests, Stages
<1>6. (~ closed) = TRUE /\ Reliable = TRUE
  BY DEF Init, Reliable
<1> QED BY <1>3, <1>4, <1>5, <1>6 DEF RequestLog!Init

\* The channel, the maps, the goroutines and the statements that find rows by reference and MTI
\* implement RequestLog: each request goes its way once, and as long as no statement is lost
\* its row, and no other, goes with it.
THEOREM Implementation == Spec => ImplementsRequestLog
<1>1. Spec => []LogInv
  BY LogInvHolds
<1> QED BY <1>1, LogInit, LogStep, PTL DEF Spec, ImplementsRequestLog, RequestLog!Spec

-----------------------------------------------------------------------------
(* What RequestLog says of the table                                       *)

\* A follow-up begins after the answer of its original, and the rows tell of both.
AccountInv ==
  /\ Place \in [RequestLog!Requests -> {"new", "due", "sent", "answered", "gone"}]
  /\ RowStatus \in [RequestLog!Requests -> {"none", "pending", "answered"}]
  /\ \A m \in RequestLog!Requests :
       Place[RequestLog!Original(m)] = "answered" \/ m = RequestLog!Original(m) \/ Place[m] \in {"new", "gone"}
  /\ RequestLog!RowsTellAll

\* The original of a request is a request, and its own original.
LEMMA OriginalIs ==
  \A m \in RequestLog!Requests : /\ RequestLog!Original(m) \in RequestLog!Requests
                                 /\ RequestLog!Original(RequestLog!Original(m)) = RequestLog!Original(m)
  BY DEF RequestLog!Requests, RequestLog!Original

\* A step that takes one request from one place to the next, its row with it.
LEMMA AccountMoves ==
  ASSUME AccountInv, NEW m \in RequestLog!Requests, NEW where \in {"due", "sent", "answered", "gone"},
         Place' = [Place EXCEPT ![m] = where], Place[m] # "answered",
         where = "gone" \/ m = RequestLog!Original(m) \/ Place[RequestLog!Original(m)] = "answered",
         \/ RowStatus' = RowStatus /\ (Reliable' => Reliable) /\ Place[m] = "due" /\ where \in {"sent", "gone"}
         \/ RequestLog!Statement(m, "pending") /\ where = "due"
         \/ RequestLog!Statement(m, "answered") /\ where = "answered"
  PROVE  AccountInv'
<1>1. RowStatus' \in [RequestLog!Requests -> {"none", "pending", "answered"}]
  BY DEF AccountInv, RequestLog!Statement
<1>2. Place' \in [RequestLog!Requests -> {"new", "due", "sent", "answered", "gone"}]
  BY DEF AccountInv
<1>3. ASSUME NEW n \in RequestLog!Requests
      PROVE  Place'[RequestLog!Original(n)] = "answered" \/ n = RequestLog!Original(n) \/ Place'[n] \in {"new", "gone"}
  <2>1. RequestLog!Original(n) \in RequestLog!Requests
    BY OriginalIs
  <2> QED BY <2>1 DEF AccountInv
<1>4. RequestLog!RowsTellAll'
  <2> SUFFICES ASSUME Reliable', NEW n \in RequestLog!Requests
               PROVE  /\ Place'[n] = "new" => RowStatus'[n] = "none"
                      /\ Place'[n] \in {"due", "sent"} => RowStatus'[n] = "pending"
                      /\ Place'[n] = "answered" => RowStatus'[n] = "answered"
                      /\ Place'[n] = "gone" => RowStatus'[n] \in {"none", "pending"}
    BY DEF RequestLog!RowsTellAll
  <2>1. /\ Reliable
        /\ \/ RowStatus' = RowStatus /\ Place[m] = "due" /\ where \in {"sent", "gone"}
           \/ RowStatus' = [RowStatus EXCEPT ![m] = "pending"] /\ where = "due"
           \/ RowStatus' = [RowStatus EXCEPT ![m] = "answered"] /\ where = "answered"
    BY DEF RequestLog!Statement
  <2> QED BY <2>1 DEF AccountInv, RequestLog!RowsTellAll
<1> QED BY <1>1, <1>2, <1>3, <1>4 DEF AccountInv

\* A request that is given up has no answer, and takes no follow-up with it that has one.
LEMMA AccountGivesUp ==
  ASSUME AccountInv, NEW m \in RequestLog!Requests, RequestLog!GiveUp(m),
         \/ Place[m] = "due" /\ RequestLog!Statement(m, "none")
         \/ ~ Reliable /\ UNCHANGED <<RowStatus, Reliable>>
  PROVE  AccountInv'
<1>1. RowStatus' \in [RequestLog!Requests -> {"none", "pending", "answered"}]
  BY DEF AccountInv, RequestLog!Statement
<1>2. Place' \in [RequestLog!Requests -> {"new", "due", "sent", "answered", "gone"}]
  BY DEF AccountInv, RequestLog!GiveUp
<1>3. ASSUME NEW n \in RequestLog!Requests
      PROVE  Place'[RequestLog!Original(n)] = "answered" \/ n = RequestLog!Original(n) \/ Place'[n] \in {"new", "gone"}
  <2>1. /\ RequestLog!Original(n) \in RequestLog!Requests
        /\ RequestLog!Original(RequestLog!Original(n)) = RequestLog!Original(n)
    BY OriginalIs
  <2>2. RequestLog!Original(n) \in RequestLog!WithFollowUp(m) => n \in RequestLog!WithFollowUp(m)
    BY <2>1 DEF RequestLog!WithFollowUp
  <2> QED BY <2>1, <2>2 DEF AccountInv, RequestLog!GiveUp
<1>4. RequestLog!RowsTellAll'
  <2> SUFFICES ASSUME Reliable', NEW n \in RequestLog!Requests
               PROVE  /\ Place'[n] = "new" => RowStatus'[n] = "none"
                      /\ Place'[n] \in {"due", "sent"} => RowStatus'[n] = "pending"
                      /\ Place'[n] = "answered" => RowStatus'[n] = "answered"
                      /\ Place'[n] = "gone" => RowStatus'[n] \in {"none", "pending"}
    BY DEF RequestLog!RowsTellAll
  <2>1. Reliable /\ Place[m] = "due" /\ RowStatus' = [RowStatus EXCEPT ![m] = "none"]
    BY DEF RequestLog!Statement
  <2>2. n \in RequestLog!WithFollowUp(m) => n = m \/ Place[n] \in {"new", "gone"}
    BY <2>1 DEF RequestLog!WithFollowUp, AccountInv
  <2>3. Place'[n] = IF n \in RequestLog!WithFollowUp(m) THEN "gone" ELSE Place[n]
    BY DEF RequestLog!GiveUp
  <2>4. m \in RequestLog!WithFollowUp(m)
    BY DEF RequestLog!WithFollowUp
  <2> QED BY <2>1, <2>2, <2>3, <2>4 DEF AccountInv, RequestLog!RowsTellAll
<1> QED BY <1>1, <1>2, <1>3, <1>4 DEF AccountInv

LEMMA AccountStep == AccountInv /\ [RequestLog!Next]_(RequestLog!vars) => AccountInv'
<1> SUFFICES ASSUME AccountInv, [RequestLog!Next]_(RequestLog!vars) PROVE AccountInv'
  OBVIOUS
<1>1. ASSUME UNCHANGED <<Place, RowStatus>>, Reliable' => Reliable PROVE AccountInv'
  BY <1>1 DEF AccountInv, RequestLog!RowsTellAll
<1>2. CASE RequestLog!Close \/ RequestLog!Lose \/ UNCHANGED RequestLog!vars
  <2>1. UNCHANGED <<Place, RowStatus>> /\ (Reliable' => Reliable)
    BY <1>2 DEF RequestLog!Close, RequestLog!Lose, RequestLog!vars
  <2> QED BY <1>1, <2>1
<1>3. ASSUME NEW m \in RequestLog!Requests, RequestLog!Log(m) PROVE AccountInv'
  <2>1. /\ Place[m] = "new" /\ (m # RequestLog!Original(m) => Place[RequestLog!Original(m)] = "answered")
        /\ Place' = [Place EXCEPT ![m] = "due"] /\ RequestLog!Statement(m, "pending")
    BY <1>3 DEF RequestLog!Log
  <2> QED BY <2>1, AccountMoves
<1>4. ASSUME NEW m \in RequestLog!Requests, Place[m] \in {"due", "sent"}
      PROVE  m = RequestLog!Original(m) \/ Place[RequestLog!Original(m)] = "answered"
  BY <1>4 DEF AccountInv
<1>5. ASSUME NEW m \in RequestLog!Requests, RequestLog!Send(m) PROVE AccountInv'
  <2>1. Place[m] = "due" /\ Place' = [Place EXCEPT ![m] = "sent"] /\ RowStatus' = RowStatus /\ (Reliable' => Reliable)
    BY <1>5 DEF RequestLog!Send
  <2> QED BY <2>1, <1>4, AccountMoves
<1>6. ASSUME NEW m \in RequestLog!Requests, RequestLog!Answer(m) PROVE AccountInv'
  <2>1. Place[m] = "sent" /\ Place' = [Place EXCEPT ![m] = "answered"] /\ RequestLog!Statement(m, "answered")
    BY <1>6 DEF RequestLog!Answer
  <2> QED BY <2>1, <1>4, AccountMoves
<1>7. ASSUME NEW m \in RequestLog!Requests, RequestLog!Break(m) PROVE AccountInv'
  <2>1. Place[m] = "due" /\ Place' = [Place EXCEPT ![m] = "gone"] /\ RowStatus' = RowStatus /\ (Reliable' => Reliable)
    BY <1>7 DEF RequestLog!Break
  <2> QED BY <2>1, <1>4, AccountMoves
<1>8. ASSUME NEW m \in RequestLog!Requests, RequestLog!Drop(m) \/ RequestLog!Refuse(m) PROVE AccountInv'
  <2>1. /\ RequestLog!GiveUp(m)
        /\ \/ Place[m] = "due" /\ RequestLog!Statement(m, "none")
           \/ ~ Reliable /\ UNCHANGED <<RowStatus, Reliable>>
    BY <1>8 DEF RequestLog!Drop, RequestLog!Refuse
  <2> QED BY <2>1, AccountGivesUp
<1> QED BY <1>2, <1>3, <1>5, <1>6, <1>7, <1>8 DEF RequestLog!Next

LEMMA AccountInit == RequestLog!Init => AccountInv
<1> SUFFICES ASSUME RequestLog!Init PROVE AccountInv
  OBVIOUS
<1>1. Place \in [RequestLog!Requests -> {"new", "gone"}] /\ RowStatus = [m \in RequestLog!Requests |-> "none"]
  BY DEF RequestLog!Init
<1> QED BY <1>1 DEF AccountInv, RequestLog!RowsTellAll

\* The table can be read as an account of the requests of the connection: as long as no statement
\* is lost, no row stands for what has not begun, a row without an answer for what is on its way,
\* one with an answer for what has been answered, and none with an answer for what was given up.
THEOREM AccountOfRequests == Spec => []RequestLog!RowsTellAll
<1>1. AccountInv => RequestLog!RowsTellAll
  BY DEF AccountInv
<1>2. Spec => RequestLog!Spec
  BY Implementation DEF ImplementsRequestLog
<1>3. RequestLog!Spec => []AccountInv
  BY AccountInit, AccountStep, PTL DEF RequestLog!Spec
<1> QED BY <1>1, <1>2, <1>3, PTL
=============================================================================
