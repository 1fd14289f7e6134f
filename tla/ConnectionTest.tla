--------------------------- MODULE ConnectionTest ---------------------------
(***************************************************************************)
(* Connection tests of network/server/iso_server.go: HTTP requests run     *)
(* IsoServer.TestConnection on one connection, each sends an 0800 with the *)
(* second as its key (STAN) and waits for the echo, which the connection's *)
(* read loop (HandleRead) passes on through connTestMap.  A failed test    *)
(* closes the connection.                                                  *)
(***************************************************************************)
EXTENDS Naturals, FiniteSets

CONSTANTS
  Tests,      \* the requests to test this connection
  NoTest,     \* the value of connTestMap at a key that is not in it
  Timeout,    \* the seconds a test waits for its answer
  Seconds     \* the keys come round after this many seconds (a bound)

ASSUME ConnectionTestAssumption ==
  /\ NoTest \notin Tests
  /\ Timeout \in Nat \ {0}
  /\ Seconds \in Nat /\ Seconds > Timeout + 1

VARIABLES
  now,          \* the second the clock shows
  test,         \* where each test is
  result,       \* what it has found: none, ok, failed or inProgress
  stan,         \* its key
  age,          \* the seconds it has been waiting
  connTestMap,  \* key -> the test whose channel gets the answer
  waitChan,     \* answers in the channel of each test
  echoes,       \* tests whose 0800 the client has not answered, or not yet
  reader,       \* NoTest, or the test to whose full channel the read loop sends
  closed,       \* the connection is closed
  prompt,       \* the client answers, and everyone acts, within the time-out
  \* history variable
  clash         \* two tests of the same second have been under way at once

vars == <<now, test, result, stan, age, connTestMap, waitChan, echoes, reader, closed, prompt,
          clash>>

Keys == 0 .. Seconds - 1

TypeOK ==
  /\ now \in Keys
  /\ test \in [Tests -> {"idle", "store", "write", "wait", "delete", "close", "done"}]
  /\ result \in [Tests -> {"none", "ok", "failed", "inProgress"}]
  /\ stan \in [Tests -> Keys]
  /\ age \in [Tests -> 0 .. Timeout]
  /\ connTestMap \in [Keys -> Tests \cup {NoTest}]
  /\ waitChan \in [Tests -> 0 .. 1]
  /\ echoes \subseteq Tests
  /\ reader \in Tests \cup {NoTest}
  /\ closed \in BOOLEAN /\ prompt \in BOOLEAN /\ clash \in BOOLEAN

Init ==
  /\ now = 0
  /\ test = [t \in Tests |-> "idle"]
  /\ result = [t \in Tests |-> "none"]
  /\ stan = [t \in Tests |-> 0]
  /\ age = [t \in Tests |-> 0]
  /\ connTestMap = [k \in Keys |-> NoTest]
  /\ waitChan = [t \in Tests |-> 0]
  /\ echoes = {}
  /\ reader = NoTest
  /\ closed = FALSE
  /\ prompt \in BOOLEAN
  /\ clash = FALSE

\* Its key has been stored and not been removed again.
UnderWay(t) == test[t] \in {"write", "wait", "delete"}

-----------------------------------------------------------------------------
(* TestConnection                                                          *)

\* Range finds a key in connTestMap, or finds none and the test goes ahead.
Check(t) ==
  /\ test[t] = "idle"
  /\ IF \A k \in Keys : connTestMap[k] = NoTest
     THEN /\ test' = [test EXCEPT ![t] = "store"]
          /\ UNCHANGED result
     ELSE /\ test' = [test EXCEPT ![t] = "done"]
          /\ result' = [result EXCEPT ![t] = "inProgress"]
  /\ UNCHANGED <<now, stan, age, connTestMap, waitChan, echoes, reader, closed, prompt, clash>>

\* The second becomes the key; an earlier test of the same second is replaced.
Store(t) ==
  /\ test[t] = "store"
  /\ test' = [test EXCEPT ![t] = "write"]
  /\ stan' = [stan EXCEPT ![t] = now]
  /\ connTestMap' = [connTestMap EXCEPT ![now] = t]
  /\ clash' = (clash \/ \E u \in Tests : UnderWay(u) /\ stan[u] = now)
  /\ UNCHANGED <<now, result, age, waitChan, echoes, reader, closed, prompt>>

\* The 0800 is written; the wait and its time-out begin.
Write(t) ==
  /\ test[t] = "write" /\ ~ closed
  /\ test' = [test EXCEPT ![t] = "wait"]
  /\ echoes' = echoes \cup {t}
  /\ UNCHANGED <<now, result, stan, age, connTestMap, waitChan, reader, closed, prompt, clash>>

\* The write fails: on a closed socket, or when the client does not read.
WriteFails(t) ==
  /\ test[t] = "write" /\ (closed \/ ~ prompt)
  /\ test' = [test EXCEPT ![t] = "delete"]
  /\ result' = [result EXCEPT ![t] = "failed"]
  /\ UNCHANGED <<now, stan, age, connTestMap, waitChan, echoes, reader, closed, prompt, clash>>

\* The select takes the answer.
Answered(t) ==
  /\ test[t] = "wait" /\ waitChan[t] > 0
  /\ waitChan' = [waitChan EXCEPT ![t] = @ - 1]
  /\ test' = [test EXCEPT ![t] = "delete"]
  /\ result' = [result EXCEPT ![t] = "ok"]
  /\ UNCHANGED <<now, stan, age, connTestMap, echoes, reader, closed, prompt, clash>>

\* A mutant of TimesOut: a test that times out is not seen as failed.
TimesOutOk(t) ==
  /\ test[t] = "wait" /\ age[t] = Timeout
  /\ test' = [test EXCEPT ![t] = "delete"]
  /\ result' = [result EXCEPT ![t] = "ok"]
  /\ UNCHANGED <<now, stan, age, connTestMap, waitChan, echoes, reader, closed, prompt, clash>>

\* Another: there is no time-out.
NeverTimesOut(t) == FALSE

\* The select takes the time-out, also if an answer has just come.
TimesOut(t) ==
  /\ test[t] = "wait" /\ age[t] = Timeout
  /\ test' = [test EXCEPT ![t] = "delete"]
  /\ result' = [result EXCEPT ![t] = "failed"]
  /\ UNCHANGED <<now, stan, age, connTestMap, waitChan, echoes, reader, closed, prompt, clash>>

\* The deferred Delete removes the key, whoever's channel is there.
Delete(t) ==
  /\ test[t] = "delete"
  /\ connTestMap' = [connTestMap EXCEPT ![stan[t]] = NoTest]
  /\ test' = [test EXCEPT ![t] = IF result[t] = "ok" THEN "done" ELSE "close"]
  /\ UNCHANGED <<now, result, stan, age, waitChan, echoes, reader, closed, prompt, clash>>

\* IsoServer.TestConnection closes the connection after a failed test.
CloseFailed(t) ==
  /\ test[t] = "close"
  /\ closed' = TRUE
  /\ test' = [test EXCEPT ![t] = "done"]
  /\ UNCHANGED <<now, result, stan, age, connTestMap, waitChan, echoes, reader, prompt, clash>>

Test(t) ==
  \/ Store(t) \/ Write(t) \/ WriteFails(t) \/ Answered(t) \/ TimesOut(t) \/ Delete(t)
  \/ CloseFailed(t)

-----------------------------------------------------------------------------
(* HandleRead, the echo path.  The client answers an 0800 at most once.    *)

\* make(chan string, 1)
ChanSize == 1

\* A mutant of ReadEcho: the answer is not looked up in connTestMap.
DropEcho(t) ==
  /\ reader = NoTest /\ ~ closed /\ t \in echoes
  /\ echoes' = echoes \ {t}
  /\ UNCHANGED <<now, test, result, stan, age, connTestMap, waitChan, reader, closed, prompt,
                 clash>>

\* The answer to t's 0800 is read and sent to the channel under its key.  With no
\* key it is handled as any other response, and matches none.
ReadEcho(t) ==
  /\ reader = NoTest /\ ~ closed /\ t \in echoes
  /\ echoes' = echoes \ {t}
  /\ LET w == connTestMap[stan[t]]
     IN  IF w = NoTest THEN UNCHANGED <<waitChan, reader>>
         ELSE IF waitChan[w] < ChanSize
         THEN waitChan' = [waitChan EXCEPT ![w] = @ + 1] /\ UNCHANGED reader
         ELSE reader' = w /\ UNCHANGED waitChan
  /\ UNCHANGED <<now, test, result, stan, age, connTestMap, closed, prompt, clash>>

\* The channel the read loop is blocked on has been emptied.
ReaderGoesOn ==
  /\ reader # NoTest /\ waitChan[reader] < ChanSize
  /\ waitChan' = [waitChan EXCEPT ![reader] = @ + 1]
  /\ reader' = NoTest
  /\ UNCHANGED <<now, test, result, stan, age, connTestMap, echoes, closed, prompt, clash>>

-----------------------------------------------------------------------------
\* The read loop or a writer closes the connection, or Stop does.
OtherCloses ==
  /\ ~ closed /\ ~ prompt
  /\ closed' = TRUE
  /\ UNCHANGED <<now, test, result, stan, age, connTestMap, waitChan, echoes, reader, prompt, clash>>

\* The read loop is blocked on a channel nobody will read.
Stuck == reader # NoTest /\ test[reader] \notin {"write", "wait"} /\ waitChan[reader] = ChanSize

\* The next second.  Only the waits take time: the other steps of a test are back
\* to back, and a time-out is acted on at once.  If everyone is prompt, an answer
\* that can reach its test does so before the time-out.  A key comes round after
\* a year, so an answer from its last time is not to be expected any more.
Tick ==
  /\ \E t \in Tests : test[t] \in {"store", "wait"}
  /\ \A t \in Tests : test[t] \notin {"write", "delete", "close"}
  /\ \A t \in Tests : test[t] = "wait" => age[t] < Timeout
  /\ prompt /\ ~ closed /\ ~ Stuck => \A t \in Tests : (test[t] = "wait" /\ age[t] = Timeout - 1) =>
       t \notin echoes /\ waitChan[t] = 0 /\ reader = NoTest
  /\ now' = (now + 1) % Seconds
  /\ age' = [t \in Tests |-> IF test[t] = "wait" THEN age[t] + 1 ELSE 0]
  /\ echoes' = {t \in echoes : stan[t] # now'}
  /\ UNCHANGED <<test, result, stan, connTestMap, waitChan, reader, closed, prompt, clash>>

Next ==
  \/ \E t \in Tests : Check(t) \/ Test(t) \/ ReadEcho(t)
  \/ ReaderGoesOn \/ OtherCloses \/ Tick

Spec == Init /\ [][Next]_vars

(***************************************************************************)
(* Fairness: a test that has begun goes on, time passes and the read loop  *)
(* runs when it can.  The client need not answer, unless it is prompt.     *)
(***************************************************************************)
Fairness ==
  /\ WF_vars(Tick) /\ WF_vars(ReaderGoesOn)
  /\ \A t \in Tests : WF_vars(Test(t)) /\ WF_vars(prompt /\ ReadEcho(t))

FairSpec == Spec /\ Fairness

-----------------------------------------------------------------------------
(* Safety                                                                  *)

\* A connection whose client answers in time is closed by a test only if tests of
\* the same second have taken an answer or the key from each other.
PromptClosedByClash == prompt /\ closed => clash

\* A key in connTestMap is of a test that is under way and will remove it: the
\* connection is never left refusing all later tests.  Proved in ConnectionTestProofs.
KeysAreInUse ==
  \A k \in Keys : connTestMap[k] # NoTest =>
    \E t \in Tests : stan[t] = k /\ UnderWay(t)

-----------------------------------------------------------------------------
(* Liveness                                                                *)

\* A read loop that is stuck for good is not left on an open connection.
StuckIsClosed == Stuck ~> closed

\* Every test comes to an end.
TestsEnd == \A t \in Tests : test[t] # "idle" ~> test[t] = "done"
=============================================================================
