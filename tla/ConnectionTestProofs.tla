------------------------ MODULE ConnectionTestProofs ------------------------
(***************************************************************************)
(* Proofs about ConnectionTest, for any number of tests and any time-out.  *)
(***************************************************************************)
EXTENDS ConnectionTest, TLAPS

-----------------------------------------------------------------------------
(* Type correctness                                                        *)

LEMMA KeysType ==
  /\ Keys \subseteq Nat /\ 0 \in Keys
  /\ \A k \in Keys : (k + 1) % Seconds = (IF k + 1 = Seconds THEN 0 ELSE k + 1) /\ (k + 1) % Seconds \in Keys
<1>1. Seconds \in Nat \ {0}
  BY ConnectionTestAssumption DEF ConnectionTestAssumption
<1>2. ASSUME NEW k \in Keys PROVE (k + 1) % Seconds = (IF k + 1 = Seconds THEN 0 ELSE k + 1)
  <2>1. k \in Nat /\ k + 1 <= Seconds
    BY <1>1 DEF Keys
  <2>2. CASE k + 1 = Seconds
    BY <1>1, <2>1, <2>2
  <2>3. CASE k + 1 < Seconds
    BY <1>1, <2>1, <2>3
  <2> QED BY <1>1, <2>1, <2>2, <2>3
<1> QED BY <1>1, <1>2 DEF Keys

LEMMA TypeInit == Init => TypeOK
<1> SUFFICES ASSUME Init PROVE TypeOK
  OBVIOUS
<1>1. now \in Keys /\ stan \in [Tests -> Keys] /\ connTestMap \in [Keys -> Tests \cup {NoTest}]
  BY KeysType DEF Init
<1>2. age \in [Tests -> 0 .. Timeout]
  BY ConnectionTestAssumption DEF Init, ConnectionTestAssumption
<1>3. /\ test \in [Tests -> {"idle", "store", "write", "wait", "delete", "close", "done"}]
      /\ result \in [Tests -> {"none", "ok", "failed", "inProgress"}] /\ waitChan \in [Tests -> 0 .. 1]
  BY DEF Init
<1>4. echoes \subseteq Tests /\ reader \in Tests \cup {NoTest} /\ closed \in BOOLEAN /\ prompt \in BOOLEAN /\ clash \in BOOLEAN
  BY DEF Init
<1> QED BY <1>1, <1>2, <1>3, <1>4 DEF TypeOK

LEMMA TypeStep == TypeOK /\ [Next]_vars => TypeOK'
<1> SUFFICES ASSUME TypeOK, [Next]_vars PROVE TypeOK'
  OBVIOUS
<1> USE DEF TypeOK
<1>1. ASSUME NEW t \in Tests, Check(t) PROVE TypeOK'
  BY <1>1 DEF Check
<1>2. ASSUME NEW t \in Tests, Store(t) PROVE TypeOK'
  BY <1>2 DEF Store
<1>3. ASSUME NEW t \in Tests, Write(t) PROVE TypeOK'
  BY <1>3 DEF Write
<1>4. ASSUME NEW t \in Tests, WriteFails(t) PROVE TypeOK'
  BY <1>4 DEF WriteFails
<1>5. ASSUME NEW t \in Tests, Answered(t) PROVE TypeOK'
  BY <1>5 DEF Answered
<1>6. ASSUME NEW t \in Tests, TimesOut(t) PROVE TypeOK'
  BY <1>6 DEF TimesOut
<1>7. ASSUME NEW t \in Tests, Delete(t) PROVE TypeOK'
  BY <1>7 DEF Delete
<1>8. ASSUME NEW t \in Tests, CloseFailed(t) PROVE TypeOK'
  BY <1>8 DEF CloseFailed
<1>9. ASSUME NEW t \in Tests, ReadEcho(t) PROVE TypeOK'
  BY <1>9 DEF ReadEcho, ChanSize
<1>10. CASE ReaderGoesOn
  BY <1>10 DEF ReaderGoesOn, ChanSize
<1>11. CASE OtherCloses
  BY <1>11 DEF OtherCloses
<1>12. CASE Tick
  <2>1. now' \in Keys
    BY <1>12, KeysType DEF Tick
  <2>2. age' \in [Tests -> 0 .. Timeout]
    BY <1>12, ConnectionTestAssumption DEF Tick, ConnectionTestAssumption
  <2> QED BY <1>12, <2>1, <2>2 DEF Tick
<1>13. CASE UNCHANGED vars
  BY <1>13 DEF vars
<1> QED BY <1>1, <1>2, <1>3, <1>4, <1>5, <1>6, <1>7, <1>8, <1>9, <1>10, <1>11, <1>12, <1>13 DEF Next, Test

\* The variables keep their types; a channel never holds more than one answer.
THEOREM TypeCorrect == Spec => []TypeOK
  BY TypeInit, TypeStep, PTL DEF Spec

-----------------------------------------------------------------------------
(* The keys of connTestMap                                                 *)

LEMMA KeysStep == TypeOK /\ KeysAreInUse /\ [Next]_vars => KeysAreInUse'
<1> SUFFICES ASSUME TypeOK, KeysAreInUse, [Next]_vars, NEW k \in Keys, connTestMap'[k] # NoTest
             PROVE  \E t \in Tests : stan'[t] = k /\ UnderWay(t)'
  BY DEF KeysAreInUse
<1>1. ASSUME NEW t \in Tests, Store(t) PROVE \E u \in Tests : stan'[u] = k /\ UnderWay(u)'
  <2>1. CASE k = now
    <3>1. stan'[t] = k /\ test'[t] = "write"
      BY <1>1, <2>1 DEF Store, TypeOK
    <3> QED BY <3>1 DEF UnderWay
  <2>2. CASE k # now
    <3>1. connTestMap[k] # NoTest
      BY <1>1, <2>2 DEF Store, TypeOK
    <3>2. PICK u \in Tests : stan[u] = k /\ UnderWay(u)
      BY <3>1 DEF KeysAreInUse
    <3>3. u # t
      BY <1>1, <3>2 DEF Store, UnderWay
    <3>4. stan'[u] = k /\ test'[u] = test[u]
      BY <1>1, <3>2, <3>3 DEF Store, TypeOK
    <3> QED BY <3>2, <3>4 DEF UnderWay
  <2> QED BY <2>1, <2>2
<1>2. ASSUME NEW t \in Tests, Delete(t) PROVE \E u \in Tests : stan'[u] = k /\ UnderWay(u)'
  <2>1. k # stan[t] /\ connTestMap[k] # NoTest
    BY <1>2 DEF Delete, TypeOK
  <2>2. PICK u \in Tests : stan[u] = k /\ UnderWay(u)
    BY <2>1 DEF KeysAreInUse
  <2>3. stan'[u] = k /\ test'[u] = test[u]
    BY <1>2, <2>1, <2>2 DEF Delete, TypeOK
  <2> QED BY <2>2, <2>3 DEF UnderWay
\* Every other step leaves the keys alone and the tests that have one under way.
<1>3. ASSUME UNCHANGED <<connTestMap, stan>>, \A u \in Tests : UnderWay(u) => UnderWay(u)'
      PROVE  \E u \in Tests : stan'[u] = k /\ UnderWay(u)'
  <2>1. PICK u \in Tests : stan[u] = k /\ UnderWay(u)
    BY <1>3 DEF KeysAreInUse
  <2> QED BY <1>3, <2>1
<1>4. ASSUME NEW t \in Tests, Check(t) \/ Write(t) \/ WriteFails(t) \/ Answered(t) \/ TimesOut(t) \/ CloseFailed(t)
      PROVE  \E u \in Tests : stan'[u] = k /\ UnderWay(u)'
  <2>1. UNCHANGED <<connTestMap, stan>> /\ \A u \in Tests : UnderWay(u) => UnderWay(u)'
    BY <1>4 DEF Check, Write, WriteFails, Answered, TimesOut, CloseFailed, UnderWay, TypeOK
  <2> QED BY <1>3, <2>1
<1>5. CASE (\E t \in Tests : ReadEcho(t)) \/ ReaderGoesOn \/ OtherCloses \/ Tick \/ UNCHANGED vars
  <2>1. UNCHANGED <<connTestMap, stan, test>>
    BY <1>5 DEF ReadEcho, ReaderGoesOn, OtherCloses, Tick, vars
  <2> QED BY <1>3, <2>1 DEF UnderWay
<1> QED BY <1>1, <1>2, <1>4, <1>5 DEF Next, Test

\* A key in connTestMap is of a test that will remove it: whatever fails, and
\* whichever tests take the key from each other, later tests are not refused for good.
THEOREM KeysInUse == Spec => []KeysAreInUse
<1>1. Init => KeysAreInUse
  BY DEF Init, KeysAreInUse
<1> QED BY <1>1, KeysStep, TypeCorrect, PTL DEF Spec

-----------------------------------------------------------------------------
(* A client that answers in time                                           *)

\* The seconds a test has been waiting are those since its key was made.
AgeIsTime ==
  \A t \in Tests :
    /\ test[t] \in {"idle", "store", "write"} => age[t] = 0
    /\ test[t] \in {"write", "wait"} => now = stan[t] + age[t] \/ now + Seconds = stan[t] + age[t]

\* Where the answer of each test is, as long as the client is prompt and no two tests
\* have clashed
Smooth ==
  /\ ~ closed /\ reader = NoTest
  /\ \A t \in Tests :
       /\ result[t] # "failed" /\ test[t] # "close"
       /\ test[t] = "delete" => result[t] = "ok"
       /\ UnderWay(t) => connTestMap[stan[t]] = t
       /\ t \in echoes => test[t] = "wait" /\ waitChan[t] = 0
       /\ waitChan[t] = 1 => test[t] = "wait"
       /\ test[t] = "wait" => (t \in echoes \/ waitChan[t] = 1) /\ age[t] < Timeout
  /\ \A t, u \in Tests : UnderWay(t) /\ UnderWay(u) /\ stan[t] = stan[u] => t = u

IInv == AgeIsTime /\ (prompt /\ ~ clash => Smooth)

LEMMA AgeStep == TypeOK /\ AgeIsTime /\ [Next]_vars => AgeIsTime'
<1> SUFFICES ASSUME TypeOK, AgeIsTime, [Next]_vars PROVE AgeIsTime'
  OBVIOUS
<1>1. ASSUME NEW t \in Tests, Check(t) \/ Store(t) \/ Write(t) PROVE AgeIsTime'
  <2>1. now \in Nat /\ now' = now /\ age' = age
    BY <1>1, KeysType DEF Check, Store, Write, TypeOK
  <2>2. ASSUME NEW u \in Tests
        PROVE  /\ test'[u] \in {"idle", "store", "write"} => age'[u] = 0
               /\ test'[u] \in {"write", "wait"} => now' = stan'[u] + age'[u] \/ now' + Seconds = stan'[u] + age'[u]
    <3>1. CASE u # t
      <4>1. test'[u] = test[u] /\ stan'[u] = stan[u]
        BY <1>1, <3>1 DEF Check, Store, Write, TypeOK
      <4> QED BY <2>1, <4>1 DEF AgeIsTime
    <3>2. CASE u = t /\ Check(t)
      BY <2>1, <3>2 DEF Check, TypeOK, AgeIsTime
    <3>3. CASE u = t /\ Store(t)
      <4>1. age[u] = 0 /\ stan'[u] = now
        BY <3>3 DEF Store, TypeOK, AgeIsTime
      <4> QED BY <2>1, <4>1
    <3>4. CASE u = t /\ Write(t)
      <4>1. test[t] = "write" /\ test'[t] = "wait" /\ stan'[t] = stan[t]
        BY <3>4 DEF Write, TypeOK
      <4> QED BY <2>1, <3>4, <4>1 DEF AgeIsTime
    <3> QED BY <1>1, <3>1, <3>2, <3>3, <3>4
  <2> QED BY <2>2 DEF AgeIsTime
<1>2. ASSUME NEW t \in Tests, WriteFails(t) \/ Answered(t) \/ TimesOut(t) \/ Delete(t) \/ CloseFailed(t) PROVE AgeIsTime'
  <2>1. UNCHANGED <<now, age, stan>> /\ \A u \in Tests : test'[u] = test[u] \/ test'[u] \in {"delete", "close", "done"}
    BY <1>2 DEF WriteFails, Answered, TimesOut, Delete, CloseFailed, TypeOK
  <2> QED BY <2>1 DEF AgeIsTime
<1>3. CASE Tick
  <2>1. UNCHANGED <<test, stan>> /\ now \in Keys /\ now' = (IF now + 1 = Seconds THEN 0 ELSE now + 1)
    BY <1>3, KeysType DEF Tick, TypeOK
  <2>2. ASSUME NEW t \in Tests
        PROVE  /\ test'[t] \in {"idle", "store", "write"} => age'[t] = 0
               /\ test'[t] \in {"write", "wait"} => now' = stan'[t] + age'[t] \/ now' + Seconds = stan'[t] + age'[t]
    <3>1. CASE test[t] # "wait"
      <4>1. age'[t] = 0 /\ test[t] # "write"
        BY <1>3, <3>1 DEF Tick
      <4> QED BY <2>1, <3>1, <4>1
    <3>2. CASE test[t] = "wait"
      <4>1. age'[t] = age[t] + 1 /\ age[t] \in Nat /\ age[t] < Timeout
        BY <1>3, <3>2 DEF Tick, TypeOK
      <4>2. stan[t] \in Nat /\ stan[t] < Seconds
        <5>1. stan[t] \in 0 .. Seconds - 1 /\ Seconds \in Nat
          BY ConnectionTestAssumption DEF ConnectionTestAssumption, TypeOK, Keys
        <5> QED BY <5>1
      <4>3. now = stan[t] + age[t] \/ now + Seconds = stan[t] + age[t]
        BY <3>2 DEF AgeIsTime
      <4>4. now \in Nat /\ Seconds \in Nat /\ Timeout \in Nat /\ Seconds > Timeout + 1
        BY <2>1, ConnectionTestAssumption DEF ConnectionTestAssumption, Keys
      <4>5. now' = stan[t] + age'[t] \/ now' + Seconds = stan[t] + age'[t]
        BY <2>1, <4>1, <4>2, <4>3, <4>4
      <4> QED BY <2>1, <3>2, <4>5
    <3> QED BY <3>1, <3>2
  <2> QED BY <2>2 DEF AgeIsTime
<1>4. CASE (\E t \in Tests : ReadEcho(t)) \/ ReaderGoesOn \/ OtherCloses \/ UNCHANGED vars
  <2>1. UNCHANGED <<now, age, stan, test>>
    BY <1>4 DEF ReadEcho, ReaderGoesOn, OtherCloses, vars
  <2> QED BY <2>1 DEF AgeIsTime
<1> QED BY <1>1, <1>2, <1>3, <1>4 DEF Next, Test

\* One step of a smooth run, by a test that does not clash
LEMMA SmoothStep ==
  ASSUME TypeOK, TypeOK', AgeIsTime, Smooth, prompt, ~ clash', [Next]_vars
  PROVE  Smooth'
<1> DEFINE Fine(t) ==
      /\ result[t] # "failed" /\ test[t] # "close"
      /\ test[t] = "delete" => result[t] = "ok"
      /\ UnderWay(t) => connTestMap[stan[t]] = t
      /\ t \in echoes => test[t] = "wait" /\ waitChan[t] = 0
      /\ waitChan[t] = 1 => test[t] = "wait"
      /\ test[t] = "wait" => (t \in echoes \/ waitChan[t] = 1) /\ age[t] < Timeout
    Apart == \A t, u \in Tests : UnderWay(t) /\ UnderWay(u) /\ stan[t] = stan[u] => t = u
<1>1. ~ closed /\ reader = NoTest /\ (\A t \in Tests : Fine(t)) /\ Apart
  BY DEF Smooth
<1>2. ASSUME ~ closed', reader' = NoTest, \A t \in Tests : Fine(t)', Apart' PROVE Smooth'
  BY <1>2 DEF Smooth
\* A step of t that leaves its place among the keys
<1>3. ASSUME NEW t \in Tests, UNCHANGED <<stan, connTestMap, closed, reader>>, Fine(t)',
             UnderWay(t)' => UnderWay(t),
             \A u \in Tests \ {t} : /\ test'[u] = test[u] /\ result'[u] = result[u] /\ age'[u] = age[u]
                                    /\ waitChan'[u] = waitChan[u] /\ (u \in echoes' <=> u \in echoes)
      PROVE  Smooth'
  <2>1. \A u \in Tests \ {t} : Fine(u)'
    BY <1>1, <1>3 DEF UnderWay
  <2>2. Apart'
    BY <1>1, <1>3 DEF UnderWay
  <2> QED BY <1>1, <1>2, <1>3, <2>1, <2>2
<1>4. ASSUME NEW t \in Tests, Check(t) PROVE Smooth'
  <2>1. Fine(t)'
    BY <1>1, <1>4 DEF Check, UnderWay, TypeOK
  <2> QED BY <1>3, <1>4, <2>1 DEF Check, UnderWay, TypeOK
<1>5. ASSUME NEW t \in Tests, Store(t) PROVE Smooth'
  <2>1. \A u \in Tests : UnderWay(u) => stan[u] # now
    BY <1>5 DEF Store
  <2>2. now \in Keys /\ stan'[t] = now /\ connTestMap'[now] = t /\ test[t] = "store" /\ test'[t] = "write" /\ ~ UnderWay(t)
    BY <1>5 DEF Store, TypeOK, UnderWay
  <2>3. \A u \in Tests \ {t} : test'[u] = test[u] /\ stan'[u] = stan[u]
    BY <1>5 DEF Store, TypeOK
  <2>4. UNCHANGED <<result, age, waitChan, echoes, reader, closed>>
    BY <1>5 DEF Store
  <2>5. \A k \in Keys \ {now} : connTestMap'[k] = connTestMap[k]
    BY <1>5 DEF Store, TypeOK
  <2>6. Fine(t)'
    BY <1>1, <2>2, <2>4 DEF UnderWay, TypeOK
  <2>7. ASSUME NEW u \in Tests \ {t} PROVE Fine(u)'
    <3>1. UnderWay(u)' => connTestMap'[stan'[u]] = u
      BY <1>1, <2>1, <2>3, <2>5 DEF UnderWay, TypeOK
    <3> QED BY <1>1, <2>3, <2>4, <3>1
  <2>8. Apart'
    BY <1>1, <2>1, <2>2, <2>3 DEF UnderWay
  <2> QED BY <1>1, <1>2, <2>4, <2>6, <2>7, <2>8
<1>6. ASSUME NEW t \in Tests, Write(t) PROVE Smooth'
  <2>1. age[t] = 0 /\ 0 < Timeout
    BY <1>6, ConnectionTestAssumption DEF Write, AgeIsTime, ConnectionTestAssumption
  <2>2. waitChan[t] = 0
    BY <1>1, <1>6 DEF Write, TypeOK
  <2>3. Fine(t)'
    BY <1>1, <1>6, <2>1, <2>2 DEF Write, UnderWay, TypeOK
  <2> QED BY <1>3, <1>6, <2>3 DEF Write, UnderWay, TypeOK
<1>7. ASSUME NEW t \in Tests, WriteFails(t) PROVE Smooth'
  BY <1>1, <1>7 DEF WriteFails
<1>8. ASSUME NEW t \in Tests, Answered(t) PROVE Smooth'
  <2>1. test[t] = "wait" /\ waitChan[t] = 1 /\ t \notin echoes
    BY <1>1, <1>8 DEF Answered, TypeOK
  <2>2. test'[t] = "delete" /\ waitChan'[t] = 0 /\ result'[t] = "ok" /\ UNCHANGED <<stan, connTestMap, echoes>>
    BY <1>8, <2>1 DEF Answered, TypeOK
  <2>3. Fine(t)'
    BY <1>1, <2>1, <2>2 DEF UnderWay
  <2> QED BY <1>3, <1>8, <2>1, <2>3 DEF Answered, UnderWay, TypeOK
<1>9. ASSUME NEW t \in Tests, TimesOut(t) PROVE Smooth'
  <2>1. age[t] < Timeout /\ age[t] = Timeout /\ Timeout \in Nat
    BY <1>1, <1>9, ConnectionTestAssumption DEF TimesOut, ConnectionTestAssumption
  <2> QED BY <2>1
<1>10. ASSUME NEW t \in Tests, Delete(t) PROVE Smooth'
  <2>1. test[t] = "delete" /\ result[t] = "ok" /\ t \notin echoes /\ waitChan[t] # 1 /\ UnderWay(t)
    BY <1>1, <1>10 DEF Delete, UnderWay
  <2>2. UNCHANGED <<result, stan, age, waitChan, echoes, reader, closed>>
    BY <1>10 DEF Delete
  <2>3. test'[t] = "done" /\ \A u \in Tests \ {t} : test'[u] = test[u]
    BY <1>10, <2>1 DEF Delete, TypeOK
  <2>4. \A k \in Keys \ {stan[t]} : connTestMap'[k] = connTestMap[k]
    BY <1>10 DEF Delete, TypeOK
  <2>5. Fine(t)'
    BY <1>1, <2>1, <2>2, <2>3 DEF UnderWay
  <2>6. ASSUME NEW u \in Tests \ {t} PROVE Fine(u)'
    <3>1. UnderWay(u) => stan[u] # stan[t]
      BY <1>1, <2>1
    <3>2. UnderWay(u)' => connTestMap'[stan'[u]] = u
      BY <1>1, <2>2, <2>3, <2>4, <3>1 DEF UnderWay, TypeOK
    <3> QED BY <1>1, <2>2, <2>3, <3>2
  <2>7. Apart'
    BY <1>1, <2>2, <2>3 DEF UnderWay
  <2> QED BY <1>1, <1>2, <2>2, <2>5, <2>6, <2>7
<1>11. ASSUME NEW t \in Tests, CloseFailed(t) PROVE Smooth'
  BY <1>1, <1>11 DEF CloseFailed
<1>12. ASSUME NEW t \in Tests, ReadEcho(t) PROVE Smooth'
  <2>1. t \in echoes /\ test[t] = "wait" /\ waitChan[t] = 0 /\ connTestMap[stan[t]] = t /\ t # NoTest
    BY <1>1, <1>12, ConnectionTestAssumption DEF ReadEcho, UnderWay, ConnectionTestAssumption
  <2>2. waitChan' = [waitChan EXCEPT ![t] = @ + 1] /\ UNCHANGED <<reader, test, result, stan, age, connTestMap, closed>>
        /\ echoes' = echoes \ {t}
    BY <1>12, <2>1 DEF ReadEcho, ChanSize
  <2>3. waitChan'[t] = 1
    BY <2>1, <2>2 DEF TypeOK
  <2>4. Fine(t)'
    BY <1>1, <2>1, <2>2, <2>3 DEF UnderWay
  <2> QED BY <1>3, <2>2, <2>4 DEF UnderWay, TypeOK
<1>13. CASE ReaderGoesOn
  BY <1>1, <1>13 DEF ReaderGoesOn
<1>14. CASE OtherCloses
  BY <1>14 DEF OtherCloses
<1>15. CASE Tick
  <2>1. UNCHANGED <<test, result, stan, connTestMap, waitChan, reader, closed>> /\ ~ Stuck
    BY <1>1, <1>15 DEF Tick, Stuck
  <2>2. ASSUME NEW t \in Tests, test[t] = "wait" PROVE (t \in echoes' \/ waitChan[t] = 1) /\ age'[t] < Timeout
    <3>1. age[t] \in Nat /\ age[t] < Timeout /\ age'[t] = age[t] + 1 /\ Timeout \in Nat
      BY <1>1, <1>15, <2>2, ConnectionTestAssumption DEF Tick, TypeOK, ConnectionTestAssumption
    <3>2. age[t] # Timeout - 1
      BY <1>1, <1>15, <2>1, <2>2 DEF Tick
    <3>3. age'[t] < Timeout
      BY <3>1, <3>2
    <3>4. stan[t] # now'
      <4>1. now \in Nat /\ now' = (IF now + 1 = Seconds THEN 0 ELSE now + 1)
        BY <1>15, KeysType DEF Tick, TypeOK
      <4>2. now = stan[t] + age[t] \/ now + Seconds = stan[t] + age[t]
        BY <2>2 DEF AgeIsTime
      <4>3. stan[t] \in Nat /\ Seconds \in Nat /\ Seconds > Timeout + 1
        BY KeysType, ConnectionTestAssumption DEF TypeOK, ConnectionTestAssumption
      <4> QED BY <3>1, <4>1, <4>2, <4>3
    <3>5. t \in echoes => t \in echoes'
      BY <1>15, <3>4 DEF Tick
    <3> QED BY <1>1, <2>2, <3>3, <3>5
  <2>3. echoes' \subseteq echoes
    BY <1>15 DEF Tick
  <2>4. \A t \in Tests : Fine(t)'
    BY <1>1, <2>1, <2>2, <2>3 DEF UnderWay
  <2>5. Apart'
    BY <1>1, <2>1 DEF UnderWay
  <2> QED BY <1>1, <1>2, <2>1, <2>4, <2>5
<1>16. CASE UNCHANGED vars
  BY <1>1, <1>2, <1>16 DEF vars, UnderWay
<1> QED BY <1>4, <1>5, <1>6, <1>7, <1>8, <1>9, <1>10, <1>11, <1>12, <1>13, <1>14, <1>15, <1>16 DEF Next, Test

LEMMA InvStep == TypeOK /\ TypeOK' /\ IInv /\ [Next]_vars => IInv'
<1> SUFFICES ASSUME TypeOK, TypeOK', IInv, [Next]_vars PROVE IInv'
  OBVIOUS
<1>1. prompt' = prompt /\ (clash => clash')
  <2>1. ASSUME NEW t \in Tests, Test(t) PROVE prompt' = prompt /\ (clash => clash')
    <3>1. CASE Store(t)
      BY <3>1 DEF Store
    <3>2. CASE Write(t) \/ WriteFails(t) \/ Answered(t) \/ TimesOut(t)
      BY <3>2 DEF Write, WriteFails, Answered, TimesOut
    <3>3. CASE Delete(t) \/ CloseFailed(t)
      BY <3>3 DEF Delete, CloseFailed
    <3> QED BY <2>1, <3>1, <3>2, <3>3 DEF Test
  <2>2. ASSUME NEW t \in Tests, Check(t) \/ ReadEcho(t) PROVE prompt' = prompt /\ (clash => clash')
    BY <2>2 DEF Check, ReadEcho
  <2>3. CASE ReaderGoesOn \/ OtherCloses \/ Tick \/ UNCHANGED vars
    BY <2>3 DEF ReaderGoesOn, OtherCloses, Tick, vars
  <2> QED BY <2>1, <2>2, <2>3 DEF Next
<1>2. AgeIsTime'
  BY AgeStep DEF IInv
<1>3. prompt' /\ ~ clash' => Smooth'
  BY <1>1, SmoothStep DEF IInv
<1> QED BY <1>2, <1>3 DEF IInv

LEMMA InvInit == Init => IInv
  BY DEF Init, IInv, AgeIsTime, Smooth, UnderWay

\* A test closes the connection of a client that answers in time only if two tests of
\* one second have clashed.
THEOREM ClosedByClash == Spec => []PromptClosedByClash
<1>1. IInv => PromptClosedByClash
  BY DEF IInv, Smooth, PromptClosedByClash
<1>2. Init => TypeOK /\ IInv
  BY TypeInit, InvInit
<1>3. (TypeOK /\ IInv) /\ [Next]_vars => (TypeOK /\ IInv)'
  BY TypeStep, InvStep
<1> QED BY <1>1, <1>2, <1>3, PTL DEF Spec
=============================================================================
