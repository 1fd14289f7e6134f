------------------------- MODULE BatchWriterProofs --------------------------
(***************************************************************************)
(* Proofs about BatchWriter for any number of callers, calls, any queue    *)
(* size and any batch size.  The argument: Conserved locates every         *)
(* accepted write, Control ties the run goroutine's place in its loops to  *)
(* what it holds, CallerState ties a caller to its own accepted writes.    *)
(* Together with TypeOK they are inductive and imply the properties.       *)
(***************************************************************************)
EXTENDS BatchWriter, SequenceTheorems, TLAPS

\* Where run is, what it then holds and what has been closed.
Control ==
  /\ done => closeMark \in Nat /\ closeMark <= Len(accepted)
  /\ ~ done => closeMark = NotClosed
  /\ done <=> closer # "idle"
  /\ flushing => done
  /\ run = "wait" => batch = <<>> /\ ~ flushing
  /\ run = "fill" /\ batch = <<>> => flushing
  /\ run = "commit" => batch # <<>>
  /\ run = "stopped" => flushing /\ batch = <<>>

\* A caller's accepted writes are numbered upwards, up to the call it is in.
CallerState ==
  /\ \A i, j \in 1 .. Len(accepted) :
       i < j /\ accepted[i].caller = accepted[j].caller => accepted[i].n < accepted[j].n
  /\ \A i \in 1 .. Len(accepted) :
       /\ accepted[i].n <= calls[accepted[i].caller]
       /\ pc[accepted[i].caller] = "select" => accepted[i].n < calls[accepted[i].caller]

IInv ==
  /\ TypeOK
  /\ Conserved
  /\ Control
  /\ CallerState
  /\ FlushedOnClose
  /\ LateAcceptBound

-----------------------------------------------------------------------------
(* Sequences                                                               *)

\* A non-empty sequence is its head followed by its tail.
LEMMA HeadThenTail ==
  ASSUME NEW S, NEW b \in Seq(S), b # <<>>
  PROVE  \E h \in S, t \in Seq(S) : h = Head(b) /\ t = Tail(b) /\ <<h>> \o t = b
<1>1. /\ Head(b) \in S /\ Tail(b) \in Seq(S)
      /\ Len(Tail(b)) = Len(b) - 1
      /\ \A i \in 1 .. Len(Tail(b)) : Tail(b)[i] = b[i + 1]
  BY HeadTailProperties
<1>2. Head(b) = b[1]
  OBVIOUS
<1>3. Len(b) \in Nat /\ Len(b) >= 1
  BY EmptySeq, LenProperties
<1>4. PICK h \in S, t \in Seq(S), u \in Seq(S) : /\ h = Head(b) /\ t = Tail(b) /\ u = <<h>>
                                /\ Len(u) = 1 /\ u[1] = h
  <2>1. PICK h \in S, t \in Seq(S) : h = Head(b) /\ t = Tail(b)
    BY <1>1
  <2>2. <<h>> \in Seq(S) /\ Len(<<h>>) = 1 /\ <<h>>[1] = h
    OBVIOUS
  <2> QED BY <2>1, <2>2
<1>5. /\ u \o t \in Seq(S) /\ Len(u \o t) = Len(u) + Len(t)
      /\ \A i \in 1 .. Len(u) + Len(t) : (u \o t)[i] = IF i <= Len(u) THEN u[i] ELSE t[i - Len(u)]
  BY ConcatProperties
<1>6. /\ Len(u) = 1 /\ u[1] = b[1] /\ Len(t) = Len(b) - 1
      /\ \A i \in 1 .. Len(b) - 1 : t[i] = b[i + 1]
  BY <1>1, <1>2, <1>4
<1>7. PICK v \in Seq(S) : /\ v = u \o t /\ Len(v) = Len(b)
      /\ \A i \in 1 .. Len(b) : v[i] = IF i <= 1 THEN u[i] ELSE t[i - 1]
  <2>1. PICK v \in Seq(S) : /\ v = u \o t /\ Len(v) = Len(u) + Len(t)
          /\ \A i \in 1 .. Len(u) + Len(t) : v[i] = IF i <= Len(u) THEN u[i] ELSE t[i - Len(u)]
    BY <1>5
  <2>2. Len(u) + Len(t) = Len(b) /\ Len(u) = 1
    BY <1>3, <1>6
  <2> QED BY <2>1, <2>2
<1>8. ASSUME NEW i \in 1 .. Len(b) PROVE v[i] = b[i]
  <2>1. CASE i = 1
    BY <1>6, <1>7, <2>1
  <2>2. CASE i # 1
    <3>1. i - 1 \in 1 .. Len(b) - 1 /\ ~ (i <= 1) /\ (i - 1) + 1 = i
      BY <1>3, <2>2
    <3> QED BY <1>6, <1>7, <3>1
  <2> QED BY <2>1, <2>2
<1>9. v = b
  BY <1>7, <1>8, SeqEqual
<1> QED BY <1>4, <1>7, <1>9

\* A concatenation holds its first part as a prefix and its second part behind.
LEMMA ConcatParts ==
  ASSUME NEW S, NEW a \in Seq(S), NEW b \in Seq(S)
  PROVE  /\ Len(a) \in Nat /\ Len(a \o b) = Len(a) + Len(b)
         /\ \A i \in 1 .. Len(b) : (a \o b)[Len(a) + i] = b[i]
         /\ SubSeq(a \o b, 1, Len(a)) = a
<1>1. /\ a \o b \in Seq(S) /\ Len(a \o b) = Len(a) + Len(b)
      /\ \A i \in 1 .. Len(a) + Len(b) :
           (a \o b)[i] = IF i <= Len(a) THEN a[i] ELSE b[i - Len(a)]
  BY ConcatProperties
<1>2. Len(a) \in Nat /\ Len(b) \in Nat
  BY LenProperties
<1>3. ASSUME NEW i \in 1 .. Len(b) PROVE (a \o b)[Len(a) + i] = b[i]
  <2>1. /\ Len(a) + i \in 1 .. Len(a) + Len(b) /\ ~ (Len(a) + i <= Len(a))
        /\ (Len(a) + i) - Len(a) = i
    BY <1>2
  <2> QED BY <1>1, <2>1
<1>4. ASSUME NEW i \in 1 .. Len(a) PROVE (a \o b)[i] = a[i] /\ a[i] \in S
  <2>1. i \in 1 .. Len(a) + Len(b) /\ i <= Len(a)
    BY <1>2
  <2> QED BY <1>1, <2>1, ElementOfSeq
<1>5. SubSeq(a \o b, 1, Len(a)) = a
  <2> DEFINE p == SubSeq(a \o b, 1, Len(a))
  <2>1. \A i \in 1 .. Len(a) : (a \o b)[i] \in S
    BY <1>4
  <2>2. /\ p \in Seq(S) /\ Len(p) = IF 1 <= Len(a) THEN Len(a) - 1 + 1 ELSE 0
        /\ \A i \in 1 .. Len(a) - 1 + 1 : p[i] = (a \o b)[1 + i - 1]
    BY <1>2, <2>1, SubSeqProperties
  <2>3. Len(p) = Len(a) /\ \A i \in 1 .. Len(a) : p[i] = (a \o b)[i]
    BY <1>2, <2>2
  <2> HIDE DEF p
  <2>4. p = a
    BY <1>4, <2>2, <2>3, SeqEqual
  <2> QED BY <2>4 DEF p
<1> QED BY <1>1, <1>2, <1>3, <1>5

-----------------------------------------------------------------------------
(* The journal                                                             *)

\* The writes of a journal form a sequence as long as the journal.
LEMMA SettledIsSeq ==
  ASSUME NEW S, NEW T, NEW j \in Seq([op : S, applied : T])
  PROVE  LET s == [i \in 1 .. Len(j) |-> j[i].op]
         IN  s \in Seq(S) /\ Len(s) = Len(j)
<1>1. \A i \in 1 .. Len(j) : j[i] \in [op : S, applied : T]
  BY ElementOfSeq
<1>2. Len(j) \in Nat /\ \A i \in 1 .. Len(j) : j[i].op \in S
  BY <1>1
<1> QED BY <1>2

\* Taking the writes of a journal commutes with concatenation.
LEMMA SettledConcat ==
  ASSUME NEW S, NEW T, NEW j \in Seq([op : S, applied : T]), NEW k \in Seq([op : S, applied : T])
  PROVE  [i \in 1 .. Len(j \o k) |-> (j \o k)[i].op] =
           [i \in 1 .. Len(j) |-> j[i].op] \o [i \in 1 .. Len(k) |-> k[i].op]
<1>1. PICK s \in Seq(S) : /\ s = [i \in 1 .. Len(j) |-> j[i].op] /\ Len(s) = Len(j)
                         /\ \A i \in 1 .. Len(j) : s[i] = j[i].op
  <2>1. /\ [i \in 1 .. Len(j) |-> j[i].op] \in Seq(S)
        /\ Len([i \in 1 .. Len(j) |-> j[i].op]) = Len(j)
    BY SettledIsSeq
  <2> QED BY <2>1
<1>2. PICK t \in Seq(S) : /\ t = [i \in 1 .. Len(k) |-> k[i].op] /\ Len(t) = Len(k)
                         /\ \A i \in 1 .. Len(k) : t[i] = k[i].op
  <2>1. /\ [i \in 1 .. Len(k) |-> k[i].op] \in Seq(S)
        /\ Len([i \in 1 .. Len(k) |-> k[i].op]) = Len(k)
    BY SettledIsSeq
  <2> QED BY <2>1
<1>3. PICK jk \in Seq([op : S, applied : T]) :
         /\ jk = j \o k /\ Len(jk) = Len(j) + Len(k)
         /\ \A i \in 1 .. Len(j) + Len(k) : jk[i] = IF i <= Len(j) THEN j[i] ELSE k[i - Len(j)]
  <2>1. /\ j \o k \in Seq([op : S, applied : T]) /\ Len(j \o k) = Len(j) + Len(k)
        /\ \A i \in 1 .. Len(j) + Len(k) :
             (j \o k)[i] = IF i <= Len(j) THEN j[i] ELSE k[i - Len(j)]
    BY ConcatProperties
  <2> QED BY <2>1
<1>4. Len(j) \in Nat /\ Len(k) \in Nat
  BY LenProperties
<1>5. PICK st \in Seq(S) : /\ st = [i \in 1 .. Len(jk) |-> jk[i].op] /\ Len(st) = Len(jk)
                          /\ \A i \in 1 .. Len(jk) : st[i] = jk[i].op
  <2>1. /\ [i \in 1 .. Len(jk) |-> jk[i].op] \in Seq(S)
        /\ Len([i \in 1 .. Len(jk) |-> jk[i].op]) = Len(jk)
    BY SettledIsSeq
  <2> QED BY <2>1
<1>6. /\ s \o t \in Seq(S) /\ Len(s \o t) = Len(s) + Len(t)
      /\ \A i \in 1 .. Len(s) + Len(t) : (s \o t)[i] = IF i <= Len(s) THEN s[i] ELSE t[i - Len(s)]
  BY ConcatProperties
<1>7. ASSUME NEW i \in 1 .. Len(st) PROVE st[i] = (s \o t)[i]
  <2>0. i \in 1 .. Len(j) + Len(k)
    BY <1>3, <1>5
  <2>1. CASE i <= Len(j)
    <3>1. i \in 1 .. Len(j)
      BY <1>4, <2>0, <2>1
    <3>2. st[i] = j[i].op
      BY <1>3, <1>5, <2>0, <2>1
    <3>3. (s \o t)[i] = s[i]
      BY <1>1, <1>2, <1>6, <2>0, <2>1
    <3> QED BY <1>1, <3>1, <3>2, <3>3
  <2>2. CASE ~ (i <= Len(j))
    <3>1. i - Len(j) \in 1 .. Len(k)
      BY <1>4, <2>0, <2>2
    <3>2. st[i] = k[i - Len(j)].op
      BY <1>3, <1>5, <2>0, <2>2
    <3>3. (s \o t)[i] = t[i - Len(j)]
      BY <1>1, <1>2, <1>6, <2>0, <2>2
    <3> QED BY <1>2, <3>1, <3>2, <3>3
  <2> QED BY <2>1, <2>2
<1>8. Len(s \o t) = Len(st)
  BY <1>1, <1>2, <1>3, <1>5, <1>6
<1>9. st = s \o t
  BY <1>6, <1>7, <1>8, SeqEqual
<1> QED BY <1>1, <1>2, <1>3, <1>5, <1>9

\* What commit adds to the journal for a batch, whatever the outcomes.
LEMMA OutcomesOfBatch ==
  ASSUME NEW S, NEW T, NEW b \in Seq(S), NEW o \in [1 .. Len(b) -> T]
  PROVE  LET new == [i \in 1 .. Len(b) |-> [op |-> b[i], applied |-> o[i]]]
         IN  /\ new \in Seq([op : S, applied : T]) /\ Len(new) = Len(b)
             /\ [i \in 1 .. Len(new) |-> new[i].op] = b
<1> DEFINE new == [i \in 1 .. Len(b) |-> [op |-> b[i], applied |-> o[i]]]
<1>1. new \in Seq([op : S, applied : T]) /\ Len(new) = Len(b)
  OBVIOUS
<1>2. \A i \in 1 .. Len(b) : new[i].op = b[i]
  OBVIOUS
<1>3. [i \in 1 .. Len(b) |-> new[i].op] = b
  BY <1>2
<1> QED BY <1>1, <1>3

Outcome == [op : Op, applied : BOOLEAN]

\* A commit moves the whole batch, in order, to the end of the journal.
LEMMA CommitSettles ==
  ASSUME TypeOK, Commit
  PROVE  \E new \in Seq(Outcome) :
           /\ journal' = journal \o new
           /\ Len(new) = Len(batch)
           /\ \A i \in 1 .. Len(batch) : new[i] \in [op : {batch[i]}, applied : BOOLEAN]
           /\ journal' \in Seq(Outcome)
           /\ Settled' = Settled \o batch
<1>1. PICK outcome \in [1 .. Len(batch) -> BOOLEAN] :
        journal' = journal \o
          [i \in 1 .. Len(batch) |-> [op |-> batch[i], applied |-> outcome[i]]]
  BY DEF Commit, Journalled
<1> DEFINE new == [i \in 1 .. Len(batch) |-> [op |-> batch[i], applied |-> outcome[i]]]
<1>2. batch \in Seq(Op) /\ journal \in Seq(Outcome)
  BY DEF TypeOK, Outcome
<1>3. /\ new \in Seq(Outcome) /\ Len(new) = Len(batch)
      /\ [i \in 1 .. Len(new) |-> new[i].op] = batch
  BY <1>2, OutcomesOfBatch DEF Outcome
<1>4. \A i \in 1 .. Len(batch) : new[i] \in [op : {batch[i]}, applied : BOOLEAN]
  OBVIOUS
<1>5. journal' = journal \o new
  BY <1>1
<1> HIDE DEF new
<1>6. journal' \in Seq(Outcome)
  BY <1>2, <1>3, <1>5, ConcatProperties
<1>7. [i \in 1 .. Len(journal') |-> journal'[i].op] = Settled \o batch
  BY <1>2, <1>3, <1>5, SettledConcat DEF Settled, Outcome
<1>8. Settled' = Settled \o batch
  BY <1>7 DEF Settled
<1> QED BY <1>3, <1>4, <1>5, <1>6, <1>8

-----------------------------------------------------------------------------
(* Type correctness                                                        *)

LEMMA TypeInit == Init => TypeOK
<1> SUFFICES ASSUME Init PROVE TypeOK
  OBVIOUS
<1>1. /\ <<>> \in Seq(Op) /\ <<>> \in Seq([op : Op, applied : BOOLEAN])
      /\ Len(<<>>) = 0
  BY EmptySeq
<1>2. /\ writes \in Seq(Op) /\ batch \in Seq(Op) /\ accepted \in Seq(Op)
      /\ journal \in Seq([op : Op, applied : BOOLEAN])
      /\ Len(writes) = 0 /\ Len(batch) = 0
  BY <1>1 DEF Init
<1>3. pc \in [Callers -> {"idle", "select"}] /\ \A p \in Callers : pc[p] = "idle"
  BY DEF Init
<1>4. calls \in [Callers -> 0 .. MaxCalls]
  BY BatchWriterAssumption DEF Init
<1>5. /\ Len(writes) <= QueueSize /\ Len(batch) <= MaxBatch
      /\ \A p \in Callers : pc[p] = "select" => calls[p] >= 1
  BY <1>2, <1>3, BatchWriterAssumption
<1>6. /\ done \in BOOLEAN /\ flushing \in BOOLEAN
      /\ run \in {"wait", "fill", "commit", "stopped"}
      /\ closer \in {"idle", "waiting", "returned"}
      /\ closeMark \in Nat \cup {NotClosed}
  BY DEF Init
<1> QED BY <1>2, <1>3, <1>4, <1>5, <1>6 DEF TypeOK

LEMMA TypeStep == TypeOK /\ [Next]_vars => TypeOK'
<1> SUFFICES ASSUME TypeOK, [Next]_vars PROVE TypeOK'
  OBVIOUS
<1> USE BatchWriterAssumption
<1>1. ASSUME NEW p \in Callers, EnqueueCheck(p) PROVE TypeOK'
  BY <1>1 DEF TypeOK, EnqueueCheck, runVars, closeVars
<1>2. ASSUME NEW p \in Callers, EnqueueSend(p) PROVE TypeOK'
  <2>1. [caller |-> p, n |-> calls[p]] \in Op
    BY <1>2 DEF TypeOK, EnqueueSend, Op
  <2> QED BY <1>2, <2>1 DEF TypeOK, EnqueueSend, runVars, closeVars
<1>3. ASSUME NEW p \in Callers, EnqueueClosed(p) PROVE TypeOK'
  BY <1>3 DEF TypeOK, EnqueueClosed, runVars, closeVars
<1>4. CASE Receive
  BY <1>4 DEF TypeOK, Receive, callerVars, closeVars
<1>5. CASE SeeDone
  BY <1>5 DEF TypeOK, SeeDone, callerVars, closeVars
<1>6. CASE Fill
  BY <1>6 DEF TypeOK, Fill, CanFill, callerVars, closeVars
<1>7. CASE EndFill
  BY <1>7 DEF TypeOK, EndFill, callerVars, closeVars
<1>8. CASE Commit
  <2>1. journal' \in Seq([op : Op, applied : BOOLEAN])
    BY <1>8, CommitSettles DEF Outcome
  <2>2. run' \in {"wait", "fill", "commit", "stopped"}
    BY <1>8 DEF Commit, AfterCommit
  <2>3. batch' \in Seq(Op) /\ Len(batch') <= MaxBatch
    BY <1>8, BatchWriterAssumption DEF Commit
  <2> QED BY <1>8, <2>1, <2>2, <2>3 DEF TypeOK, Commit, callerVars, closeVars
<1>9. CASE CloseDone
  BY <1>9 DEF TypeOK, CloseDone, runVars, callerVars
<1>10. CASE CloseReturn
  BY <1>10 DEF TypeOK, CloseReturn, runVars, callerVars
<1>11. CASE UNCHANGED vars
  BY <1>11 DEF TypeOK, vars, runVars, callerVars, closeVars
<1> QED
  BY <1>1, <1>2, <1>3, <1>4, <1>5, <1>6, <1>7, <1>8, <1>9, <1>10, <1>11
     DEF Next, Enqueue, Run, Close, Terminated

\* The variables keep their types; in particular the channel and the batch stay
\* within writeQueueSize and maxBatchSize.
THEOREM TypeCorrect == Spec => []TypeOK
<1> QED BY TypeInit, TypeStep, PTL DEF Spec

-----------------------------------------------------------------------------
(* The parts of the inductive invariant, each preserved by every step.     *)

LEMMA ConservedStep == TypeOK /\ Control /\ Conserved /\ [Next]_vars => Conserved'
<1> SUFFICES ASSUME TypeOK, Control, Conserved, [Next]_vars PROVE Conserved'
  OBVIOUS
<1>0. Settled \in Seq(Op) /\ accepted = Settled \o batch \o writes
  BY SettledIsSeq DEF TypeOK, Settled, Conserved
<1>t. batch \in Seq(Op) /\ writes \in Seq(Op)
  BY DEF TypeOK
<1>1. CASE UNCHANGED <<accepted, journal, batch, writes>>
  BY <1>1 DEF Conserved, Settled
<1>2. ASSUME NEW p \in Callers, EnqueueSend(p) PROVE Conserved'
  <2> DEFINE o == [caller |-> p, n |-> calls[p]]
  <2>0. o \in Op
    BY <1>2 DEF EnqueueSend, TypeOK, Op
  <2>1. PICK op \in Seq(Op) : accepted' = accepted \o op /\ writes' = writes \o op
    <3>1. /\ Append(accepted, o) = accepted \o <<o>> /\ Append(writes, o) = writes \o <<o>>
          /\ <<o>> \in Seq(Op)
      BY <2>0, <1>t, AppendIsConcat DEF TypeOK
    <3> QED BY <1>2, <3>1 DEF EnqueueSend
  <2>2. Settled' = Settled /\ batch' = batch
    BY <1>2 DEF EnqueueSend, runVars, Settled
  <2>3. PICK x \in Seq(Op) : x = Settled \o batch
    BY <1>0, <1>t, ConcatProperties
  <2>4. (x \o writes) \o op = x \o (writes \o op)
    BY <1>t, ConcatAssociative
  <2> QED BY <1>0, <2>1, <2>2, <2>3, <2>4 DEF Conserved
<1>3. ASSUME Receive \/ Fill PROVE Conserved'
  <2>w. writes # <<>>
    BY <1>3 DEF Receive, Fill, CanFill
  <2>1. /\ batch' = Append(batch, Head(writes)) /\ writes' = Tail(writes)
        /\ accepted' = accepted /\ Settled' = Settled
    <3>1. CASE Receive
      <4>1. batch = <<>> /\ batch' = <<Head(writes)>>
        BY <3>1 DEF Receive, Control
      <4> QED BY <3>1, <4>1, <1>t, <2>w DEF Receive, callerVars, Settled
    <3>2. CASE Fill
      BY <3>2 DEF Fill, CanFill, callerVars, Settled
    <3> QED BY <1>3, <3>1, <3>2
  <2>2. PICK h \in Op, t \in Seq(Op) : h = Head(writes) /\ t = Tail(writes) /\ <<h>> \o t = writes
    BY <1>t, <2>w, HeadThenTail
  <2>3. batch' = batch \o <<h>> /\ <<h>> \in Seq(Op)
    BY <1>t, <2>1, <2>2, AppendIsConcat
  <2>4. PICK x \in Seq(Op), u \in Seq(Op) : x = Settled /\ u = <<h>>
    BY <1>0, <2>3
  <2>5. x \o (batch \o u) \o t = x \o batch \o (u \o t)
    <3>1. PICK b \in Seq(Op) : b = batch
      BY <1>t
    <3>2. (x \o b) \o u = x \o (b \o u)
      BY ConcatAssociative
    <3>3. PICK m \in Seq(Op) : m = x \o b
      BY ConcatProperties
    <3>4. (m \o u) \o t = m \o (u \o t)
      BY ConcatAssociative
    <3> QED BY <3>1, <3>2, <3>3, <3>4
  <2> QED BY <1>0, <2>1, <2>2, <2>3, <2>4, <2>5 DEF Conserved
<1>4. CASE Commit
  <2>1. /\ Settled' = Settled \o batch /\ batch' = <<>>
        /\ writes' = writes /\ accepted' = accepted
    BY <1>4, CommitSettles DEF Commit, callerVars
  <2>2. PICK x \in Seq(Op) : x = Settled \o batch
    BY <1>0, <1>t, ConcatProperties
  <2>3. x \o <<>> = x
    BY ConcatEmptySeq
  <2> QED BY <1>0, <2>1, <2>2, <2>3 DEF Conserved
<1>5. CASE SeeDone
  BY <1>5 DEF SeeDone, callerVars, Control, Conserved, Settled
<1>6. CASE EndFill \/ Close \/ Terminated \/ UNCHANGED vars
         \/ \E p \in Callers : EnqueueCheck(p) \/ EnqueueClosed(p)
  BY <1>1, <1>6 DEF EndFill, Close, CloseDone, CloseReturn, Terminated, EnqueueCheck,
       EnqueueClosed, vars, runVars, callerVars, closeVars
<1> QED BY <1>2, <1>3, <1>4, <1>5, <1>6 DEF Next, Enqueue, Run

\* How many accepted writes are where: the form in which Conserved is used.
LEMMA Counted ==
  ASSUME TypeOK, Conserved
  PROVE  /\ Len(accepted) = Len(journal) + Len(batch) + Len(writes)
         /\ \A i \in 1 .. Len(journal) : journal[i].op = accepted[i]
         /\ \A i \in 1 .. Len(batch) : batch[i] = accepted[Len(journal) + i]
<1>1. PICK x \in Seq(Op) : /\ x = Settled /\ Len(x) = Len(journal)
                           /\ \A i \in 1 .. Len(journal) : x[i] = journal[i].op
  <2>1. Settled \in Seq(Op) /\ Len(Settled) = Len(journal)
    BY SettledIsSeq DEF TypeOK, Settled
  <2>2. \A i \in 1 .. Len(journal) : Settled[i] = journal[i].op
    BY DEF Settled
  <2> QED BY <2>1, <2>2
<1>t. batch \in Seq(Op) /\ writes \in Seq(Op)
  BY DEF TypeOK
<1>2. accepted = x \o batch \o writes
  BY <1>1 DEF Conserved
<1>3. /\ Len(x \o batch \o writes) = Len(x) + Len(batch) + Len(writes)
      /\ \A i \in 1 .. Len(x) : (x \o batch \o writes)[i] = x[i]
      /\ \A i \in 1 .. Len(batch) : (x \o batch \o writes)[Len(x) + i] = batch[i]
  <2>1. /\ x \o batch \in Seq(Op) /\ Len(x \o batch) = Len(x) + Len(batch)
        /\ \A i \in 1 .. Len(x) + Len(batch) :
             (x \o batch)[i] = IF i <= Len(x) THEN x[i] ELSE batch[i - Len(x)]
    BY <1>t, ConcatProperties
  <2>2. /\ Len(x \o batch \o writes) = Len(x \o batch) + Len(writes)
        /\ \A i \in 1 .. Len(x \o batch) + Len(writes) :
             (x \o batch \o writes)[i] =
               IF i <= Len(x \o batch) THEN (x \o batch)[i] ELSE writes[i - Len(x \o batch)]
    BY <1>t, <2>1, ConcatProperties
  <2>3. Len(x) \in Nat /\ Len(batch) \in Nat /\ Len(writes) \in Nat
    BY <1>t, LenProperties
  <2>4. ASSUME NEW i \in 1 .. Len(x) + Len(batch)
        PROVE  (x \o batch \o writes)[i] = (x \o batch)[i]
    BY <2>1, <2>2, <2>3
  <2>5. ASSUME NEW i \in 1 .. Len(x) PROVE (x \o batch \o writes)[i] = x[i]
    BY <2>1, <2>3, <2>4
  <2>6. ASSUME NEW i \in 1 .. Len(batch) PROVE (x \o batch \o writes)[Len(x) + i] = batch[i]
    <3>1. /\ Len(x) + i \in 1 .. Len(x) + Len(batch) /\ ~ (Len(x) + i <= Len(x))
          /\ (Len(x) + i) - Len(x) = i
      BY <2>3
    <3> QED BY <2>1, <2>4, <3>1
  <2> QED BY <2>1, <2>2, <2>5, <2>6
<1> QED BY <1>1, <1>2, <1>3

\* What each step does to the writes accepted: nothing, or one more at the end.
LEMMA AcceptedGrows ==
  ASSUME TypeOK, [Next]_vars
  PROVE  /\ accepted' = accepted \/ \E p \in Callers : EnqueueSend(p)
         /\ Len(accepted') >= Len(accepted) /\ Len(accepted) \in Nat
<1>1. CASE accepted' = accepted
  BY <1>1 DEF TypeOK
<1>2. ASSUME NEW p \in Callers, EnqueueSend(p)
      PROVE  Len(accepted') = Len(accepted) + 1 /\ Len(accepted) \in Nat
  BY <1>2 DEF EnqueueSend, TypeOK
<1>3. accepted' = accepted \/ \E p \in Callers : EnqueueSend(p)
  BY DEF Next, Enqueue, Run, Close, Terminated, vars, EnqueueCheck, EnqueueClosed, Receive,
         SeeDone, Fill, EndFill, Commit, CloseDone, CloseReturn, callerVars
<1> QED BY <1>1, <1>2, <1>3

LEMMA ControlStep == TypeOK /\ Control /\ [Next]_vars => Control'
<1> SUFFICES ASSUME TypeOK, Control, [Next]_vars PROVE Control'
  OBVIOUS
<1>g. Len(accepted') >= Len(accepted) /\ Len(accepted) \in Nat /\ Len(accepted') \in Nat
  BY AcceptedGrows, TypeStep DEF TypeOK
<1>1. CASE \E p \in Callers : Enqueue(p)
  <2>1. UNCHANGED <<runVars, closeVars>>
    BY <1>1 DEF Enqueue, EnqueueCheck, EnqueueSend, EnqueueClosed
  <2> QED BY <2>1, <1>g DEF Control, runVars, closeVars, TypeOK
<1>2. CASE Receive \/ Fill
  <2>1. batch' # <<>>
    <3>1. CASE Receive
      BY <3>1 DEF Receive
    <3>2. CASE Fill
      <4>1. batch \in Seq(Op) /\ Head(writes) \in Op
        BY <3>2, HeadTailProperties DEF Fill, CanFill, TypeOK
      <4> QED BY <3>2, <4>1, AppendProperties DEF Fill
    <3> QED BY <1>2, <3>1, <3>2
  <2> QED BY <1>2, <2>1 DEF Control, Receive, Fill, callerVars, closeVars
<1>3. CASE SeeDone
  BY <1>3 DEF Control, SeeDone, callerVars, closeVars
<1>4. CASE EndFill
  BY <1>4 DEF Control, EndFill, callerVars, closeVars
<1>5. CASE Commit
  BY <1>5 DEF Control, Commit, AfterCommit, callerVars, closeVars
<1>6. CASE Close
  BY <1>6, <1>g DEF Control, Close, CloseDone, CloseReturn, runVars, callerVars
<1>7. CASE Terminated \/ UNCHANGED vars
  BY <1>7 DEF Control, Terminated, vars, runVars, callerVars, closeVars
<1> QED BY <1>1, <1>2, <1>3, <1>4, <1>5, <1>6, <1>7 DEF Next, Run

\* The flush loop stops only with an empty batch and an empty channel: then the
\* journal holds every accepted write.
LEMMA FlushedStep ==
  TypeOK /\ Control /\ Conserved /\ FlushedOnClose /\ [Next]_vars => FlushedOnClose'
<1> SUFFICES ASSUME TypeOK, Control, Conserved, FlushedOnClose, [Next]_vars, finished'
             PROVE  Len(journal') >= closeMark'
  BY DEF FlushedOnClose
<1>1. CASE EndFill
  <2>1. batch = <<>> /\ ~ CanFill
    BY <1>1 DEF EndFill, finished
  <2>2. writes = <<>>
    BY <2>1, BatchWriterAssumption DEF CanFill
  <2>3. Len(accepted) = Len(journal)
    BY <2>1, <2>2, Counted DEF TypeOK
  <2>4. done /\ closeMark \in Nat /\ closeMark <= Len(accepted)
    BY <1>1, <2>1 DEF Control, EndFill
  <2> QED BY <1>1, <2>3, <2>4 DEF EndFill, closeVars, TypeOK
<1>2. CASE ~ EndFill
  <2>1. run = "stopped" /\ journal' = journal
    BY <1>2 DEF Next, Enqueue, Run, Close, Terminated, vars, EnqueueCheck, EnqueueSend,
       EnqueueClosed, Receive, SeeDone, Fill, Commit, AfterCommit, CloseDone, CloseReturn, runVars, finished
  <2>2. done
    BY <2>1 DEF Control
  <2>3. closeMark' = closeMark
    BY <2>1, <2>2 DEF Next, Enqueue, Run, Close, Terminated, vars, EnqueueCheck, EnqueueSend,
       EnqueueClosed, Receive, SeeDone, Fill, EndFill, Commit, CloseDone, CloseReturn, closeVars,
       Control
  <2> QED BY <2>1, <2>3 DEF FlushedOnClose, finished
<1> QED BY <1>1, <1>2

\* A send appends [caller |-> p, n |-> calls[p]] to the accepted writes.
LEMMA SendAppends ==
  ASSUME TypeOK, NEW p \in Callers, EnqueueSend(p)
  PROVE  /\ Len(accepted') = Len(accepted) + 1 /\ Len(accepted) \in Nat
         /\ \A i \in 1 .. Len(accepted) : accepted'[i] = accepted[i]
         /\ accepted'[Len(accepted) + 1].caller = p /\ accepted'[Len(accepted) + 1].n = calls[p]
         /\ \A i \in 1 .. Len(accepted) : accepted[i].caller \in Callers /\ accepted[i].n \in Nat
         /\ \A q \in Callers : pc'[q] = IF q = p THEN "idle" ELSE pc[q]
         /\ pc[p] = "select" /\ calls[p] \in Nat /\ calls' = calls
<1> DEFINE op == [caller |-> p, n |-> calls[p]]
<1>1. accepted \in Seq(Op) /\ op \in Op /\ accepted' = Append(accepted, op)
  BY DEF EnqueueSend, TypeOK, Op
<1>2. \A i \in 1 .. Len(accepted) : accepted[i] \in Op
  BY <1>1, ElementOfSeq
<1>3. \A i \in 1 .. Len(accepted) : accepted[i].caller \in Callers /\ accepted[i].n \in Nat
  BY <1>2 DEF Op
<1> HIDE DEF op
<1>4. /\ Len(accepted') = Len(accepted) + 1 /\ Len(accepted) \in Nat
      /\ \A i \in 1 .. Len(accepted) : accepted'[i] = accepted[i]
      /\ accepted'[Len(accepted) + 1] = op
  BY <1>1
<1>5. op.caller = p /\ op.n = calls[p]
  BY DEF op
<1>6. /\ \A q \in Callers : pc'[q] = IF q = p THEN "idle" ELSE pc[q]
      /\ pc[p] = "select" /\ calls' = calls
  BY DEF EnqueueSend, TypeOK
<1>7. calls[p] \in Nat
  BY BatchWriterAssumption DEF TypeOK
<1> QED BY <1>3, <1>4, <1>5, <1>6, <1>7

LEMMA CallerStep == TypeOK /\ CallerState /\ [Next]_vars => CallerState'
<1> SUFFICES ASSUME TypeOK, CallerState, [Next]_vars PROVE CallerState'
  OBVIOUS
<1>0. \A i \in 1 .. Len(accepted) : accepted[i].caller \in Callers /\ accepted[i].n \in Nat
  <2>1. \A i \in 1 .. Len(accepted) : accepted[i] \in Op
    BY ElementOfSeq DEF TypeOK
  <2> QED BY <2>1 DEF Op
<1>1. ASSUME NEW p \in Callers, EnqueueSend(p) PROVE CallerState'
  <2> DEFINE m == Len(accepted)
  <2>0. /\ Len(accepted') = m + 1 /\ m \in Nat
        /\ \A i \in 1 .. m : accepted'[i] = accepted[i]
        /\ accepted'[m + 1].caller = p /\ accepted'[m + 1].n = calls[p]
        /\ \A i \in 1 .. m : accepted[i].caller \in Callers /\ accepted[i].n \in Nat
        /\ \A q \in Callers : pc'[q] = IF q = p THEN "idle" ELSE pc[q]
        /\ pc[p] = "select" /\ calls[p] \in Nat /\ calls' = calls
    BY <1>1, SendAppends
  <2>1. ASSUME NEW i \in 1 .. m + 1, NEW j \in 1 .. m + 1, i < j,
               accepted'[i].caller = accepted'[j].caller
        PROVE  accepted'[i].n < accepted'[j].n
    <3>1. CASE j <= m
      BY <2>0, <2>1, <3>1 DEF CallerState
    <3>2. CASE j = m + 1
      <4>1. i \in 1 .. m /\ accepted'[i] = accepted[i] /\ accepted[i].caller = p
        BY <2>0, <2>1, <3>2
      <4>2. accepted[i].n < calls[p]
        BY <2>0, <4>1 DEF CallerState
      <4> QED BY <2>0, <3>2, <4>1, <4>2
    <3> QED BY <2>0, <3>1, <3>2
  <2>2. ASSUME NEW i \in 1 .. m + 1
        PROVE  /\ accepted'[i].n <= calls'[accepted'[i].caller]
               /\ pc'[accepted'[i].caller] = "select" => accepted'[i].n < calls'[accepted'[i].caller]
    <3>1. CASE i \in 1 .. m
      BY <2>0, <3>1 DEF CallerState
    <3>2. CASE i = m + 1
      BY <2>0, <3>2
    <3> QED BY <2>0, <3>1, <3>2
  <2> QED BY <2>0, <2>1, <2>2 DEF CallerState
<1>2. ASSUME NEW p \in Callers, EnqueueCheck(p) PROVE CallerState'
  <2>1. /\ accepted' = accepted /\ calls[p] \in Nat /\ calls'[p] = calls[p] + 1
        /\ \A q \in Callers : q # p => calls'[q] = calls[q] /\ pc'[q] = pc[q]
    BY <1>2 DEF EnqueueCheck, TypeOK
  <2>2. ASSUME NEW i \in 1 .. Len(accepted)
        PROVE  /\ accepted[i].n <= calls'[accepted[i].caller]
               /\ pc'[accepted[i].caller] = "select" => accepted[i].n < calls'[accepted[i].caller]
    <3> DEFINE q == accepted[i].caller
    <3>0. q \in Callers /\ accepted[i].n \in Nat
      BY <1>0
    <3>1. accepted[i].n <= calls[q] /\ (pc[q] = "select" => accepted[i].n < calls[q])
      BY DEF CallerState
    <3>2. CASE q = p
      <4>1. calls'[q] = calls[q] + 1 /\ calls[q] \in Nat
        BY <2>1, <3>2
      <4> QED BY <3>0, <3>1, <4>1
    <3>3. CASE q # p
      <4>1. calls'[q] = calls[q] /\ pc'[q] = pc[q]
        BY <2>1, <3>0, <3>3
      <4> QED BY <3>1, <4>1
    <3> QED BY <3>2, <3>3
  <2> QED BY <2>1, <2>2 DEF CallerState
<1>3. ASSUME NEW p \in Callers, EnqueueClosed(p) PROVE CallerState'
  <2>1. /\ accepted' = accepted /\ calls' = calls
        /\ \A q \in Callers : pc'[q] = "select" => pc[q] = "select"
    BY <1>3 DEF EnqueueClosed, TypeOK
  <2> QED BY <1>0, <2>1 DEF CallerState
<1>4. CASE UNCHANGED callerVars
  BY <1>4 DEF CallerState, callerVars
<1>5. CASE Run \/ Close \/ Terminated \/ UNCHANGED vars
  BY <1>4, <1>5 DEF Run, Receive, SeeDone, Fill, EndFill, Commit, Close, CloseDone, CloseReturn,
       Terminated, vars
<1> QED BY <1>1, <1>2, <1>3, <1>5 DEF Next, Enqueue

LEMMA LateStep ==
  TypeOK /\ Control /\ LateAcceptBound /\ [Next]_vars => LateAcceptBound'
<1> SUFFICES ASSUME TypeOK, Control, LateAcceptBound, [Next]_vars PROVE LateAcceptBound'
  OBVIOUS
<1>1. ASSUME NEW p \in Callers, EnqueueSend(p) PROVE LateAcceptBound'
  <2> DEFINE m == Len(accepted)
  <2>0. /\ Len(accepted') = m + 1 /\ m \in Nat
        /\ \A i \in 1 .. m : accepted'[i] = accepted[i]
        /\ accepted'[m + 1].caller = p /\ accepted'[m + 1].n = calls[p]
        /\ \A i \in 1 .. m : accepted[i].caller \in Callers /\ accepted[i].n \in Nat
        /\ \A q \in Callers : pc'[q] = IF q = p THEN "idle" ELSE pc[q]
        /\ pc[p] = "select" /\ calls[p] \in Nat /\ calls' = calls
    BY <1>1, SendAppends
  <2>1. done' = done /\ closeMark' = closeMark
    BY <1>1 DEF EnqueueSend, closeVars
  <2> SUFFICES ASSUME done
               PROVE  /\ \A i, j \in closeMark + 1 .. m + 1 :
                           accepted'[i].caller = accepted'[j].caller => i = j
                      /\ \A q \in Callers : pc'[q] = "select" =>
                           \A i \in closeMark + 1 .. m + 1 : accepted'[i].caller # q
    BY <2>0, <2>1 DEF LateAcceptBound
  <2>2. closeMark \in Nat /\ closeMark <= m /\ m \in Nat
    BY <2>0 DEF Control
  <2>3. \A i \in closeMark + 1 .. m : i \in 1 .. m /\ accepted'[i] = accepted[i] /\ accepted[i].caller # p
    BY <2>0, <2>2 DEF LateAcceptBound
  <2>4. accepted'[m + 1].caller = p /\ pc'[p] # "select"
    BY <2>0
  <2>5. \A i, j \in closeMark + 1 .. m + 1 : accepted'[i].caller = accepted'[j].caller => i = j
    BY <2>2, <2>3, <2>4 DEF LateAcceptBound
  <2>6. \A q \in Callers : pc'[q] = "select" =>
          \A i \in closeMark + 1 .. m + 1 : accepted'[i].caller # q
    BY <2>0, <2>2, <2>3, <2>4 DEF LateAcceptBound
  <2> QED BY <2>5, <2>6
<1>2. ASSUME NEW p \in Callers, EnqueueCheck(p) \/ EnqueueClosed(p) PROVE LateAcceptBound'
  <2>1. /\ UNCHANGED <<done, closeMark, accepted>>
        /\ done => \A q \in Callers : pc'[q] = "select" => pc[q] = "select"
    BY <1>2 DEF EnqueueCheck, EnqueueClosed, closeVars, TypeOK
  <2> QED BY <2>1 DEF LateAcceptBound
<1>3. CASE CloseDone
  <2>1. closeMark' = Len(accepted) /\ accepted' = accepted /\ Len(accepted) \in Nat
    BY <1>3 DEF CloseDone, callerVars, TypeOK
  <2> QED BY <2>1 DEF LateAcceptBound
<1>4. CASE UNCHANGED <<done, closeMark, accepted, pc>>
  BY <1>4 DEF LateAcceptBound
<1>5. CASE Run \/ CloseReturn \/ Terminated \/ UNCHANGED vars
  BY <1>4, <1>5 DEF Run, Receive, SeeDone, Fill, EndFill, Commit, CloseReturn, Terminated, vars,
       callerVars, closeVars
<1> QED BY <1>1, <1>2, <1>3, <1>5 DEF Next, Enqueue, Close

-----------------------------------------------------------------------------
(* The invariant and what follows from it                                  *)

LEMMA InvInit == Init => IInv
<1> SUFFICES ASSUME Init PROVE IInv
  OBVIOUS
<1>1. TypeOK
  BY TypeInit
<1>2. Len(accepted) = 0 /\ Len(journal) = 0
  BY EmptySeq DEF Init
<1>3. Conserved
  <2>1. Settled = <<>>
    BY <1>2 DEF Settled
  <2> QED BY <2>1 DEF Init, Conserved
<1>4. Control /\ FlushedOnClose /\ LateAcceptBound
  BY DEF Init, Control, FlushedOnClose, LateAcceptBound, finished
<1>5. CallerState
  BY <1>2 DEF CallerState
<1> QED BY <1>1, <1>3, <1>4, <1>5 DEF IInv

LEMMA InvStep == IInv /\ [Next]_vars => IInv'
BY TypeStep, ConservedStep, ControlStep, CallerStep, FlushedStep, LateStep DEF IInv

THEOREM Invariance == Spec => []IInv
<1> QED BY InvInit, InvStep, PTL DEF Spec

\* No accepted write is lost, doubled or reordered on its way from enqueue to
\* commit, for any number of goroutines, any queue and any batch size.
THEOREM Conservation == Spec => []Conserved
<1>1. IInv => Conserved
  BY DEF IInv
<1> QED BY <1>1, Invariance, PTL

\* A goroutine's writes are settled in the order in which it queued them: a
\* request's INSERT before its response's UPDATE.
THEOREM CallerOrder == Spec => []AppliedInOrder
<1>1. IInv => AppliedInOrder
  <2> SUFFICES ASSUME IInv, NEW i \in 1 .. Len(journal), NEW j \in 1 .. Len(journal),
                      i < j, journal[i].op.caller = journal[j].op.caller
               PROVE  journal[i].op.n < journal[j].op.n
    BY DEF AppliedInOrder
  <2>1. /\ Len(accepted) = Len(journal) + Len(batch) + Len(writes)
        /\ journal[i].op = accepted[i] /\ journal[j].op = accepted[j]
    BY Counted DEF IInv
  <2>2. Len(journal) \in Nat /\ Len(batch) \in Nat /\ Len(writes) \in Nat
    BY LenProperties DEF IInv, TypeOK
  <2>3. i \in 1 .. Len(accepted) /\ j \in 1 .. Len(accepted)
    BY <2>1, <2>2
  <2> QED BY <2>1, <2>3 DEF IInv, CallerState
<1> QED BY <1>1, Invariance, PTL

\* When the writer has stopped, everything accepted before Close is settled.
THEOREM FlushBeforeStop == Spec => []FlushedOnClose
<1>1. IInv => FlushedOnClose
  BY DEF IInv
<1> QED BY <1>1, Invariance, PTL

\* Closing is not open-ended: at most one late write for each goroutine.
THEOREM LateAccepts == Spec => []LateAcceptBound
<1>1. IInv => LateAcceptBound
  BY DEF IInv
<1> QED BY <1>1, Invariance, PTL

-----------------------------------------------------------------------------
(* BatchWriter implements WriteLog                                         *)

LEMMA RefineInit == Init => WL!Init
BY DEF Init, WL!Init, finished

LEMMA RefineStep == IInv /\ [Next]_vars => [WL!Next]_WL!vars
<1> SUFFICES ASSUME IInv, [Next]_vars PROVE [WL!Next]_WL!vars
  OBVIOUS
<1>0. TypeOK /\ Conserved /\ Control /\ FlushedOnClose
  BY DEF IInv
<1>1. CASE UNCHANGED <<accepted, journal, closeMark, run>>
  BY <1>1 DEF WL!vars, finished
<1>2. ASSUME NEW p \in Callers, EnqueueSend(p) PROVE WL!Accept
  <2>1. [caller |-> p, n |-> calls[p]] \in Op
    BY <1>0, <1>2 DEF EnqueueSend, TypeOK, Op
  <2> QED BY <1>2, <2>1 DEF WL!Accept, EnqueueSend, runVars, closeVars, finished
<1>3. ASSUME NEW p \in Callers, EnqueueCheck(p) \/ EnqueueClosed(p) PROVE WL!vars' = WL!vars
  BY <1>3 DEF EnqueueCheck, EnqueueClosed, runVars, closeVars, WL!vars, finished
<1>4. CASE Receive \/ SeeDone \/ Fill
  <2>1. UNCHANGED <<accepted, journal, closeMark>> /\ ~ finished /\ ~ finished'
    BY <1>4 DEF Receive, SeeDone, Fill, callerVars, closeVars, finished
  <2>2. finished' = finished
    BY <2>1 DEF finished
  <2> QED BY <2>1, <2>2 DEF WL!vars
<1>5. CASE EndFill
  <2>1. UNCHANGED <<accepted, journal, closeMark>> /\ ~ finished
    BY <1>5 DEF EndFill, callerVars, closeVars, finished
  <2>2. CASE finished'
    <3>1. FlushedOnClose'
      BY <1>0, FlushedStep
    <3>2. closeMark # NotClosed
      BY <1>0, <1>5, <2>2, BatchWriterAssumption DEF Control, EndFill, finished
    <3> QED BY <2>1, <2>2, <3>1, <3>2 DEF WL!Next, WL!EndClose, FlushedOnClose
  <2>3. CASE ~ finished'
    BY <2>1, <2>3 DEF WL!vars, finished
  <2> QED BY <2>2, <2>3
<1>6. CASE Commit
  <2>1. PICK new \in Seq(Outcome) :
          /\ journal' = journal \o new
          /\ Len(new) = Len(batch)
          /\ \A i \in 1 .. Len(batch) : new[i] \in [op : {batch[i]}, applied : BOOLEAN]
    BY <1>0, <1>6, CommitSettles
  <2>2. /\ batch # <<>> /\ ~ finished /\ finished' = finished
        /\ UNCHANGED <<accepted, closeMark>>
    BY <1>0, <1>6 DEF Commit, AfterCommit, Control, callerVars, closeVars, finished
  <2>3. journal \in Seq(Outcome) /\ batch \in Seq(Op) /\ writes \in Seq(Op)
    BY <1>0 DEF TypeOK, Outcome
  <2>4. /\ Len(journal') = Len(journal) + Len(batch)
        /\ Len(journal) \in Nat /\ Len(batch) \in Nat /\ Len(batch) >= 1 /\ Len(writes) \in Nat
        /\ SubSeq(journal', 1, Len(journal)) = journal
        /\ \A i \in 1 .. Len(batch) : journal'[Len(journal) + i] = new[i]
    <3>1. Len(batch) \in Nat /\ Len(batch) >= 1 /\ Len(writes) \in Nat
      BY <2>2, <2>3
    <3>2. journal \in Seq(Outcome) /\ new \in Seq(Outcome)
      BY <2>3
    <3>3. /\ Len(journal \o new) = Len(journal) + Len(new)
          /\ Len(journal) \in Nat
          /\ \A i \in 1 .. Len(new) : (journal \o new)[Len(journal) + i] = new[i]
          /\ SubSeq(journal \o new, 1, Len(journal)) = journal
      BY <3>2, ConcatParts
    <3> QED BY <2>1, <3>1, <3>3
  <2>5. Len(journal') \in Len(journal) + 1 .. Len(accepted)
    BY <1>0, <2>4, Counted
  <2>6. ASSUME NEW i \in Len(journal) + 1 .. Len(journal')
        PROVE  journal'[i] \in [op : {accepted[i]}, applied : BOOLEAN]
    <3>1. PICK k \in 1 .. Len(batch) : i = Len(journal) + k
      <4>1. i - Len(journal) \in 1 .. Len(batch) /\ i = Len(journal) + (i - Len(journal))
        BY <2>4
      <4> QED BY <4>1
    <3>2. journal'[i] = new[k] /\ batch[k] = accepted[i]
      BY <1>0, <2>4, <3>1, Counted
    <3> QED BY <2>1, <3>2
  <2>7. WL!Settle
    BY <2>2, <2>4, <2>5, <2>6 DEF WL!Settle
  <2> QED BY <2>7 DEF WL!Next
<1>7. CASE CloseDone
  <2>1. closeMark = NotClosed
    BY <1>0, <1>7 DEF CloseDone, Control
  <2>2. WL!BeginClose
    BY <1>7, <2>1 DEF WL!BeginClose, CloseDone, runVars, callerVars, finished
  <2> QED BY <2>2 DEF WL!Next
<1>8. CASE CloseReturn \/ Terminated \/ UNCHANGED vars
  BY <1>1, <1>8 DEF CloseReturn, Terminated, vars, runVars, callerVars, closeVars
<1> QED BY <1>2, <1>3, <1>4, <1>5, <1>6, <1>7, <1>8 DEF Next, Enqueue, Run, Close, WL!Next

\* The batch writer implements the log of accepted writes, whatever the number
\* of goroutines, the size of the queue and the size of a batch.
THEOREM Implementation == Spec => ImplementsWriteLog
<1> QED BY Invariance, RefineInit, RefineStep, PTL DEF Spec, ImplementsWriteLog, WL!Spec
=============================================================================
