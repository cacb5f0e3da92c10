--------------------------- MODULE RingAnswersProofs --------------------------
(***************************************************************************)
(* What the caller of one ring sees, for every pool size, CQ size and set  *)
(* of scripts: one final CQE for each request that is answered with one,   *)
(* chains in order, and the promise of LinkedRequests kept.                *)
(*                                                                         *)
(* Answers speaks of the line, the CQ followed by the backlog: the final   *)
(* CQEs in it and what the caller has read belong to different requests,   *)
(* which are just those that ended loudly. Draining the backlog does not   *)
(* change the line, which is why the argument needs no case for it.        *)
(*                                                                         *)
(* CInv adds the order of the queue. The requests in it are in the order   *)
(* they were taken, and every member of a chain that has left it is older  *)
(* than all that are still there; so at most one linked request stands at  *)
(* the front: it has left the queue and the one behind it has not. Either  *)
(* that request is still unanswered and in the engine's hand or awaited,   *)
(* or it is answered and the chain's standing (chain_failed, or the        *)
(* ticket's word while one is up) says how. From there process_queue runs  *)
(* or cancels its follower.                                                *)
(*                                                                         *)
(* Two things the code does would break the order, and the theorems assume *)
(* them away of the scripts: a message that is refused leaves chain_failed *)
(* alone, so what is linked behind it runs; and a cancel takes a chain's   *)
(* member out of the queue before its turn.                                *)
(***************************************************************************)
EXTENDS RingEngineProofs

USE DEF sqVars, parkVars, chainVars, engineVars, ticketVars, workerVars, postVars, boundVars

-----------------------------------------------------------------------------
\* Each request that ended loudly has one final CQE, in the line or read; no other has one.
Answers ==
  /\ \A i, j \in DOMAIN Line : Line[i].last /\ Line[j].last /\ Line[i].id = Line[j].id => i = j
  /\ \A i \in DOMAIN Line : Line[i].last => Line[i].id \notin seen /\ result[Line[i].id] \in Ended
  /\ \A i \in seen : result[i] \in Ended
  /\ \A i \in DOMAIN script : result[i] \in Ended =>
       i \in seen \/ \E k \in DOMAIN Line : Line[k] = [id |-> i, last |-> TRUE]

\* The line, and the steps that leave it or the answers alone.
LEMMA LineIs ==
  ASSUME IInv
  PROVE  Line \in Seq(RealCqe) /\ DOMAIN Line = 1..Len(Line) /\ Len(Line) \in Nat
<1>1. Laid(RealCqe, cq, backlog)
  BY LineShape DEF IInv, PoolOK
<1>2. Line \in Seq(RealCqe)
  BY <1>1 DEF Laid, Line
<1>3. QED
  BY <1>2, LenProperties

LEMMA LineSame ==
  ASSUME UNCHANGED <<cq, backlog>>
  PROVE  Line' = Line
  BY DEF Line, LineOf

LEMMA AnswersSame ==
  ASSUME Answers, UNCHANGED <<script, result, seen>>, Line' = Line
  PROVE  Answers'
  BY DEF Answers

\* An emission is nobody's final CQE, dropped or not.
LEMMA AnswersEmit ==
  ASSUME IInv, Answers, NEW i \in 1..Len(script), Emit(i), UNCHANGED <<script, seen>>
  PROVE  Answers'
<1>1. result' = result /\ (Line' = Line \/ Line' = Append(Line, [id |-> i, last |-> FALSE]))
  BY EmitPool DEF IInv
<1>2. CASE Line' = Append(Line, [id |-> i, last |-> FALSE])
  <2> DEFINE e == [id |-> i, last |-> FALSE]
  <2>1. e \in RealCqe /\ ~e.last
    BY DEF RealCqe
  <2>2. Line' = Append(Line, e)
    BY <1>2
  <2> HIDE DEF e
  <2>3. Line \in Seq(RealCqe)
    BY LineIs
  <2>4. /\ Len(Line) \in Nat /\ DOMAIN Line = 1..Len(Line) /\ DOMAIN Line' = 1..(Len(Line) + 1)
        /\ \A k \in 1..Len(Line) : Line'[k] = Line[k]
        /\ Line'[Len(Line) + 1] = e
    BY <2>1, <2>2, <2>3, AppendShape
  <2>5. /\ \A k \in DOMAIN Line' : Line'[k].last => k \in DOMAIN Line
        /\ \A k \in DOMAIN Line : k \in DOMAIN Line' /\ Line'[k] = Line[k]
    BY <2>1, <2>4
  <2>6. QED
    BY <1>1, <2>5 DEF Answers
<1>3. QED
  BY <1>1, <1>2, AnswersSame

\* A request ends without a CQE.
LEMMA AnswersQuiet ==
  ASSUME IInv, Answers, NEW o \in Active, NEW r, r \notin Ended,
         result' = [result EXCEPT ![ud[o]] = r],
         Line' = Line, UNCHANGED <<script, seen>>
  PROVE  Answers'
<1>1. result[ud[o]] = "none" /\ ud[o] \in DOMAIN script
  BY ActiveFacts DEF IInv, Numbered
<1>2. result \in [DOMAIN script -> Ended \cup {"none", "silent", "quiet"}] /\ "none" \notin Ended
  BY DEF IInv, Types, SqTypes, Ended
<1>3. \A i \in DOMAIN script : result[i] \in Ended => result'[i] = result[i]
  BY <1>1, <1>2
<1>4. \A i \in DOMAIN script : result'[i] \in Ended => result'[i] = result[i]
  BY <1>1, <1>2
<1>5. seen \subseteq DOMAIN script /\ \A k \in DOMAIN Line : Line[k].id \in DOMAIN script
  <2>1. DOMAIN script = 1..Len(script) /\ seen \subseteq 1..Len(script)
    BY LenProperties DEF IInv, Types, SqTypes
  <2>2. \A k \in DOMAIN Line : Line[k] \in RealCqe
    BY LineIs, ElementOfSeq
  <2>3. QED
    BY <2>1, <2>2 DEF RealCqe
<1>6. QED
  BY <1>3, <1>4, <1>5 DEF Answers

\* A request ends with its CQE at the end of the line.
LEMMA AnswersLoud ==
  ASSUME IInv, Answers, NEW o \in Active, NEW r \in Ended,
         result' = [result EXCEPT ![ud[o]] = r],
         Line' = Append(Line, Final(o)), UNCHANGED <<script, seen>>
  PROVE  Answers'
<1>1. result[ud[o]] = "none" /\ ud[o] \in DOMAIN script /\ ud[o] \in 1..Len(script)
  BY ActiveFacts DEF IInv, Numbered
<1>2. result \in [DOMAIN script -> Ended \cup {"none", "silent", "quiet"}] /\ "none" \notin Ended
  BY DEF IInv, Types, SqTypes, Ended
<1>3. result'[ud[o]] \in Ended /\ \A i \in DOMAIN script : i # ud[o] => result'[i] = result[i]
  BY <1>1, <1>2
<1>4. Final(o) \in RealCqe /\ Final(o) = [id |-> ud[o], last |-> TRUE]
  BY <1>1 DEF Final, RealCqe
<1>5. Line \in Seq(RealCqe)
  BY LineIs
<1>6. /\ Len(Line) \in Nat /\ DOMAIN Line = 1..Len(Line) /\ DOMAIN Line' = 1..(Len(Line) + 1)
      /\ \A k \in 1..Len(Line) : Line'[k] = Line[k]
      /\ Line'[Len(Line) + 1] = Final(o)
  BY <1>4, <1>5, AppendShape
<1>7. /\ \A k \in DOMAIN Line' : k \in DOMAIN Line \/ (k = Len(Line) + 1 /\ Line'[k] = Final(o))
      /\ \A k \in DOMAIN Line : k \in DOMAIN Line' /\ Line'[k] = Line[k]
      /\ Len(Line) + 1 \in DOMAIN Line'
  BY <1>6
<1>8. seen \subseteq DOMAIN script /\ \A k \in DOMAIN Line : Line[k].id \in DOMAIN script
  <2>1. DOMAIN script = 1..Len(script) /\ seen \subseteq 1..Len(script)
    BY LenProperties DEF IInv, Types, SqTypes
  <2>2. \A k \in DOMAIN Line : Line[k] \in RealCqe
    BY LineIs, ElementOfSeq
  <2>3. QED
    BY <2>1, <2>2 DEF RealCqe
<1>9. ud[o] \notin seen /\ \A k \in DOMAIN Line : Line[k].last => Line[k].id # ud[o]
  BY <1>1, <1>2 DEF Answers
<1>10. Final(o).last /\ Final(o).id = ud[o]
  BY <1>4
<1>11. \A i, j \in DOMAIN Line' : Line'[i].last /\ Line'[j].last /\ Line'[i].id = Line'[j].id => i = j
  BY <1>7, <1>9, <1>10 DEF Answers
<1>12. \A i \in DOMAIN Line' : Line'[i].last => Line'[i].id \notin seen' /\ result'[Line'[i].id] \in Ended
  BY <1>3, <1>7, <1>8, <1>9, <1>10 DEF Answers
<1>13. \A i \in seen' : result'[i] \in Ended
  BY <1>3, <1>8, <1>9 DEF Answers
<1>14. \A i \in DOMAIN script' : result'[i] \in Ended =>
          i \in seen' \/ \E k \in DOMAIN Line' : Line'[k] = [id |-> i, last |-> TRUE]
  <2> SUFFICES ASSUME NEW i \in DOMAIN script, result'[i] \in Ended, i \notin seen
               PROVE  \E k \in DOMAIN Line' : Line'[k] = [id |-> i, last |-> TRUE]
    OBVIOUS
  <2>1. CASE i = ud[o]
    BY <1>4, <1>6, <1>7, <2>1
  <2>2. CASE i # ud[o]
    <3>1. PICK k \in DOMAIN Line : Line[k] = [id |-> i, last |-> TRUE]
      BY <1>3, <2>2 DEF Answers
    <3>2. QED
      BY <1>7, <3>1
  <2>3. QED
    BY <2>1, <2>2
<1>15. QED
  BY <1>11, <1>12, <1>13, <1>14 DEF Answers

\* slip_engine_post does one or the other.
LEMMA AnswersPost ==
  ASSUME IInv, Answers, NEW o \in Active, NEW res \in Ended, Post(o, res),
         UNCHANGED <<script, seen>>
  PROVE  Answers'
<1>1. PoolOK /\ o \in Op /\ o \notin Pool /\ ud[o] \in 1..Len(script)
  BY ActiveFacts DEF IInv
<1>2. /\ Line' = IF res = "ok" /\ SqeOf(o).skip THEN Line ELSE Append(Line, Final(o))
      /\ result' = [result EXCEPT ![ud[o]] = IF res = "ok" /\ SqeOf(o).skip THEN "silent" ELSE res]
  BY <1>1, PostPool
<1>3. "silent" \notin Ended
  BY DEF Ended
<1>4. CASE res = "ok" /\ SqeOf(o).skip
  BY <1>2, <1>3, <1>4, AnswersQuiet
<1>5. CASE ~(res = "ok" /\ SqeOf(o).skip)
  BY <1>2, <1>5, AnswersLoud
<1>6. QED
  BY <1>4, <1>5

\* The caller takes the head of the CQ, which is the head of the line.
LEMMA LineTail ==
  ASSUME NEW T, NEW c \in Seq(T), c # <<>>, NEW b \in Seq(Waiter(T))
  PROVE  LineOf(c, b) # <<>> /\ LineOf(Tail(c), b) = Tail(LineOf(c, b)) /\ Head(LineOf(c, b)) = Head(c)
<1> DEFINE m == [i \in DOMAIN b |-> b[i].cqe]
<1>1. m \in Seq(T)
  <2>1. DOMAIN b = 1..Len(b) /\ Len(b) \in Nat
    BY LenProperties
  <2>2. QED
    BY <2>1, MappedShape
<1>2. LineOf(c, b) = c \o m /\ LineOf(Tail(c), b) = Tail(c) \o m
  BY DEF LineOf
<1> HIDE DEF m
<1>3. c \o m # <<>> /\ Tail(c \o m) = Tail(c) \o m /\ Head(c \o m) = Head(c)
  BY <1>1
<1>4. QED
  BY <1>2, <1>3

LEMMA AnswersReap ==
  ASSUME IInv, Answers, Reap
  PROVE  Answers'
<1> DEFINE e == Head(cq)
<1>0. /\ cq # <<>> /\ cq' = Tail(cq) /\ seen' = (IF e.last THEN seen \cup {e.id} ELSE seen)
      /\ UNCHANGED <<script, backlog, result>>
  BY DEF Reap
<1>1. Line # <<>> /\ Line' = Tail(Line) /\ Head(Line) = e
  <2>1. cq \in Seq(RealCqe) /\ backlog \in Seq(Waiter(RealCqe))
    BY DEF IInv, PoolOK
  <2>2. Line' = LineOf(Tail(cq), backlog)
    BY <1>0 DEF Line, LineOf
  <2>3. QED
    BY <1>0, <2>1, <2>2, LineTail DEF Line
<1> HIDE DEF e
<1>2. Line \in Seq(RealCqe)
  BY LineIs
<1>3. /\ e \in RealCqe /\ e = Line[1] /\ Len(Line) \in Nat /\ Len(Line) >= 1
      /\ DOMAIN Line = 1..Len(Line) /\ DOMAIN Line' = 1..(Len(Line) - 1)
      /\ \A k \in 1..(Len(Line) - 1) : Line'[k] = Line[k + 1]
  BY <1>1, <1>2, TailShape
<1>4. \A k \in DOMAIN Line' : k + 1 \in DOMAIN Line /\ k + 1 # 1 /\ Line'[k] = Line[k + 1]
  BY <1>3
<1>5. 1 \in DOMAIN Line
  BY <1>3
<1>6. \A i, j \in DOMAIN Line' : Line'[i].last /\ Line'[j].last /\ Line'[i].id = Line'[j].id => i = j
  <2> SUFFICES ASSUME NEW i \in DOMAIN Line', NEW j \in DOMAIN Line',
                      Line'[i].last, Line'[j].last, Line'[i].id = Line'[j].id
               PROVE  i = j
    OBVIOUS
  <2>1. i + 1 = j + 1
    BY <1>4 DEF Answers
  <2>2. QED
    BY <1>3, <2>1
<1>7. \A i \in DOMAIN Line' : Line'[i].last => Line'[i].id \notin seen' /\ result'[Line'[i].id] \in Ended
  <2> SUFFICES ASSUME NEW i \in DOMAIN Line', Line'[i].last
               PROVE  Line'[i].id \notin seen' /\ result'[Line'[i].id] \in Ended
    OBVIOUS
  <2>1. Line'[i].id \notin seen /\ result'[Line'[i].id] \in Ended
    BY <1>0, <1>4 DEF Answers
  <2>2. e.last => Line'[i].id # e.id
    BY <1>3, <1>4, <1>5 DEF Answers
  <2>3. QED
    BY <1>0, <2>1, <2>2
<1>8. \A i \in seen' : result'[i] \in Ended
  BY <1>0, <1>3, <1>5 DEF Answers
<1>9. \A i \in DOMAIN script' : result'[i] \in Ended =>
         i \in seen' \/ \E k \in DOMAIN Line' : Line'[k] = [id |-> i, last |-> TRUE]
  <2> SUFFICES ASSUME NEW i \in DOMAIN script, result[i] \in Ended, i \notin seen'
               PROVE  \E k \in DOMAIN Line' : Line'[k] = [id |-> i, last |-> TRUE]
    BY <1>0
  <2>1. i \notin seen
    BY <1>0
  <2>2. PICK k \in DOMAIN Line : Line[k] = [id |-> i, last |-> TRUE]
    BY <2>1 DEF Answers
  <2>3. k # 1
    BY <1>0, <1>3, <2>2
  <2>4. k - 1 \in DOMAIN Line' /\ (k - 1) + 1 = k
    BY <1>3, <2>3
  <2>5. Line'[k - 1] = Line[k]
    BY <1>4, <2>4
  <2>6. QED
    BY <2>2, <2>4, <2>5
<1>10. QED
  BY <1>6, <1>7, <1>8, <1>9 DEF Answers

\* The ops that steps end are in flight.
LEMMA HeadIsActive ==
  ASSUME IInv, queue # <<>>
  PROVE  Head(queue) \in Active
<1>1. queue \in Seq(Op) /\ \A i, j \in DOMAIN queue : queue[i] = queue[j] => i = j
  BY DEF IInv, Types, HomeTypes, Lists
<1>2. QED
  BY <1>1, QueueLoses DEF Active, InQueue

LEMMA NamedIsActive ==
  ASSUME IInv
  PROVE  /\ FirstNamed(queue) # 0 => queue[FirstNamed(queue)] \in Active
         /\ FirstNamed(wq) # 0 => wq[FirstNamed(wq)] \in Active
<1>1. /\ queue \in Seq(Op) /\ \A i, j \in DOMAIN queue : queue[i] = queue[j] => i = j
      /\ wq \in Seq(Op) /\ \A i, j \in DOMAIN wq : wq[i] = wq[j] => i = j
  BY DEF IInv, Types, HomeTypes, Lists
<1>2. QED
  BY <1>1, QueueRemoves DEF Active, InQueue, AtDoor

LEMMA DoneIsActive ==
  ASSUME IInv, done # <<>>
  PROVE  Head(done).op \in Active /\ Head(done).res \in Ended
<1>1. done \in Seq([op : Op, res : {"ok", "err"}])
  BY DEF IInv, Types, HomeTypes
<1>2. /\ Head(done) \in [op : Op, res : {"ok", "err"}] /\ Head(done) = done[1]
      /\ Len(done) \in Nat /\ Len(done) >= 1 /\ DOMAIN done = 1..Len(done)
  BY <1>1, TailShape
<1>3. 1 \in DOMAIN done
  BY <1>2
<1>4. QED
  BY <1>2, <1>3 DEF Active, DoneOps, Ended

\* Every step keeps the answers.
LEMMA NextAnswers ==
  ASSUME IInv, Answers, [Next]_vars
  PROVE  Answers'
<1>1. CASE CallerEnters
  BY <1>1, LineSame, AnswersSame DEF CallerEnters, Enter
<1>2. CASE EngineStep
  <2>1. ASSUME NEW o \in Op, TakeSqe(o) \/ Unpark(o) PROVE Answers'
    BY <2>1, LineSame, AnswersSame DEF TakeSqe, Unpark
  <2>2. ASSUME NEW o \in Op, CancelParked(o) PROVE Answers'
    <3>1. o \in Active /\ "canceled" \in Ended
      BY <2>2 DEF CancelParked, Active, Ended
    <3>2. QED
      BY <2>2, <3>1, AnswersPost DEF CancelParked, CancelTarget
  <2>3. CASE TakeEnd \/ Return \/ CheckWait \/ RunEnd \/ RunPop
    BY <2>3, LineSame, AnswersSame DEF TakeEnd, Return, CheckWait, RunEnd, RunPop
  <2>4. CASE Settle
    <3>1. Line' = Line
      BY <2>4, DrainPool DEF IInv, DrainOK, Settle, Line
    <3>2. QED
      BY <2>4, <3>1, AnswersSame DEF Settle
  <2>5. CASE RunCancelled
    <3> DEFINE o == Head(queue)
    <3>1. o \in Active /\ UNCHANGED <<script, seen>> /\ (ReleaseQuietly(o) \/ Post(o, "canceled"))
      BY <2>5, HeadIsActive DEF RunCancelled, Runnable
    <3> HIDE DEF o
    <3>2. "canceled" \in Ended /\ "quiet" \notin Ended
      BY DEF Ended
    <3>3. CASE Post(o, "canceled")
      BY <3>1, <3>2, <3>3, AnswersPost
    <3>4. CASE ReleaseQuietly(o)
      BY <3>1, <3>2, <3>4, LineSame, AnswersQuiet DEF ReleaseQuietly
    <3>5. QED
      BY <3>1, <3>3, <3>4
  <2>6. ASSUME NEW res \in {"ok", "err"}, ExecDone(res) PROVE Answers'
    <3>1. cur \in Active /\ res \in Ended
      BY <2>6, CurFacts DEF ExecDone, Ended
    <3>2. QED
      BY <2>6, <3>1, AnswersPost DEF ExecDone
  <2>7. ASSUME NEW res \in {"ok", "err"}, TryDone(res) PROVE Answers'
    BY <2>7, LineSame, AnswersSame DEF TryDone
  <2>8. CASE ExecPark \/ ExecHand \/ Stall \/ ExecCancel \/ CancelEnd
    BY <2>8, LineSame, AnswersSame DEF ExecPark, ExecHand, Stall, ExecCancel, CancelEnd
  <2>9. CASE EmitOne \/ ExecMsg
    <3>1. ud[cur] \in 1..Len(script)
      BY <2>9, CurFacts, ActiveFacts DEF EmitOne, ExecMsg
    <3>2. Emit(ud[cur]) \/ UNCHANGED postVars
      BY <2>9 DEF EmitOne, ExecMsg
    <3>3. UNCHANGED <<script, seen>>
      BY <2>9 DEF EmitOne, ExecMsg
    <3>4. QED
      BY <3>1, <3>2, <3>3, AnswersEmit, LineSame, AnswersSame
  <2>10. CASE PostCur
    <3>1. cur \in Active /\ curres \in Ended
      BY <2>10, CurFacts DEF PostCur, IInv, Types, FlagTypes
    <3>2. QED
      BY <2>10, <3>1, AnswersPost DEF PostCur
  <2>11. CASE CancelQueued \/ CancelAtWorker
    <3>1. "canceled" \in Ended
      BY DEF Ended
    <3>2. PICK t \in Active : Post(t, "canceled") /\ UNCHANGED <<script, seen>>
      BY <2>11, NamedIsActive DEF CancelQueued, CancelAtWorker, CancelTarget
    <3>3. QED
      BY <3>1, <3>2, AnswersPost
  <2>12. ASSUME NEW S \in SUBSET fired, NEW drained \in BOOLEAN, WaitReturns(S, drained)
         PROVE  Answers'
    BY <2>12, LineSame, AnswersSame DEF WaitReturns
  <2>13. CASE TryPark \/ RetryEnd \/ CompleteEnd
    BY <2>13, LineSame, AnswersSame DEF TryPark, RetryEnd, CompleteEnd
  <2>14. CASE Complete
    BY <2>14, DoneIsActive, AnswersPost DEF Complete
  <2>15. QED
    BY <1>2, <2>1, <2>2, <2>3, <2>4, <2>5, <2>6, <2>7, <2>8, <2>9, <2>10, <2>11, <2>12, <2>13,
       <2>14 DEF EngineStep
<1>3. CASE WorkerStep
  <2>1. CASE WorkerPop \/ WorkerTicket \/ WorkerPoke
    BY <2>1, LineSame, AnswersSame DEF WorkerPop, WorkerTicket, WorkerPoke
  <2>2. ASSUME NEW res \in {"ok", "err"}, WorkerRun(res) PROVE Answers'
    BY <2>2, LineSame, AnswersSame DEF WorkerRun
  <2>3. CASE WorkerPost
    <3>1. wop \in Active /\ wres \in Ended
      BY <2>3 DEF WorkerPost, IInv, Control, Active, AtWorker, Types, FlagTypes, Ended
    <3>2. QED
      BY <2>3, <3>1, AnswersPost DEF WorkerPost
  <2>4. QED
    BY <1>3, <2>1, <2>2, <2>3 DEF WorkerStep
<1>4. ASSUME NEW o \in Op, Fire(o) PROVE Answers'
  BY <1>4, LineSame, AnswersSame DEF Fire
<1>5. CASE Reap
  BY <1>5, AnswersReap
<1>6. CASE UNCHANGED vars
  BY <1>6, LineSame, AnswersSame DEF vars
<1>7. QED
  BY <1>1, <1>2, <1>3, <1>4, <1>5, <1>6 DEF Next

LEMMA InitAnswers == Init => Answers
<1> SUFFICES ASSUME Init PROVE Answers
  OBVIOUS
<1>1. cq = <<>> /\ backlog = <<>> /\ seen = {} /\ \A i \in DOMAIN script : result[i] = "none"
  BY DEF Init
<1>2. Line = <<>>
  BY <1>1 DEF Line, LineOf
<1>3. QED
  BY <1>1, <1>2 DEF Answers, Ended

\* The count of final CQEs, from their places in the line.
LEMMA OneCqeEach ==
  ASSUME IInv, Answers
  PROVE  OneFinalCqe
<1> SUFFICES ASSUME NEW i \in DOMAIN script
             PROVE  FinalCqes(i) = IF result[i] \in Ended THEN 1 ELSE 0
  BY DEF OneFinalCqe
<1> DEFINE f == [id |-> i, last |-> TRUE]
           A == {k \in DOMAIN cq : cq[k] = f}
           B == {k \in DOMAIN backlog : backlog[k].cqe = f}
<1>1. f.last /\ f.id = i
  OBVIOUS
<1>2. FinalCqes(i) = Cardinality(A) + Cardinality(B) + (IF i \in seen THEN 1 ELSE 0)
  BY DEF FinalCqes
<1>3. Laid(RealCqe, cq, backlog) /\ DOMAIN cq = 1..Len(cq) /\ DOMAIN backlog = 1..Len(backlog)
  BY LineShape, LenProperties DEF IInv, PoolOK
<1>4. /\ Line \in Seq(RealCqe) /\ Len(cq) \in Nat /\ Len(backlog) \in Nat
      /\ Len(Line) = Len(cq) + Len(backlog)
      /\ \A k \in 1..Len(cq) : Line[k] = cq[k]
      /\ \A k \in 1..Len(backlog) : Line[Len(cq) + k] = backlog[k].cqe
  BY <1>3 DEF Laid, Line
<1>5. DOMAIN Line = 1..(Len(cq) + Len(backlog))
  BY <1>4, LenProperties
<1> HIDE DEF f
<1>6. \A j, k \in DOMAIN Line : Line[j] = f /\ Line[k] = f => j = k
  BY <1>1 DEF Answers
<1>7. /\ \A k \in A : k \in DOMAIN Line /\ Line[k] = f /\ k <= Len(cq) /\ k \in Nat
      /\ \A k \in B : Len(cq) + k \in DOMAIN Line /\ Line[Len(cq) + k] = f /\ k \in Nat /\ k >= 1
  BY <1>3, <1>4, <1>5
<1>8. \A k \in DOMAIN Line : Line[k] = f => A # {} \/ B # {}
  <2> SUFFICES ASSUME NEW k \in DOMAIN Line, Line[k] = f PROVE A # {} \/ B # {}
    OBVIOUS
  <2>1. CASE k <= Len(cq)
    BY <1>3, <1>4, <1>5, <2>1
  <2>2. CASE k > Len(cq)
    <3> DEFINE j == k - Len(cq)
    <3>1. j \in 1..Len(backlog) /\ Len(cq) + j = k
      BY <1>4, <1>5, <2>2
    <3> HIDE DEF j
    <3>2. j \in B
      BY <1>3, <1>4, <3>1
    <3>3. QED
      BY <3>2
  <2>3. QED
    BY <1>4, <1>5, <2>1, <2>2
<1> HIDE DEF A, B
<1>9. Cardinality(A) = IF A = {} THEN 0 ELSE 1
  <2>1. \A j, k \in A : j = k
    BY <1>6, <1>7
  <2>2. QED
    BY <2>1, AtMostOne
<1>10. Cardinality(B) = IF B = {} THEN 0 ELSE 1
  <2>1. \A j, k \in B : Len(cq) + j = Len(cq) + k
    BY <1>6, <1>7
  <2>2. \A j, k \in B : j = k
    BY <1>4, <1>7, <2>1
  <2>3. QED
    BY <2>2, AtMostOne
<1>11. ~(A # {} /\ B # {})
  <2> SUFFICES ASSUME NEW j \in A, NEW k \in B PROVE FALSE
    OBVIOUS
  <2>1. j = Len(cq) + k
    BY <1>6, <1>7
  <2>2. QED
    BY <1>4, <1>7, <2>1
<1>12. A # {} \/ B # {} => result[i] \in Ended /\ i \notin seen
  <2>1. \A k \in DOMAIN Line : Line[k] = f => result[i] \in Ended /\ i \notin seen
    BY <1>1 DEF Answers
  <2>2. QED
    BY <1>7, <2>1
<1>13. i \in seen => result[i] \in Ended
  BY DEF Answers
<1>14. result[i] \in Ended => i \in seen \/ A # {} \/ B # {}
  BY <1>8 DEF Answers, f
<1>15. QED
  BY <1>2, <1>9, <1>10, <1>11, <1>12, <1>13, <1>14

(***************************************************************************)
(* The caller finds one final CQE per request that ended loudly, and none  *)
(* for one that was silent or quiet: slip_engine_post and                  *)
(* slip_backlog_drain_locked neither lose nor double a completion between  *)
(* the CQ, the backlog and the caller.                                     *)
(***************************************************************************)
THEOREM EveryAnswerOnce == Spec => []OneFinalCqe
<1>1. Init => IInv /\ Answers
  BY InitIInv, InitAnswers
<1>2. (IInv /\ Answers) /\ [Next]_vars => (IInv /\ Answers)'
  BY NextIInv, NextAnswers
<1>3. IInv /\ Answers => OneFinalCqe
  BY OneCqeEach
<1>4. QED
  BY <1>1, <1>2, <1>3, PTL DEF Spec

-----------------------------------------------------------------------------
\* i is held back by the request before it; i is in a chain.
Follower(i) == i > 1 /\ script[i - 1].link

InChain(i) == script[i].link \/ Follower(i)

\* What a script may hold for its chains to keep their order: no link behind a message
\* that is refused, and no cancel of a chain's member submitted after the cancel.
Orderly(s) ==
  \A c \in DOMAIN s :
    /\ s[c].kind = "badmsg" => ~s[c].link
    /\ s[c].kind = "cancel" =>
         \A i \in s[c].names \cap DOMAIN s :
           i > c => ~s[i].link /\ ~(i > 1 /\ s[i - 1].link)

\* The requests in the queue; the requests that have left it; an op is in hand.
QueuedIds == {ud[o] : o \in InQueue}

Past(i) == i \in 1..taken /\ i \notin QueuedIds

Executing == pc \in {"exec", "stall", "cancel", "post"}

\* The queue is in the order of the script, and members of chains leave it in that order.
Order ==
  /\ \A i, j \in DOMAIN queue : i < j => ud[queue[i]] < ud[queue[j]]
  /\ \A i \in 1..taken : Past(i) /\ InChain(i) => \A q \in QueuedIds : i < q
  /\ Executing => \A i \in 1..taken : Past(i) /\ InChain(i) => i <= ud[cur]
  /\ Executing => \A q \in QueuedIds : ud[cur] < q

\* What is in flight outside the queue has begun.
Begun ==
  /\ began \subseteq 1..taken
  /\ \A o \in Active \ InQueue : ud[o] \in began

\* A request is answered after the one it follows.
InTurn ==
  \A i \in 1..taken : Follower(i) /\ Decided[i] # "none" => Decided[i - 1] # "none"

\* What the engine is posting says what it ran.
CurKinds ==
  /\ pc = "cancel" => SqeOf(cur).kind = "cancel"
  /\ pc = "post" => curres \in {"ok", "err", "enoent", "ealready"}
  /\ pc = "post" /\ curres = "err" => SqeOf(cur).kind = "badmsg"
  /\ pc = "post" /\ curres \in {"enoent", "ealready"} => SqeOf(cur).kind = "cancel"

\* i leads a chain whose next member is still in the queue, or not taken yet.
AtFront(i) == Past(i) /\ script[i].link /\ ~Past(i + 1)

\* What the answer to i means for its followers.
Word(i) ==
  IF Decided[i] \in {"ok", "silent"} THEN "holds"
  ELSE IF Requests!FateAfter(i) = "quiet" THEN "quiet" ELSE "cancels"

\* How the chain stands: chain_failed, or the word of the ticket that will settle it.
Standing == IF blockedDone = None THEN chain ELSE blockedFailed

\* i is in the engine's hand, or awaited and not decided.
Held(i) ==
  \/ pc \in {"exec", "cancel", "post"} /\ ud[cur] = i
  \/ Awaited # None /\ blockedDone = None /\ ud[Awaited] = i

\* A chain that runs or waits has not failed.
ChainHolds == Awaited # None \/ Executing => chain = "holds"

\* The front is being run, or its word is how the chain stands.
FrontHeld ==
  \A i \in 1..taken : AtFront(i) =>
    \/ Decided[i] = "none" /\ Held(i)
    \/ Decided[i] # "none" /\ (Awaited = None \/ blockedDone # None) /\ Word(i) = Standing

\* A chain that has failed, or that is waited for, has a front.
FrontThere == Standing # "holds" \/ Awaited # None => \E i \in 1..taken : AtFront(i)

Chains == ChainHolds /\ FrontHeld /\ FrontThere

CInv == Orderly(script) /\ Order /\ Begun /\ ChainOrder /\ InTurn /\ CurKinds /\ Chains

-----------------------------------------------------------------------------
Verdicts == Ended \cup {"silent", "quiet"}

\* Request i is answered by v.
Gives(i, v) ==
  /\ i \in 1..taken /\ v \in Verdicts
  /\ Decided[i] = "none"
  /\ Decided' = [Decided EXCEPT ![i] = v]

\* Places of the script, and what has been decided of them.
LEMMA ScriptFacts ==
  ASSUME IInv
  PROVE  /\ Len(script) \in Nat /\ DOMAIN script = 1..Len(script)
         /\ taken \in Nat /\ taken <= Len(script) /\ 1..taken \subseteq DOMAIN script
         /\ \A i \in DOMAIN script : script[i] \in Sqe
<1>1. script \in Seq(Sqe) /\ taken \in 0..Len(script)
  BY DEF IInv, Types, SqTypes
<1>2. QED
  BY <1>1, LenProperties, ElementOfSeq

LEMMA DecidedType ==
  ASSUME IInv
  PROVE  /\ Decided \in [DOMAIN script -> Verdicts \cup {"none"}]
         /\ \A i \in DOMAIN script : result[i] # "none" => Decided[i] = result[i]
         /\ wpc # "post" => Decided = result
<1>1. result \in [DOMAIN script -> Verdicts \cup {"none"}] /\ wres \in {"ok", "err"}
  BY DEF IInv, Types, SqTypes, FlagTypes, Verdicts
<1>2. \A i \in DOMAIN script : Decided[i] \in Verdicts \cup {"none"}
  BY <1>1 DEF Decided, Verdicts, Ended
<1>3. wpc = "post" => wop \in Active
  BY DEF IInv, Control, Active, AtWorker
<1>4. wpc = "post" => result[ud[wop]] = "none"
  BY <1>3 DEF IInv, Numbered
<1>5. \A i \in DOMAIN script : result[i] # "none" => Decided[i] = result[i]
  BY <1>4 DEF Decided
<1>6. wpc # "post" => Decided = result
  BY <1>1 DEF Decided
<1>7. Decided \in [DOMAIN script -> Verdicts \cup {"none"}]
  BY <1>2 DEF Decided
<1>8. QED
  BY <1>5, <1>6, <1>7

LEMMA Undecided ==
  ASSUME IInv, NEW o \in Active, o \notin AtWorker \/ wpc # "post"
  PROVE  Decided[ud[o]] = "none" /\ ud[o] \in 1..taken /\ ud[o] \in DOMAIN script
<1>1. ud[o] \in 1..taken /\ result[ud[o]] = "none" /\ ud[o] \in DOMAIN script
  BY ActiveFacts DEF IInv, Numbered
<1>2. wpc = "post" => wop \in Active /\ wop \in AtWorker
  BY DEF IInv, Control, Active, AtWorker
<1>3. wpc = "post" => ud[wop] # ud[o]
  BY <1>2 DEF IInv, Numbered, AtWorker
<1>4. QED
  BY <1>1, <1>3 DEF Decided

\* Posting an op that is not the worker's answers its request.
LEMMA PostGives ==
  ASSUME IInv, NEW o \in Active, o \notin AtWorker, NEW res \in Ended, Post(o, res),
         UNCHANGED <<script, taken, ud, wpc, wop, wres>>
  PROVE  Gives(ud[o], IF res = "ok" /\ SqeOf(o).skip THEN "silent" ELSE res)
<1> DEFINE v == IF res = "ok" /\ SqeOf(o).skip THEN "silent" ELSE res
<1>1. v \in Verdicts /\ result' = [result EXCEPT ![ud[o]] = v]
  BY DEF Post, Verdicts
<1> HIDE DEF v
<1>2. Decided[ud[o]] = "none" /\ ud[o] \in 1..taken /\ ud[o] \in DOMAIN script
  BY Undecided
<1>3. wpc = "post" => ud[wop] # ud[o]
  <2>1. wpc = "post" => wop \in Active /\ wop \in AtWorker
    BY DEF IInv, Control, Active, AtWorker
  <2>2. QED
    BY <2>1 DEF IInv, Numbered, AtWorker
<1>4. result \in [DOMAIN script -> Verdicts \cup {"none"}]
  BY DEF IInv, Types, SqTypes, Verdicts
<1>5. Decided' = [Decided EXCEPT ![ud[o]] = v]
  BY <1>1, <1>2, <1>3, <1>4 DEF Decided
<1>6. QED
  BY <1>1, <1>2, <1>5 DEF Gives, v

LEMMA QuietGives ==
  ASSUME IInv, NEW o \in Active, o \notin AtWorker, ReleaseQuietly(o),
         UNCHANGED <<script, taken, ud, wpc, wop, wres>>
  PROVE  Gives(ud[o], "quiet")
<1>1. "quiet" \in Verdicts /\ result' = [result EXCEPT ![ud[o]] = "quiet"]
  BY DEF ReleaseQuietly, Verdicts
<1>2. Decided[ud[o]] = "none" /\ ud[o] \in 1..taken /\ ud[o] \in DOMAIN script
  BY Undecided
<1>3. wpc = "post" => ud[wop] # ud[o]
  <2>1. wpc = "post" => wop \in Active /\ wop \in AtWorker
    BY DEF IInv, Control, Active, AtWorker
  <2>2. QED
    BY <2>1 DEF IInv, Numbered, AtWorker
<1>4. result \in [DOMAIN script -> Verdicts \cup {"none"}]
  BY DEF IInv, Types, SqTypes, Verdicts
<1>5. Decided' = [Decided EXCEPT ![ud[o]] = "quiet"]
  BY <1>1, <1>2, <1>3, <1>4 DEF Decided
<1>6. QED
  BY <1>1, <1>2, <1>5 DEF Gives

LEMMA DecidedSame ==
  ASSUME IInv, UNCHANGED <<script, ud, result>>,
         UNCHANGED <<wpc, wop, wres>> \/ (wpc # "post" /\ wpc' # "post")
  PROVE  Decided' = Decided
BY DEF Decided

LEMMA Stays ==
  ASSUME IInv, NEW i, NEW v, Gives(i, v) \/ Decided' = Decided
  PROVE  \A j \in DOMAIN script : Decided[j] # "none" => Decided'[j] = Decided[j]
BY DecidedType DEF Gives

LEMMA Turned ==
  ASSUME IInv, NEW i, NEW v, Gives(i, v)
  PROVE  /\ Decided'[i] = v /\ v # "none" /\ i \in DOMAIN script /\ i \in Nat
         /\ \A j \in DOMAIN script : j # i => Decided'[j] = Decided[j]
<1>1. Decided \in [DOMAIN script -> Verdicts \cup {"none"}] /\ 1..taken \subseteq DOMAIN script
  BY DecidedType, ScriptFacts
<1>2. QED
  BY <1>1 DEF Gives, Verdicts, Ended

\* There is one front.
LEMMA FrontOne ==
  ASSUME IInv, Order, NEW p, NEW r, AtFront(p), AtFront(r)
  PROVE  p = r
<1>1. /\ p \in 1..taken /\ r \in 1..taken /\ p \in Nat /\ r \in Nat /\ taken \in Nat
      /\ InChain(p) /\ InChain(r) /\ Past(p) /\ Past(r) /\ ~Past(p + 1) /\ ~Past(r + 1)
  BY ScriptFacts DEF AtFront, Past, InChain
<1>2. ASSUME NEW i \in 1..taken, NEW j \in 1..taken, Past(j), InChain(j), ~Past(i + 1), i < j
      PROVE  FALSE
  <2>1. i + 1 \in 1..taken /\ i + 1 <= j
    BY <1>1, <1>2
  <2>2. i + 1 \in QueuedIds
    BY <1>2, <2>1 DEF Past
  <2>3. j < i + 1
    BY <1>2, <2>2 DEF Order
  <2>4. QED
    BY <1>1, <2>1, <2>3
<1>3. ~(p < r) /\ ~(r < p)
  BY <1>1, <1>2
<1>4. QED
  BY <1>1, <1>3

\* Who is running stands at the front, if it leads anyone.
LEMMA CurAtFront ==
  ASSUME IInv, Order, pc \in {"exec", "cancel", "post"}
  PROVE  /\ Past(ud[cur]) /\ \A p : AtFront(p) => p = ud[cur]
         /\ script[ud[cur]].link => AtFront(ud[cur])
<1> DEFINE e == ud[cur]
<1>1. cur \in Active /\ InHand = {cur}
  BY CurFacts
<1>2. e \in 1..taken /\ taken \in Nat
  BY <1>1, ScriptFacts DEF IInv, Numbered
<1>3. e \notin QueuedIds
  <2>1. \A o \in InQueue : o \in Active /\ o # cur
    BY <1>1 DEF IInv, Apart, Active
  <2>2. QED
    BY <1>1, <2>1 DEF QueuedIds, IInv, Numbered
<1>4. Past(e) /\ Executing
  BY <1>2, <1>3 DEF Past, Executing
<1>5. /\ \A i \in 1..taken : Past(i) /\ InChain(i) => i <= e
      /\ \A q \in QueuedIds : e < q
  BY <1>4 DEF Order
<1> HIDE DEF e
<1>6. ASSUME NEW p, AtFront(p) PROVE p = e
  <2>1. p \in 1..taken /\ Past(p) /\ InChain(p) /\ ~Past(p + 1)
    BY <1>6 DEF AtFront, Past, InChain
  <2>2. p <= e
    BY <1>5, <2>1
  <2>3. CASE p < e
    <3>1. p + 1 \in 1..taken /\ p + 1 <= e
      BY <1>2, <2>1, <2>3
    <3>2. p + 1 \in QueuedIds
      BY <2>1, <3>1 DEF Past
    <3>3. e < p + 1
      BY <1>5, <3>2
    <3>4. QED
      BY <1>2, <2>1, <3>1, <3>3
  <2>4. QED
    BY <1>2, <2>1, <2>2, <2>3
<1>7. ASSUME script[e].link PROVE AtFront(e)
  <2>1. ASSUME Past(e + 1) PROVE FALSE
    <3>1. e + 1 \in 1..taken /\ e + 1 > 1 /\ (e + 1) - 1 = e
      BY <1>2, <2>1 DEF Past
    <3>2. InChain(e + 1)
      BY <1>7, <3>1 DEF InChain, Follower
    <3>3. e + 1 <= e
      BY <1>5, <2>1, <3>1, <3>2
    <3>4. QED
      BY <1>2, <3>3
  <2>2. QED
    BY <1>4, <1>7, <2>1 DEF AtFront
<1>8. QED
  BY <1>4, <1>6, <1>7 DEF e

\* And so does the op the queue waits for.
LEMMA AwaitedAtFront ==
  ASSUME IInv, Order, Chains, Awaited # None, blockedDone = None
  PROVE  AtFront(ud[Awaited]) /\ \A p : AtFront(p) => p = ud[Awaited]
<1>1. pc \notin {"exec", "cancel", "post"}
  BY DEF IInv, Control, Awaited
<1>2. ASSUME NEW p, AtFront(p) PROVE p = ud[Awaited]
  <2>1. p \in 1..taken
    BY <1>2 DEF AtFront, Past
  <2>2. QED
    BY <1>1, <1>2, <2>1 DEF Chains, FrontHeld, Held
<1>3. \E p \in 1..taken : AtFront(p)
  BY DEF Chains, FrontThere
<1>4. QED
  BY <1>2, <1>3

\* A word, once given, stands.
LEMMA WordSame ==
  ASSUME IInv, InTurn, NEW i, NEW v, Gives(i, v) \/ Decided' = Decided, script' = script,
         NEW p \in 1..taken, Decided[p] # "none"
  PROVE  Word(p)' = Word(p)
<1>1. p \in DOMAIN script /\ p \in Nat /\ p >= 1 /\ (p > 1 => p - 1 \in DOMAIN script)
  BY ScriptFacts
<1>2. Decided'[p] = Decided[p]
  BY <1>1, Stays
<1>3. Follower(p) => Decided'[p - 1] = Decided[p - 1]
  <2>1. Follower(p) => Decided[p - 1] # "none" /\ p - 1 \in DOMAIN script
    BY <1>1 DEF InTurn, Follower
  <2>2. QED
    BY <2>1, Stays
<1>4. QED
  BY <1>2, <1>3 DEF Word, Requests!FateAfter, Requests!FailedItself, Requests!Follows,
                    Requests!Succeeded, Follower

\* The word of a member that failed of itself is its own.
LEMMA WordOwn ==
  ASSUME script' = script, NEW e, Decided'[e] \notin {"none", "quiet"},
         Follower(e) => Decided'[e - 1] \in {"ok", "silent"}
  PROVE  Word(e)' = IF Decided'[e] \in {"ok", "silent"} THEN "holds"
                    ELSE IF script[e].skip THEN "quiet" ELSE "cancels"
BY DEF Word, Requests!FateAfter, Requests!FailedItself, Requests!Follows,
       Requests!Succeeded, Follower

\* What has begun follows one that succeeded; answers come in turn.
LEMMA BegunFollows ==
  ASSUME ChainOrder, NEW i \in began, Follower(i)
  PROVE  Decided[i - 1] \in {"ok", "silent"}
BY DEF ChainOrder, Follower

LEMMA TurnKept ==
  ASSUME IInv, InTurn, NEW i, NEW v, Gives(i, v) \/ Decided' = Decided, UNCHANGED <<script, taken>>,
         Gives(i, v) /\ Follower(i) => Decided[i - 1] # "none"
  PROVE  InTurn'
<1>1. Follower(i)' = Follower(i) /\ \A j : Follower(j)' <=> Follower(j)
  BY DEF Follower
<1>2. SUFFICES ASSUME NEW j \in 1..taken, Follower(j), Decided'[j] # "none"
               PROVE  Decided'[j - 1] # "none"
  BY <1>1 DEF InTurn
<1>3. j \in DOMAIN script /\ j \in Nat /\ j >= 1 /\ j - 1 \in DOMAIN script
  BY <1>2, ScriptFacts DEF Follower
<1>4. Decided[j - 1] # "none"
  <2>1. CASE Decided[j] # "none"
    BY <1>2, <2>1 DEF InTurn
  <2>2. CASE Decided[j] = "none"
    <3>1. Gives(i, v) /\ j = i
      BY <1>2, <1>3, <2>2, Turned
    <3>2. QED
      BY <1>2, <3>1
  <2>3. QED
    BY <2>1, <2>2
<1>5. QED
  BY <1>3, <1>4, Stays

LEMMA ChainOrderKept ==
  ASSUME IInv, CInv, NEW i, NEW v, Gives(i, v) \/ Decided' = Decided, UNCHANGED script,
         \A j \in began' \ began : Follower(j) => Decided[j - 1] \in {"ok", "silent"} /\ j \in DOMAIN script
  PROVE  ChainOrder'
<1>1. SUFFICES ASSUME NEW j \in began', j > 1, script[j - 1].link
               PROVE  Decided'[j - 1] \in {"ok", "silent"}
  BY DEF ChainOrder
<1>2. Follower(j)
  BY <1>1 DEF Follower
<1>3. j \in DOMAIN script /\ Decided[j - 1] \in {"ok", "silent"}
  BY <1>1, <1>2, BegunFollows, ScriptFacts DEF CInv, Begun
<1>4. j - 1 \in DOMAIN script
  BY <1>1, <1>3, ScriptFacts
<1>5. QED
  BY <1>3, <1>4, Stays

-----------------------------------------------------------------------------
\* The queue loses at most requests that are in no chain, and not their order.
Loosens ==
  /\ UNCHANGED <<script, taken, ud>>
  /\ QueuedIds' \subseteq QueuedIds
  /\ \A j \in QueuedIds \ QueuedIds' : ~InChain(j)
  /\ \A i, j \in DOMAIN queue' : i < j => ud[queue'[i]] < ud[queue'[j]]

\* The front does not change by that.
LEMMA LooseQueue ==
  ASSUME Loosens
  PROVE  /\ \A j : Past(j)' /\ InChain(j) => Past(j)
         /\ \A j : Past(j) => Past(j)'
         /\ \A j \in 1..taken : AtFront(j)' <=> AtFront(j)
         /\ \A j : InChain(j)' <=> InChain(j)
<1>1. taken' = taken /\ script' = script
  BY DEF Loosens
<1>2. \A j : Past(j)' /\ InChain(j) => Past(j)
  BY <1>1 DEF Loosens, Past
<1>3. \A j : Past(j) => Past(j)'
  BY <1>1 DEF Loosens, Past
<1>4. \A j : InChain(j)' <=> InChain(j)
  BY <1>1 DEF InChain, Follower
<1>5. ASSUME NEW j \in 1..taken, script[j].link PROVE InChain(j) /\ InChain(j + 1)
  <2>1. j + 1 > 1 /\ (j + 1) - 1 = j
    OBVIOUS
  <2>2. QED
    BY <1>5, <2>1 DEF InChain, Follower
<1>6. ASSUME NEW j \in 1..taken PROVE AtFront(j)' <=> AtFront(j)
  <2>1. AtFront(j)' <=> Past(j)' /\ script[j].link /\ ~Past(j + 1)'
    BY <1>1 DEF AtFront
  <2>2. QED
    BY <1>2, <1>3, <1>5, <2>1 DEF AtFront
<1>7. QED
  BY <1>2, <1>3, <1>4, <1>6

\* The thread inside enter keeps the op it is about, and what the queue waits for.
HandSame ==
  /\ Awaited' = Awaited
  /\ Executing' <=> Executing
  /\ Executing => cur' = cur
  /\ pc' = "stall" <=> pc = "stall"

LEMMA OrderKept ==
  ASSUME Order, Loosens, Executing' => Executing /\ cur' = cur
  PROVE  Order'
<1>1. /\ \A j : Past(j)' /\ InChain(j) => Past(j)
      /\ \A j : InChain(j)' <=> InChain(j)
  BY LooseQueue
<1>2. UNCHANGED <<script, taken, ud>> /\ QueuedIds' \subseteq QueuedIds
  BY DEF Loosens
<1>3. \A i, j \in DOMAIN queue' : i < j => ud'[queue'[i]] < ud'[queue'[j]]
  BY DEF Loosens
<1>4. \A i \in 1..taken' : Past(i)' /\ InChain(i)' => \A q \in QueuedIds' : i < q
  BY <1>1, <1>2 DEF Order
<1>5. Executing' => \A i \in 1..taken' : Past(i)' /\ InChain(i)' => i <= ud'[cur']
  BY <1>1, <1>2 DEF Order
<1>6. Executing' => \A q \in QueuedIds' : ud'[cur'] < q
  BY <1>1, <1>2 DEF Order
<1>7. QED
  BY <1>3, <1>4, <1>5, <1>6 DEF Order

\* What happens beside the chain leaves its standing.
LEMMA ChainsBeside ==
  ASSUME IInv, CInv, Loosens, HandSame, UNCHANGED <<chain, blockedDone, blockedFailed>>,
         NEW i, NEW v, (Gives(i, v) /\ ~script[i].link) \/ Decided' = Decided
  PROVE  Chains'
<1>1. UNCHANGED <<script, taken, ud>>
  BY DEF Loosens
<1>2. \A j \in 1..taken : AtFront(j)' <=> AtFront(j)
  BY LooseQueue
<1>3. Standing' = Standing
  BY DEF Standing
<1>4. ChainHolds'
  BY DEF HandSame, CInv, Chains, ChainHolds
<1>5. FrontThere'
  BY <1>1, <1>2, <1>3 DEF HandSame, CInv, Chains, FrontThere
<1>6. \A p : Held(p) => Held(p)'
  BY <1>1 DEF Held, HandSame, Executing
<1>7. ASSUME NEW p \in 1..taken, AtFront(p)
      PROVE  \/ Decided'[p] = "none" /\ Held(p)'
             \/ Decided'[p] # "none" /\ (Awaited' = None \/ blockedDone' # None) /\ Word(p)' = Standing'
  <2>1. p \in DOMAIN script /\ script[p].link
    BY <1>7, ScriptFacts DEF AtFront
  <2>2. CASE Decided[p] = "none" /\ Held(p)
    <3>1. Decided'[p] = Decided[p]
      BY <2>1, Turned
    <3>2. QED
      BY <1>6, <2>2, <3>1
  <2>3. CASE Decided[p] # "none" /\ (Awaited = None \/ blockedDone # None) /\ Word(p) = Standing
    <3>1. Decided'[p] # "none" /\ Word(p)' = Word(p)
      BY <1>1, <2>1, <2>3, Stays, WordSame DEF CInv
    <3>2. QED
      BY <1>3, <2>3, <3>1 DEF HandSame
  <2>4. QED
    BY <1>7, <2>2, <2>3 DEF CInv, Chains, FrontHeld
<1>8. FrontHeld'
  BY <1>1, <1>2, <1>7 DEF FrontHeld
<1>9. QED
  BY <1>4, <1>5, <1>8 DEF Chains

\* The word after request e, which is at the front if anyone is, was answered by v.
WordOf(e, v) ==
  IF script[e].link /\ v \notin {"ok", "silent"} THEN IF script[e].skip THEN "quiet" ELSE "cancels"
  ELSE "holds"

LEMMA ChainsFront ==
  ASSUME IInv, CInv, UNCHANGED <<script, taken, ud, queue>>,
         NEW e \in began, NEW v, v # "quiet", Gives(e, v),
         \A p : AtFront(p) => p = e, script[e].link => AtFront(e),
         Awaited' = None \/ (blockedDone' # None /\ script[e].link),
         Standing' = WordOf(e, v), ChainHolds'
  PROVE  Chains'
<1>1. QueuedIds' = QueuedIds
  BY DEF QueuedIds, InQueue
<1>2. \A j : AtFront(j)' <=> AtFront(j)
  BY <1>1 DEF AtFront, Past
<1>3. e \in 1..taken /\ e \in DOMAIN script /\ Decided'[e] = v /\ v # "none"
  BY Turned DEF Gives
<1>4. Follower(e) => Decided'[e - 1] \in {"ok", "silent"}
  <2>1. Follower(e) => Decided[e - 1] \in {"ok", "silent"} /\ e - 1 \in DOMAIN script
    BY <1>3, BegunFollows, ScriptFacts DEF CInv, Follower
  <2>2. QED
    BY <2>1, Stays
<1>5. script[e].link => Word(e)' = Standing'
  BY <1>3, <1>4, WordOwn DEF WordOf
<1>6. FrontHeld'
  <2>1. \A p \in 1..taken : AtFront(p) => p = e /\ script[e].link
    BY DEF AtFront
  <2>2. QED
    BY <1>2, <1>3, <1>5, <2>1 DEF FrontHeld
<1>7. FrontThere'
  BY <1>2, <1>3 DEF FrontThere, WordOf
<1>8. QED
  BY <1>6, <1>7 DEF Chains

-----------------------------------------------------------------------------
\* A step that answers one request, as it may be answered, or none.
ReqStep ==
  \/ \E i \in DOMAIN script, v \in Requests!Answers : Requests!Answer(i, v)
  \/ Decided' = Decided

\* LinkedRequests allows an answer that is the request's own.
LEMMA AnsweredItself ==
  ASSUME IInv, CInv, NEW i, NEW v, Gives(i, v), v # "quiet",
         Follower(i) => Decided[i - 1] \in {"ok", "silent"},
         (v = "silent") <=> (v \in {"ok", "silent"} /\ script[i].skip),
         v = "canceled" => \E c \in 1..taken : i \in script[c].names
  PROVE  ReqStep
<1>1. Requests!Follows(i) => Requests!Succeeded(i - 1)
  BY DEF Requests!Follows, Requests!Succeeded, Follower
<1>2. Requests!MayAnswer(i, v)
  BY <1>1 DEF Requests!MayAnswer
<1>3. Requests!Follows(i) => Decided[i - 1] # "none"
  BY DEF Requests!Follows, Follower
<1>4. Requests!Answer(i, v)
  BY <1>2, <1>3 DEF Requests!Answer, Gives
<1>5. i \in DOMAIN script /\ v \in Requests!Answers
  BY Turned DEF Gives, Verdicts, Ended, Requests!Answers
<1>6. QED
  BY <1>4, <1>5 DEF ReqStep

\* A step that answers at most one request outside every chain's front.
LEMMA BesideKeeps ==
  ASSUME IInv, IInv', CInv, Loosens, HandSame, UNCHANGED <<chain, blockedDone, blockedFailed, began>>,
         Pool \subseteq Pool', InQueue \ InQueue' \subseteq Pool', CurKinds',
         NEW i, NEW v,
         \/ Gives(i, v) /\ ~script[i].link /\ (Follower(i) => Decided[i - 1] \in {"ok", "silent"})
         \/ Decided' = Decided
  PROVE  CInv'
<1>1. UNCHANGED <<script, taken, ud>>
  BY DEF Loosens
<1>2. Order'
  BY OrderKept DEF CInv, HandSame
<1>3. Begun'
  <2>1. Active' = Op \ Pool' /\ Active = Op \ Pool
    BY DEF IInv, Apart
  <2>2. \A o \in Active' \ InQueue' : o \in Active \ InQueue
    BY <2>1
  <2>3. QED
    BY <1>1, <2>2 DEF CInv, Begun
<1>4. InTurn'
  <2>1. Gives(i, v) /\ Follower(i) => Decided[i - 1] # "none"
    BY ScriptFacts, DecidedType DEF Gives, Verdicts, Ended
  <2>2. QED
    BY <1>1, <2>1, TurnKept DEF CInv
<1>5. ChainOrder'
  BY <1>1, ChainOrderKept
<1>6. Chains'
  BY ChainsBeside
<1>7. QED
  BY <1>1, <1>2, <1>3, <1>4, <1>5, <1>6 DEF CInv

LEMMA NoneGone ==
  ASSUME CInv, UNCHANGED <<script, taken, ud, queue>>
  PROVE  Loosens /\ InQueue' = InQueue
BY DEF CInv, Order, Loosens, QueuedIds, InQueue

\* A step that neither takes, begins nor answers, and leaves the queue to wait as it did.
Unseen ==
  /\ UNCHANGED <<script, taken, ud, queue, began, result, chain, blockedDone, blockedFailed>>
  /\ UNCHANGED <<wpc, wop, wres>> \/ (wpc # "post" /\ wpc' # "post")
  /\ HandSame
  /\ Pool' = Pool
  /\ CurKinds'

LEMMA UnseenKeeps ==
  ASSUME IInv, IInv', CInv, Unseen
  PROVE  CInv' /\ ReqStep
<1>1. Decided' = Decided
  BY DecidedSame DEF Unseen
<1>2. Loosens /\ InQueue' = InQueue
  BY NoneGone DEF Unseen
<1>3. CInv'
  BY <1>1, <1>2, BesideKeeps DEF Unseen
<1>4. QED
  BY <1>1, <1>3 DEF ReqStep

LEMMA PoolSame ==
  ASSUME UNCHANGED <<free, backlog>>
  PROVE  Pool' = Pool
BY DEF Pool, OpsOf

LEMMA CurKindsSame ==
  ASSUME CurKinds, UNCHANGED <<script, ud>>,
         UNCHANGED <<pc, cur, curres>> \/ pc' \notin {"cancel", "post"}
  PROVE  CurKinds'
BY DEF CurKinds, SqeOf

\* Steps of enter's frame, of the OS, of the caller and of the wait.
LEMMA OutsideUnseen ==
  ASSUME IInv, CInv,
         UNCHANGED <<script, taken, ud, queue, began, result, chain, blocking, blockedDone,
                     blockedFailed, free, backlog>>,
         UNCHANGED <<wpc, wop, wres>> \/ (wpc # "post" /\ wpc' # "post"),
         UNCHANGED <<pc, cur, curres>> \/ {pc, pc'} \cap {"exec", "stall", "cancel", "post"} = {}
  PROVE  Unseen
<1>1. HandSame
  BY DEF HandSame, Awaited, Executing
<1>2. CurKinds'
  BY CurKindsSame DEF CInv
<1>3. QED
  BY <1>1, <1>2, PoolSame DEF Unseen

LEMMA OutsideSteps ==
  ASSUME IInv, IInv', CInv,
         \/ CallerEnters \/ TakeEnd \/ Return \/ CheckWait \/ RunEnd \/ RetryEnd \/ CompleteEnd
         \/ (\E o \in Op : Unpark(o) \/ Fire(o)) \/ TryPark
         \/ (\E res \in {"ok", "err"} : TryDone(res))
         \/ (\E S \in SUBSET fired, drained \in BOOLEAN : WaitReturns(S, drained))
         \/ WorkerPop \/ WorkerPoke \/ Reap \/ UNCHANGED vars
  PROVE  CInv' /\ ReqStep
<1>1. /\ UNCHANGED <<script, taken, ud, queue, began, result, chain, blocking, blockedDone,
                     blockedFailed, free, backlog>>
      /\ UNCHANGED <<wpc, wop, wres>> \/ (wpc # "post" /\ wpc' # "post")
      /\ UNCHANGED <<pc, cur, curres>> \/ {pc, pc'} \cap {"exec", "stall", "cancel", "post"} = {}
  <2>1. CASE CallerEnters \/ TakeEnd \/ Return \/ CheckWait \/ RunEnd \/ RetryEnd \/ CompleteEnd
    BY <2>1 DEF CallerEnters, Enter, TakeEnd, AfterRun, Return, CheckWait, RunEnd, RetryEnd, CompleteEnd
  <2>2. CASE (\E o \in Op : Unpark(o) \/ Fire(o)) \/ TryPark \/ (\E res \in {"ok", "err"} : TryDone(res))
    BY <2>2 DEF Unpark, Fire, TryPark, TryDone
  <2>3. CASE \E S \in SUBSET fired, drained \in BOOLEAN : WaitReturns(S, drained)
    BY <2>3 DEF WaitReturns
  <2>4. CASE WorkerPop \/ WorkerPoke \/ Reap \/ UNCHANGED vars
    BY <2>4 DEF WorkerPop, WorkerPoke, Reap, vars
  <2>5. QED
    BY <2>1, <2>2, <2>3, <2>4
<1>2. Unseen
  BY <1>1, OutsideUnseen
<1>3. QED
  BY <1>2, UnseenKeeps

\* Steps that leave the op in hand.
LEMMA InsideSteps ==
  ASSUME IInv, IInv', CInv, EmitOne \/ ExecMsg \/ ExecCancel \/ CancelEnd
  PROVE  CInv' /\ ReqStep
<1>1. /\ UNCHANGED <<script, taken, ud, queue, began, chain, blocking, blockedDone, blockedFailed,
                     cur, wpc, wop, wres>>
      /\ pc \in {"exec", "cancel", "try"}
      /\ pc' = pc \/ (pc' \in {"exec", "cancel", "post"} /\ pc # "try")
  BY DEF EmitOne, ExecMsg, ExecCancel, CancelEnd
<1>2. HandSame
  BY <1>1 DEF HandSame, Awaited, Executing
<1>3. result' = result /\ Pool' = Pool
  <2>1. ud[cur] \in 1..Len(script)
    BY <1>1, CurFacts, ActiveFacts
  <2>2. Emit(ud[cur]) \/ UNCHANGED postVars
    BY DEF EmitOne, ExecMsg, ExecCancel, CancelEnd
  <2>3. CASE Emit(ud[cur])
    BY <1>1, <2>1, <2>3, EmitPool DEF IInv, PoolKeeps
  <2>4. CASE UNCHANGED postVars
    BY <2>4, PoolSame
  <2>5. QED
    BY <2>2, <2>3, <2>4
<1>4. CurKinds'
  <2>1. SqeOf(cur)' = SqeOf(cur)
    BY <1>1 DEF SqeOf
  <2>2. CASE EmitOne
    BY <1>1, <2>1, <2>2 DEF EmitOne, CInv, CurKinds
  <2>3. CASE ExecMsg
    BY <1>1, <2>1, <2>3 DEF ExecMsg, CurKinds
  <2>4. CASE ExecCancel
    BY <1>1, <2>1, <2>4 DEF ExecCancel, CurKinds
  <2>5. CASE CancelEnd
    BY <1>1, <2>1, <2>5 DEF CancelEnd, CInv, CurKinds
  <2>6. QED
    BY <2>2, <2>3, <2>4, <2>5
<1>5. Unseen
  BY <1>1, <1>2, <1>3, <1>4 DEF Unseen
<1>6. QED
  BY <1>5, UnseenKeeps

-----------------------------------------------------------------------------
\* A step that answers the request at the front, or one that leads nobody.
LEMMA AnswerKeeps ==
  ASSUME IInv, IInv', CInv, UNCHANGED <<script, taken, ud, queue, began>>,
         Executing' => Executing /\ cur' = cur,
         Pool \subseteq Pool', CurKinds', Chains',
         NEW e \in began, NEW v, Gives(e, v)
  PROVE  CInv'
<1>1. Loosens /\ InQueue' = InQueue
  BY NoneGone
<1>2. Order'
  BY <1>1, OrderKept DEF CInv
<1>3. Begun'
  <2>1. Active' = Op \ Pool' /\ Active = Op \ Pool
    BY DEF IInv, Apart
  <2>2. \A o \in Active' \ InQueue' : o \in Active \ InQueue
    BY <1>1, <2>1
  <2>3. QED
    BY <2>2 DEF CInv, Begun
<1>4. InTurn'
  <2>1. Follower(e) => Decided[e - 1] # "none"
    BY BegunFollows DEF CInv
  <2>2. QED
    BY <2>1, TurnKept DEF CInv
<1>5. ChainOrder'
  BY ChainOrderKept
<1>6. QED
  BY <1>2, <1>3, <1>4, <1>5 DEF CInv

\* The answer to the request in hand, or to the one the queue waits for.
AnswerOf(o, res) == IF res = "ok" /\ SqeOf(o).skip THEN "silent" ELSE res

LEMMA AnswerFits ==
  ASSUME NEW o, NEW res \in Ended
  PROVE  /\ AnswerOf(o, res) # "quiet"
         /\ (AnswerOf(o, res) = "silent") <=> (AnswerOf(o, res) \in {"ok", "silent"} /\ script[ud[o]].skip)
         /\ AnswerOf(o, res) = "canceled" <=> res = "canceled"
         /\ AnswerOf(o, res) \in {"ok", "silent"} <=> ~Failed(res)
BY Zenon DEF AnswerOf, Ended, SqeOf, Failed

LEMMA CurAnswers ==
  ASSUME IInv, IInv', CInv, pc \in {"exec", "post"}, pc' = "run", cur' = None,
         NEW res \in Ended \ {"canceled"}, Post(cur, res),
         chain' = IF Failed(res) /\ Linked(cur) THEN ChainFailureOf(cur) ELSE chain,
         UNCHANGED <<script, taken, ud, queue, began, blocking, blockedDone, blockedFailed,
                     wpc, wop, wres>>
  PROVE  CInv' /\ ReqStep
<1> DEFINE e == ud[cur]
           v == AnswerOf(cur, res)
<1>1. cur \in Active /\ cur \notin InQueue /\ cur \notin AtWorker /\ cur \in Op
  BY CurFacts DEF IInv, Apart
<1>2. blocking = None /\ Awaited = None /\ Awaited' = None /\ blockedDone = None /\ chain = "holds"
  <2>1. blocking = None /\ Awaited = None /\ Awaited' = None
    BY DEF IInv, Control, Awaited
  <2>2. blockedDone = None
    BY <2>1 DEF IInv, StallInv
  <2>3. QED
    BY <2>1, <2>2 DEF CInv, Chains, ChainHolds, Executing
<1>3. Gives(e, v)
  BY <1>1, PostGives DEF AnswerOf
<1>4. e \in began
  BY <1>1 DEF CInv, Begun
<1>5. Past(e) /\ (\A p : AtFront(p) => p = e) /\ (script[e].link => AtFront(e))
  BY CurAtFront DEF CInv
<1>6. /\ v # "quiet" /\ v # "canceled"
      /\ (v = "silent") <=> (v \in {"ok", "silent"} /\ script[e].skip)
      /\ v \in {"ok", "silent"} <=> ~Failed(res)
  BY AnswerFits
<1>7. Standing' = WordOf(e, v)
  <2>1. Standing' = chain'
    BY <1>2 DEF Standing
  <2>2. Linked(cur) <=> script[e].link
    BY DEF Linked, SqeOf
  <2>3. ChainFailureOf(cur) = IF script[e].skip THEN "quiet" ELSE "cancels"
    BY DEF ChainFailureOf, SqeOf
  <2> HIDE DEF e, v
  <2>4. QED
    BY <1>2, <1>6, <2>1, <2>2, <2>3 DEF WordOf
<1>8. Follower(e) => Decided[e - 1] \in {"ok", "silent"}
  BY <1>4, BegunFollows DEF CInv
<1> HIDE DEF e, v
<1>9. Pool \subseteq Pool'
  BY <1>1, PostEnds DEF Ends, PoolGets
<1>10. Chains'
  <2>1. ChainHolds'
    BY <1>2 DEF ChainHolds, Executing
  <2>2. QED
    BY <1>2, <1>3, <1>4, <1>5, <1>6, <1>7, <2>1, ChainsFront
<1>11. CurKinds' /\ ~Executing'
  BY DEF CurKinds, Executing
<1>12. CInv'
  BY <1>3, <1>4, <1>9, <1>10, <1>11, AnswerKeeps
<1>13. ReqStep
  BY <1>3, <1>6, <1>8, AnsweredItself
<1>14. QED
  BY <1>12, <1>13

LEMMA ExecDoneSteps ==
  ASSUME IInv, IInv', CInv, NEW res \in {"ok", "err"}, ExecDone(res)
  PROVE  CInv' /\ ReqStep
<1>1. res \in Ended \ {"canceled"}
  BY DEF Ended
<1>2. QED
  BY <1>1, CurAnswers DEF ExecDone

LEMMA PostCurSteps ==
  ASSUME IInv, IInv', CInv, PostCur
  PROVE  CInv' /\ ReqStep
<1>1. pc = "post" /\ ud[cur] \in DOMAIN script
  BY CurFacts, ActiveFacts DEF PostCur
<1>2. curres \in {"ok", "err", "enoent", "ealready"}
  BY <1>1 DEF CInv, CurKinds
<1>3. curres \in Ended \ {"canceled"}
  BY <1>2 DEF Ended
<1>4. Failed(curres) /\ Linked(cur) => SqeOf(cur).kind = "cancel"
  <2>1. CASE curres = "err"
    BY <1>1, <2>1 DEF CInv, CurKinds, Orderly, Linked, SqeOf
  <2>2. CASE curres # "err"
    BY <1>1, <1>2, <2>2 DEF CInv, CurKinds, Failed
  <2>3. QED
    BY <2>1, <2>2
<1>5. chain' = IF Failed(curres) /\ Linked(cur) THEN ChainFailureOf(cur) ELSE chain
  BY <1>4 DEF PostCur
<1>6. QED
  BY <1>1, <1>3, <1>5, CurAnswers DEF PostCur

-----------------------------------------------------------------------------
\* The op in hand goes to the park set or to the worker.
LEMMA HandOver ==
  ASSUME IInv, IInv', CInv, ExecPark \/ ExecHand
  PROVE  CInv' /\ ReqStep
<1> DEFINE e == ud[cur]
<1>0. /\ pc = "exec" /\ pc' \in {"run", "stall"} /\ (pc' = "stall" => cur' = cur)
      /\ UNCHANGED <<script, taken, ud, queue, began, result, chain, blockedDone, blockedFailed,
                     wpc, wop, wres, free, backlog>>
      /\ Awaited' = IF Linked(cur) THEN cur ELSE blocking
  BY DEF ExecPark, ExecHand, Awaited
<1>1. cur \in Active /\ cur \in Op /\ cur # None /\ cur \notin AtWorker
  BY <1>0, CurFacts DEF IInv, Apart
<1>2. blocking = None /\ blockedDone = None /\ chain = "holds"
  <2>1. blocking = None /\ Awaited = None
    BY <1>0 DEF IInv, Control, Awaited
  <2>2. blockedDone = None
    BY <2>1 DEF IInv, StallInv
  <2>3. QED
    BY <1>0, <2>1, <2>2 DEF CInv, Chains, ChainHolds, Executing
<1>3. Decided' = Decided /\ Pool' = Pool
  BY <1>0, DecidedSame, PoolSame
<1>4. Loosens /\ InQueue' = InQueue
  BY <1>0, NoneGone
<1>5. Order'
  BY <1>0, <1>4, OrderKept DEF CInv, Executing
<1>6. Begun'
  <2>1. Active' = Op \ Pool' /\ Active = Op \ Pool
    BY DEF IInv, Apart
  <2>2. \A o \in Active' \ InQueue' : o \in Active \ InQueue
    BY <1>3, <1>4, <2>1
  <2>3. QED
    BY <1>0, <2>2 DEF CInv, Begun
<1>7. InTurn' /\ ChainOrder'
  BY <1>0, <1>3 DEF CInv, InTurn, ChainOrder, Follower
<1>8. CurKinds'
  BY <1>0 DEF CurKinds
<1>9. Decided[e] = "none" /\ e \in 1..taken
  BY <1>1, Undecided
<1>10. (\A p : AtFront(p) => p = e) /\ (script[e].link => AtFront(e)) /\ (Linked(cur) <=> script[e].link)
  BY <1>0, CurAtFront DEF CInv, Linked, SqeOf
<1>11. \A j \in 1..taken : AtFront(j)' <=> AtFront(j)
  BY <1>4, LooseQueue
<1> HIDE DEF e
<1>12. Chains'
  <2>1. ChainHolds'
    BY <1>0, <1>2 DEF ChainHolds
  <2>2. FrontHeld'
    <3>1. \A p \in 1..taken : AtFront(p) => p = e /\ script[e].link
      BY <1>10 DEF AtFront
    <3>2. \A j : Linked(cur) /\ j = e => Held(j)'
      BY <1>0, <1>1, <1>2 DEF Held, e
    <3>3. QED
      BY <1>0, <1>3, <1>9, <1>10, <1>11, <3>1, <3>2 DEF FrontHeld
  <2>3. FrontThere'
    <3>1. Standing' = "holds"
      BY <1>0, <1>2 DEF Standing
    <3>2. QED
      BY <1>0, <1>2, <1>9, <1>10, <1>11, <3>1 DEF FrontThere
  <2>4. QED
    BY <2>1, <2>2, <2>3 DEF Chains
<1>13. QED
  BY <1>0, <1>3, <1>5, <1>6, <1>7, <1>8, <1>12 DEF CInv, ReqStep

\* The stall is noted, or the ticket settled: the chain stands as it did.
LEMMA StallSettleSteps ==
  ASSUME IInv, IInv', CInv, Stall \/ Settle
  PROVE  CInv' /\ ReqStep
<1>0. /\ UNCHANGED <<script, taken, ud, queue, began, result, wpc, wop, wres>>
      /\ pc' \in {"run", "check"} /\ pc \in {"stall", "settle"}
  BY DEF Stall, Settle
<1>1. Decided' = Decided
  BY <1>0, DecidedSame
<1>2. Pool' = Pool
  BY PoolSame, DrainPool DEF IInv, DrainOK, Pool, Stall, Settle
<1>3. Loosens /\ InQueue' = InQueue
  BY <1>0, NoneGone
<1>4. Order'
  BY <1>0, <1>3, OrderKept DEF CInv, Executing
<1>5. Begun'
  <2>1. Active' = Op \ Pool' /\ Active = Op \ Pool
    BY DEF IInv, Apart
  <2>2. \A o \in Active' \ InQueue' : o \in Active \ InQueue
    BY <1>2, <1>3, <2>1
  <2>3. QED
    BY <1>0, <2>2 DEF CInv, Begun
<1>6. InTurn' /\ ChainOrder'
  BY <1>0, <1>1 DEF CInv, InTurn, ChainOrder, Follower
<1>7. CurKinds'
  BY <1>0 DEF CurKinds
<1>8. \A j \in 1..taken : AtFront(j)' <=> AtFront(j)
  BY <1>3, LooseQueue
<1>9. \A j \in 1..taken : Decided[j] # "none" => Word(j)' = Word(j)
  BY <1>0, <1>1, WordSame DEF CInv
<1>10. CASE UNCHANGED <<chain, blockedDone, blockedFailed>> /\ Awaited' = Awaited
  <2>1. Standing' = Standing /\ \A j : Held(j) => Held(j)'
    BY <1>0, <1>10 DEF Standing, Held
  <2>2. ChainHolds'
    BY <1>0, <1>10 DEF ChainHolds, CInv, Chains, Executing
  <2>3. FrontHeld'
    BY <1>0, <1>1, <1>8, <1>9, <1>10, <2>1 DEF FrontHeld, CInv, Chains
  <2>4. FrontThere'
    BY <1>0, <1>8, <1>10, <2>1 DEF FrontThere, CInv, Chains
  <2>5. QED
    BY <1>0, <1>1, <1>4, <1>5, <1>6, <1>7, <2>2, <2>3, <2>4 DEF CInv, ReqStep, Chains
<1>11. CASE Settle /\ blockedDone # None /\ blockedDone = blocking
  <2>1. /\ pc = "settle" /\ pc' = "check" /\ Awaited = blocking /\ Awaited # None /\ Awaited' = None
        /\ blockedDone' = None
        /\ chain' = IF blockedFailed # "holds" THEN blockedFailed ELSE chain
    BY <1>11 DEF Settle, Awaited
  <2>2. chain = "holds"
    BY <2>1 DEF CInv, Chains, ChainHolds
  <2>3. Standing' = Standing
    BY <1>11, <2>1, <2>2 DEF Standing
  <2>4. ChainHolds'
    BY <2>1 DEF ChainHolds, Executing
  <2>5. FrontHeld'
    <3>1. \A j : ~Held(j)
      BY <1>11, <2>1 DEF Held
    <3>2. QED
      BY <1>0, <1>1, <1>8, <1>9, <2>1, <2>3, <3>1 DEF FrontHeld, CInv, Chains
  <2>6. FrontThere'
    BY <1>0, <1>8, <2>1, <2>3 DEF FrontThere, CInv, Chains
  <2>7. QED
    BY <1>0, <1>1, <1>4, <1>5, <1>6, <1>7, <2>4, <2>5, <2>6 DEF CInv, ReqStep, Chains
<1>12. QED
  BY <1>10, <1>11 DEF Stall, Settle, Awaited

-----------------------------------------------------------------------------
LEMMA QueueFacts ==
  ASSUME IInv
  PROVE  /\ queue \in Seq(Op) /\ DOMAIN queue = 1..Len(queue) /\ Len(queue) \in Nat
         /\ \A i \in DOMAIN queue : queue[i] \in InQueue
         /\ \A o \in InQueue : o \in Active /\ ud[o] \in 1..taken /\ ud[o] \in Nat
         /\ \A x \in QueuedIds : x \in 1..taken /\ x \in Nat
         /\ \A o \in InQueue : \E i \in DOMAIN queue : o = queue[i]
<1>1. queue \in Seq(Op) /\ DOMAIN queue = 1..Len(queue) /\ Len(queue) \in Nat
  BY LenProperties DEF IInv, Types, HomeTypes
<1>2. \A o \in InQueue : o \in Active /\ ud[o] \in 1..taken /\ ud[o] \in Nat
  BY ScriptFacts DEF IInv, Numbered, Active
<1>3. QED
  BY <1>1, <1>2 DEF QueuedIds, InQueue, ToSet

\* The head of the queue is the oldest request in it.
LEMMA HeadFirst ==
  ASSUME IInv, Order, queue # <<>>
  PROVE  LET q == ud[Head(queue)] IN
         /\ q \in QueuedIds /\ \A x \in QueuedIds : x = q \/ q < x
         /\ {ud[p] : p \in ToSet(Tail(queue))} = QueuedIds \ {q}
         /\ \A i, j \in DOMAIN Tail(queue) : i < j => ud[Tail(queue)[i]] < ud[Tail(queue)[j]]
         /\ ToSet(Tail(queue)) = InQueue \ {Head(queue)} /\ Head(queue) \in InQueue
<1> DEFINE o == Head(queue)
           q == ud[o]
<1>1. /\ o = queue[1] /\ Len(queue) \in Nat /\ Len(queue) >= 1
      /\ DOMAIN queue = 1..Len(queue) /\ DOMAIN Tail(queue) = 1..(Len(queue) - 1)
      /\ \A k \in 1..(Len(queue) - 1) : Tail(queue)[k] = queue[k + 1]
  BY QueueFacts, TailShape
<1>2. ToSet(Tail(queue)) = InQueue \ {o} /\ o \in InQueue
  BY QueueFacts, QueueLoses DEF IInv, Lists, InQueue
<1>3. \A x \in QueuedIds : x = q \/ q < x
  <2>1. ASSUME NEW x \in QueuedIds PROVE x = q \/ q < x
    <3>1. PICK i \in DOMAIN queue : x = ud[queue[i]]
      BY QueueFacts DEF QueuedIds
    <3>2. 1 \in DOMAIN queue /\ (i = 1 \/ 1 < i)
      BY <1>1
    <3>3. QED
      BY <1>1, <3>1, <3>2 DEF Order
  <2>2. QED
    BY <2>1
<1>4. {ud[p] : p \in ToSet(Tail(queue))} = QueuedIds \ {q}
  <2>1. \A p \in InQueue : p # o => ud[p] # q
    BY <1>2, QueueFacts DEF IInv, Numbered
  <2>2. QED
    BY <1>2, <2>1 DEF QueuedIds
<1>5. ASSUME NEW i \in DOMAIN Tail(queue), NEW j \in DOMAIN Tail(queue), i < j
      PROVE  ud[Tail(queue)[i]] < ud[Tail(queue)[j]]
  <2>1. i + 1 \in DOMAIN queue /\ j + 1 \in DOMAIN queue /\ i + 1 < j + 1
    BY <1>1, <1>5
  <2>2. Tail(queue)[i] = queue[i + 1] /\ Tail(queue)[j] = queue[j + 1]
    BY <1>1
  <2>3. QED
    BY <2>1, <2>2 DEF Order
<1>6. QED
  BY <1>2, <1>3, <1>4, <1>5 DEF QueuedIds

\* And it is the follower of the front, if there is one.
LEMMA HeadAfterFront ==
  ASSUME IInv, Order, queue # <<>>
  PROVE  LET q == ud[Head(queue)] IN
         /\ \A p : AtFront(p) => q = p + 1
         /\ Follower(q) => AtFront(q - 1)
         /\ \A i \in 1..taken : Past(i) /\ InChain(i) => i < q
         /\ script[q].link => ~Past(q + 1)
<1> DEFINE q == ud[Head(queue)]
<1>1. q \in QueuedIds /\ q \in 1..taken /\ q \in Nat /\ taken \in Nat
  BY HeadFirst, QueueFacts, ScriptFacts
<1>2. \A x \in QueuedIds : x = q \/ q < x
  BY HeadFirst
<1> HIDE DEF q
<1>3. \A i \in 1..taken : Past(i) /\ InChain(i) => i < q
  BY <1>1 DEF Order
<1>4. ASSUME NEW p, AtFront(p) PROVE q = p + 1
  <2>1. p \in 1..taken /\ Past(p) /\ InChain(p) /\ ~Past(p + 1)
    BY <1>4 DEF AtFront, Past, InChain
  <2>2. p < q
    BY <1>3, <2>1
  <2>3. p + 1 \in 1..taken /\ p + 1 <= q
    BY <1>1, <2>1, <2>2
  <2>4. p + 1 \in QueuedIds
    BY <2>1, <2>3 DEF Past
  <2>5. p + 1 = q \/ q < p + 1
    BY <1>2, <2>4
  <2>6. QED
    BY <1>1, <2>3, <2>5
<1>5. ASSUME Follower(q) PROVE AtFront(q - 1)
  <2>1. q - 1 \in 1..taken /\ (q - 1) + 1 = q /\ script[q - 1].link
    BY <1>1, <1>5 DEF Follower
  <2>2. q - 1 \notin QueuedIds
    <3>1. ~(q - 1 = q \/ q < q - 1)
      BY <1>1
    <3>2. QED
      BY <1>2, <3>1
  <2>3. QED
    BY <1>1, <2>1, <2>2 DEF AtFront, Past
<1>6. ASSUME script[q].link, Past(q + 1) PROVE FALSE
  <2>1. q + 1 \in 1..taken /\ q + 1 > 1 /\ (q + 1) - 1 = q
    BY <1>1, <1>6 DEF Past
  <2>2. InChain(q + 1)
    BY <1>6, <2>1 DEF InChain, Follower
  <2>3. q + 1 < q
    BY <1>3, <1>6, <2>1, <2>2
  <2>4. QED
    BY <1>1, <2>3
<1>7. QED
  BY <1>3, <1>4, <1>5, <1>6 DEF q

\* What the queue's going on by one request does to the front.
LEMMA FrontMoves ==
  ASSUME IInv, Order, queue # <<>>, queue' = Tail(queue), UNCHANGED <<script, taken, ud>>
  PROVE  /\ \A i : Past(i)' <=> Past(i) \/ i = ud[Head(queue)]
         /\ \A p : AtFront(p)' => p = ud[Head(queue)] /\ script[p].link
         /\ \A p : p = ud[Head(queue)] /\ script[p].link => AtFront(p)'
         /\ \A i, j \in DOMAIN queue' : i < j => ud'[queue'[i]] < ud'[queue'[j]]
         /\ \A i \in 1..taken' : Past(i)' /\ InChain(i)' => \A x \in QueuedIds' : i < x
         /\ QueuedIds' = QueuedIds \ {ud[Head(queue)]} /\ InQueue' = InQueue \ {Head(queue)}
<1>0. PICK q : q = ud[Head(queue)]
  OBVIOUS
<1>1. q \in QueuedIds /\ q \in 1..taken /\ q \in Nat /\ \A x \in QueuedIds : x = q \/ q < x
  BY <1>0, HeadFirst, QueueFacts
<1>2. QueuedIds' = QueuedIds \ {q} /\ InQueue' = InQueue \ {Head(queue)}
  BY <1>0, HeadFirst DEF QueuedIds, InQueue
<1>3. /\ \A p : AtFront(p) => q = p + 1
      /\ \A i \in 1..taken : Past(i) /\ InChain(i) => i < q
      /\ script[q].link => ~Past(q + 1)
  BY <1>0, HeadAfterFront
<1>4. \A i : Past(i)' <=> Past(i) \/ i = q
  BY <1>1, <1>2 DEF Past
<1>5. ASSUME NEW p, AtFront(p)' PROVE p = q /\ script[p].link
  <2>1. Past(p)' /\ script[p].link /\ ~Past(p + 1)'
    BY <1>5 DEF AtFront
  <2>2. CASE p # q
    <3>1. AtFront(p) /\ p + 1 # q
      BY <1>4, <2>1, <2>2 DEF AtFront
    <3>2. QED
      BY <1>3, <3>1
  <2>3. QED
    BY <2>1, <2>2
<1>6. script[q].link => ~Past(q + 1)'
  <2>1. q + 1 # q
    BY <1>1
  <2>2. \A i : i = q + 1 => (Past(i)' => Past(i))
    BY <1>4, <2>1
  <2>3. ASSUME NEW i, i = q + 1, script[q].link PROVE ~Past(i)'
    BY <1>3, <2>2, <2>3
  <2>4. QED
    BY <2>3
<1>7. \A p : p = q /\ script[p].link => AtFront(p)'
  BY <1>4, <1>6 DEF AtFront
<1>8. \A i, j \in DOMAIN queue' : i < j => ud'[queue'[i]] < ud'[queue'[j]]
  BY HeadFirst
<1>9. \A i : InChain(i)' <=> InChain(i)
  BY DEF InChain, Follower
<1>10. \A i \in 1..taken' : Past(i)' /\ InChain(i)' => \A x \in QueuedIds' : i < x
  BY <1>1, <1>2, <1>4, <1>9 DEF Order
<1>11. QED
  BY <1>0, <1>2, <1>4, <1>5, <1>7, <1>8, <1>10

\* Before the queue goes on, the chain's standing is the word of the one at its front.
LEMMA FrontSpeaks ==
  ASSUME IInv, CInv, Runnable
  PROVE  /\ Awaited = None /\ blockedDone = None /\ Standing = chain
         /\ \A p \in 1..taken : AtFront(p) => Decided[p] # "none" /\ Word(p) = chain
         /\ chain # "holds" => \E p \in 1..taken : AtFront(p)
<1>1. Awaited = None /\ pc = "run"
  BY DEF Runnable, Awaited
<1>2. blockedDone = None
  BY <1>1 DEF IInv, StallInv
<1>3. Standing = chain
  BY <1>2 DEF Standing
<1>4. \A p : ~Held(p)
  BY <1>1 DEF Held
<1>5. QED
  BY <1>1, <1>2, <1>3, <1>4 DEF CInv, Chains, FrontHeld, FrontThere

\* The head runs: the one before it in its chain has succeeded.
LEMMA RunPopSteps ==
  ASSUME IInv, IInv', CInv, RunPop
  PROVE  CInv' /\ ReqStep
<1>0. /\ Runnable /\ pc = "run" /\ queue # <<>> /\ blocking = None /\ chain = "holds"
      /\ queue' = Tail(queue) /\ cur' = Head(queue) /\ pc' = "exec"
      /\ began' = began \cup {ud[Head(queue)]}
      /\ UNCHANGED <<script, taken, ud, result, chain, blocking, blockedDone, blockedFailed,
                     wpc, wop, wres, free, backlog>>
  BY DEF RunPop, Runnable
<1>1. PICK q : q = ud[Head(queue)]
  OBVIOUS
<1>2. /\ \A i : Past(i)' <=> Past(i) \/ i = q
      /\ \A p : AtFront(p)' => p = q /\ script[p].link
      /\ \A i, j \in DOMAIN queue' : i < j => ud'[queue'[i]] < ud'[queue'[j]]
      /\ \A i \in 1..taken' : Past(i)' /\ InChain(i)' => \A x \in QueuedIds' : i < x
      /\ QueuedIds' = QueuedIds \ {q} /\ InQueue' = InQueue \ {Head(queue)}
  BY <1>0, <1>1, FrontMoves DEF CInv
<1>3. /\ Follower(q) => AtFront(q - 1)
      /\ \A i \in 1..taken : Past(i) /\ InChain(i) => i < q
  BY <1>0, <1>1, HeadAfterFront DEF CInv
<1>4. /\ Head(queue) \in InQueue /\ Head(queue) \in Active /\ Head(queue) \notin AtWorker
      /\ q \in 1..taken /\ q \in Nat /\ q \in DOMAIN script
      /\ \A x \in QueuedIds : x = q \/ q < x
  BY <1>0, <1>1, HeadFirst, QueueFacts, ScriptFacts DEF CInv, IInv, Apart
<1>5. Decided' = Decided /\ Pool' = Pool
  BY <1>0, DecidedSame, PoolSame
<1>6. Follower(q) => Decided[q - 1] \in {"ok", "silent"}
  <2>1. ASSUME Follower(q) PROVE Decided[q - 1] \in {"ok", "silent"}
    <3>1. AtFront(q - 1) /\ q - 1 \in 1..taken
      BY <1>3, <2>1 DEF AtFront, Past
    <3>2. Word(q - 1) = "holds"
      BY <1>0, <3>1, FrontSpeaks
    <3>3. QED
      BY <3>2 DEF Word
  <2>2. QED
    BY <2>1
<1>7. Order'
  <2>1. \A i \in 1..taken' : Past(i)' /\ InChain(i)' => i <= ud'[cur']
    <3>1. \A i : InChain(i)' <=> InChain(i)
      BY <1>0 DEF InChain, Follower
    <3>2. \A i \in 1..taken : Past(i)' /\ InChain(i) => i = q \/ i < q
      BY <1>2, <1>3
    <3>3. ud'[cur'] = q
      BY <1>0, <1>1
    <3>4. \A i \in 1..taken : i = q \/ i < q => i <= q
      BY <1>4
    <3>5. QED
      BY <1>0, <3>1, <3>2, <3>3, <3>4
  <2>2. \A x \in QueuedIds' : ud'[cur'] < x
    BY <1>0, <1>1, <1>2, <1>4
  <2>3. QED
    BY <1>2, <2>1, <2>2 DEF Order
<1>8. Begun'
  <2>1. Active' = Op \ Pool' /\ Active = Op \ Pool
    BY DEF IInv, Apart
  <2>2. \A o \in Active' \ InQueue' : o = Head(queue) \/ o \in Active \ InQueue
    BY <1>2, <1>5, <2>1
  <2>3. QED
    BY <1>0, <1>1, <1>4, <2>2 DEF CInv, Begun
<1>9. ChainOrder'
  <2>1. \A j \in began' \ began : Follower(j) => Decided[j - 1] \in {"ok", "silent"} /\ j \in DOMAIN script
    BY <1>0, <1>1, <1>4, <1>6
  <2>2. QED
    BY <1>0, <1>5, <2>1, ChainOrderKept
<1>10. InTurn'
  BY <1>0, <1>5 DEF CInv, InTurn, Follower
<1>11. CurKinds'
  BY <1>0 DEF CurKinds
<1>12. Chains'
  <2>1. ChainHolds'
    BY <1>0 DEF ChainHolds
  <2>2. FrontHeld'
    <3>1. Decided[q] = "none"
      BY <1>1, <1>4, Undecided
    <3>2. \A p : p = q => Held(p)'
      BY <1>0, <1>1 DEF Held
    <3>3. QED
      BY <1>2, <1>5, <3>1, <3>2 DEF FrontHeld
  <2>3. FrontThere'
    <3>1. Awaited' = None /\ Standing' = "holds"
      BY <1>0, FrontSpeaks DEF Awaited, Standing
    <3>2. QED
      BY <3>1 DEF FrontThere
  <2>4. QED
    BY <2>1, <2>2, <2>3 DEF Chains
<1>13. QED
  BY <1>0, <1>5, <1>7, <1>8, <1>9, <1>10, <1>11, <1>12 DEF CInv, ReqStep

\* The head is cancelled: it follows one that failed, and shares its fate.
LEMMA RunCancelledSteps ==
  ASSUME IInv, IInv', CInv, RunCancelled
  PROVE  CInv' /\ ReqStep
<1> DEFINE o == Head(queue)
<1>0. /\ Runnable /\ pc = "run" /\ queue # <<>> /\ blocking = None /\ chain # "holds"
      /\ queue' = Tail(queue) /\ pc' = "run"
      /\ IF chain = "quiet" THEN ReleaseQuietly(o) ELSE Post(o, "canceled")
      /\ chain' = IF Linked(o) THEN chain ELSE "holds"
      /\ UNCHANGED <<script, taken, ud, began, blocking, blockedDone, blockedFailed,
                     wpc, wop, wres>>
  BY DEF RunCancelled, Runnable
<1>1. PICK q : q = ud[o]
  OBVIOUS
<1>2. /\ \A p : AtFront(p)' => p = q /\ script[p].link
      /\ \A p : p = q /\ script[p].link => AtFront(p)'
      /\ \A i, j \in DOMAIN queue' : i < j => ud'[queue'[i]] < ud'[queue'[j]]
      /\ \A i \in 1..taken' : Past(i)' /\ InChain(i)' => \A x \in QueuedIds' : i < x
      /\ InQueue' = InQueue \ {o}
  BY <1>0, <1>1, FrontMoves DEF CInv
<1>3. \A p : AtFront(p) => q = p + 1
  BY <1>0, <1>1, HeadAfterFront DEF CInv
<1>4. /\ o \in InQueue /\ o \in Active /\ o \notin AtWorker
      /\ q \in 1..taken /\ q \in Nat /\ q \in DOMAIN script
  BY <1>0, <1>1, HeadFirst, QueueFacts, ScriptFacts DEF CInv, IInv, Apart
<1>5. /\ Awaited = None /\ blockedDone = None
      /\ \A p \in 1..taken : AtFront(p) => Decided[p] # "none" /\ Word(p) = chain
      /\ chain \in {"cancels", "quiet"}
      /\ \E p \in 1..taken : AtFront(p)
  BY <1>0, FrontSpeaks DEF IInv, Types, FlagTypes
<1>6. /\ Follower(q) /\ Decided[q - 1] \notin {"none", "ok", "silent"}
      /\ Requests!FateAfter(q - 1) = IF chain = "quiet" THEN "quiet" ELSE "canceled"
  <2>1. PICK p \in 1..taken : AtFront(p)
    BY <1>5
  <2>2. q = p + 1 /\ q - 1 = p /\ q > 1
    BY <1>3, <2>1
  <2>3. Decided[p] # "none" /\ Word(p) = chain
    BY <1>5, <2>1
  <2>4. Decided[p] \notin {"ok", "silent"}
    BY <1>5, <2>3 DEF Word
  <2>5. (Requests!FateAfter(p) = "quiet") <=> (chain = "quiet")
    BY <1>5, <2>3, <2>4 DEF Word
  <2>6. Requests!FateAfter(p) \in {"quiet", "canceled"}
    BY DEF Requests!FateAfter
  <2>7. QED
    BY <2>1, <2>2, <2>3, <2>4, <2>5, <2>6 DEF Follower, AtFront
<1>7. PICK v : v = IF chain = "quiet" THEN "quiet" ELSE "canceled"
  OBVIOUS
<1> HIDE DEF o
<1>8. Gives(q, v) /\ Pool' = Pool \cup {o}
  <2>1. "canceled" \in Ended /\ ("canceled" = "ok" <=> FALSE)
    BY DEF Ended
  <2>2. CASE chain = "quiet"
    <3>1. ReleaseQuietly(o)
      BY <1>0, <2>2
    <3>2. QED
      BY <1>0, <1>1, <1>4, <1>7, <2>2, <3>1, QuietGives, QuietEnds DEF Ends, PoolGets
  <2>3. CASE chain # "quiet"
    <3>1. Post(o, "canceled")
      BY <1>0, <2>3
    <3>2. Gives(ud[o], IF "canceled" = "ok" /\ SqeOf(o).skip THEN "silent" ELSE "canceled")
      BY <1>0, <1>4, <2>1, <3>1, PostGives
    <3>3. Pool' = Pool \cup {o}
      BY <1>0, <1>4, <2>1, <3>1, PostEnds DEF Ends, PoolGets
    <3>4. QED
      BY <1>1, <1>7, <2>3, <3>2, <3>3
  <2>4. QED
    BY <2>2, <2>3
<1>9. ReqStep
  <2>1. Requests!Follows(q) /\ ~Requests!Succeeded(q - 1) /\ Decided[q - 1] # "none"
    BY <1>6 DEF Requests!Follows, Requests!Succeeded, Follower
  <2>2. Requests!MayAnswer(q, v)
    BY <1>6, <1>7, <2>1 DEF Requests!MayAnswer
  <2>3. Requests!Answer(q, v)
    BY <1>8, <2>1, <2>2 DEF Requests!Answer, Gives
  <2>4. v \in Requests!Answers
    BY <1>7 DEF Requests!Answers
  <2>5. QED
    BY <1>4, <2>3, <2>4 DEF ReqStep
<1>10. Order'
  BY <1>0, <1>2 DEF Order, Executing
<1>11. Begun'
  <2>1. Active' = Op \ Pool' /\ Active = Op \ Pool
    BY DEF IInv, Apart
  <2>2. \A p \in Active' \ InQueue' : p \in Active \ InQueue
    BY <1>2, <1>8, <2>1
  <2>3. QED
    BY <1>0, <2>2 DEF CInv, Begun
<1>12. ChainOrder'
  BY <1>0, <1>8, ChainOrderKept
<1>13. InTurn'
  BY <1>0, <1>6, <1>8, TurnKept DEF CInv
<1>14. CurKinds'
  BY <1>0 DEF CurKinds
<1>15. Awaited' = None /\ Standing' = IF script[q].link THEN chain ELSE "holds"
  BY <1>0, <1>1, <1>5 DEF Awaited, Standing, Linked, SqeOf
<1>16. Chains'
  <2>1. ChainHolds'
    BY <1>0, <1>15 DEF ChainHolds, Executing
  <2>2. Decided'[q] = v /\ Decided'[q - 1] = Decided[q - 1]
    <3>1. q - 1 \in DOMAIN script /\ q - 1 # q
      BY <1>4, <1>6, ScriptFacts DEF Follower
    <3>2. QED
      BY <1>8, <3>1, Turned
  <2>3. \A p : p = q => Word(p)' = chain
    BY <1>0, <1>5, <1>6, <1>7, <2>2 DEF Word, Requests!FateAfter, Requests!FailedItself,
                                  Requests!Follows, Requests!Succeeded, Follower
  <2>4. FrontHeld'
    BY <1>2, <1>7, <1>15, <2>2, <2>3 DEF FrontHeld
  <2>5. FrontThere'
    BY <1>0, <1>2, <1>4, <1>15 DEF FrontThere
  <2>6. QED
    BY <2>1, <2>4, <2>5 DEF Chains
<1>17. QED
  BY <1>0, <1>9, <1>10, <1>11, <1>12, <1>13, <1>14, <1>16 DEF CInv

\* A request joins at the end.
LEMMA TakeSqeSteps ==
  ASSUME IInv, IInv', CInv, NEW o \in Op, TakeSqe(o)
  PROVE  CInv' /\ Decided' = Decided
<1>0. /\ pc = "take" /\ pc' = "take" /\ taken < Len(script) /\ o \in free
      /\ free' = free \ {o} /\ ud' = [ud EXCEPT ![o] = taken + 1] /\ taken' = taken + 1
      /\ queue' = Append(queue, o)
      /\ UNCHANGED <<script, began, result, chain, blocking, blockedDone, blockedFailed, cur, curres,
                     wpc, wop, wres, backlog>>
  BY DEF TakeSqe
<1>1. taken \in Nat /\ taken + 1 \in Nat /\ ud \in [Op -> 0..Len(script)]
  BY ScriptFacts DEF IInv, Types, SqTypes
<1>2. o \notin Active /\ Pool' \cup {o} = Pool /\ o \in Pool
  <2>1. o \in Pool /\ o \notin OpsOf(backlog)
    BY <1>0 DEF Pool, IInv, PoolOK
  <2>2. Pool' = (free \ {o}) \cup OpsOf(backlog)
    BY <1>0 DEF Pool, OpsOf
  <2>3. QED
    BY <2>1, <2>2 DEF Pool, IInv, Apart
<1>3. \A p \in Active : ud'[p] = ud[p] /\ p # o
  BY <1>0, <1>1, <1>2 DEF IInv, Apart
<1>4. ud'[o] = taken + 1
  BY <1>0, <1>1
<1>5. InQueue' = InQueue \cup {o}
  <2>1. o \in Op \ ToSet(queue) /\ queue \in Seq(Op) /\ \A i, j \in DOMAIN queue : queue[i] = queue[j] => i = j
    BY <1>2 DEF Active, InQueue, IInv, Lists, Types, HomeTypes
  <2>2. QED
    BY <1>0, <2>1, QueueGets DEF InQueue
<1>6. QueuedIds' = QueuedIds \cup {taken + 1}
  BY <1>3, <1>4, <1>5, QueueFacts DEF QueuedIds
<1>7. \A i : Past(i)' <=> Past(i)
  <2>1. taken + 1 \notin 1..taken /\ 1..taken' = 1..taken \cup {taken + 1}
    BY <1>0, <1>1
  <2>2. QED
    BY <1>6, <2>1 DEF Past
<1>8. \A i : (AtFront(i)' <=> AtFront(i)) /\ (InChain(i)' <=> InChain(i)) /\ (Follower(i)' <=> Follower(i))
  <2>1. \A i : InChain(i)' <=> InChain(i)
    BY <1>0 DEF InChain, Follower
  <2>2. \A i : (Past(i)' /\ script[i].link /\ ~Past(i + 1)') <=> AtFront(i)
    BY <1>7 DEF AtFront
  <2>3. QED
    BY <1>0, <2>1, <2>2 DEF AtFront, Follower
<1>9. Decided' = Decided
  <2>1. wpc = "post" => wop \in Active
    BY DEF IInv, Control, Active, AtWorker
  <2>2. wpc = "post" => ud'[wop] = ud[wop]
    BY <1>3, <2>1
  <2>3. QED
    BY <1>0, <2>2 DEF Decided
<1>10. Order'
  <2>1. /\ Len(queue) \in Nat /\ DOMAIN queue = 1..Len(queue) /\ DOMAIN queue' = 1..(Len(queue) + 1)
        /\ \A i \in 1..Len(queue) : queue'[i] = queue[i]
        /\ queue'[Len(queue) + 1] = o
    BY <1>0, QueueFacts, AppendShape
  <2>2. \A i \in DOMAIN queue : ud'[queue'[i]] = ud[queue[i]] /\ ud[queue[i]] < taken + 1
    <3>1. \A i \in DOMAIN queue : queue[i] \in Active /\ ud[queue[i]] \in 1..taken
      BY QueueFacts
    <3>2. \A x \in 1..taken : x < taken + 1
      BY <1>1
    <3>3. QED
      BY <1>3, <2>1, <3>1, <3>2
  <2>3. ASSUME NEW i \in DOMAIN queue', NEW j \in DOMAIN queue', i < j
        PROVE  ud'[queue'[i]] < ud'[queue'[j]]
    <3>1. i \in DOMAIN queue /\ (j \in DOMAIN queue \/ j = Len(queue) + 1)
      BY <2>1, <2>3
    <3>2. CASE j \in DOMAIN queue
      BY <2>2, <2>3, <3>1, <3>2 DEF CInv, Order
    <3>3. CASE j = Len(queue) + 1
      BY <1>4, <2>1, <2>2, <3>1, <3>3
    <3>4. QED
      BY <3>1, <3>2, <3>3
  <2>4. ASSUME NEW i, Past(i), InChain(i), NEW q \in QueuedIds' PROVE i < q
    <3>1. i \in 1..taken /\ (q \in QueuedIds \/ q = taken + 1)
      BY <1>6, <2>4 DEF Past
    <3>2. CASE q \in QueuedIds
      BY <2>4, <3>1, <3>2 DEF CInv, Order
    <3>3. CASE q = taken + 1
      BY <1>1, <3>1, <3>3
    <3>4. QED
      BY <3>1, <3>2, <3>3
  <2>5. QED
    BY <1>0, <1>7, <1>8, <2>3, <2>4 DEF Order, Executing
<1>11. Begun'
  <2>1. Active' = Op \ Pool' /\ Active = Op \ Pool
    BY DEF IInv, Apart
  <2>2. \A p \in Active' \ InQueue' : p \in Active \ InQueue
    BY <1>2, <1>5, <2>1
  <2>3. 1..taken \subseteq 1..taken'
    BY <1>0, <1>1
  <2>4. QED
    BY <1>0, <1>3, <2>2, <2>3 DEF CInv, Begun
<1>12. ChainOrder'
  BY <1>0, <1>9 DEF CInv, ChainOrder
<1>13. InTurn'
  <2>1. Decided[taken + 1] = "none"
    <3>1. taken + 1 \in DOMAIN script /\ taken + 1 > taken
      BY <1>0, <1>1, ScriptFacts
    <3>2. result[taken + 1] = "none"
      BY <3>1 DEF IInv, Numbered
    <3>3. wpc = "post" => wop \in Active
      BY DEF IInv, Control, Active, AtWorker
    <3>4. wpc = "post" => ud[wop] \in 1..taken
      BY <3>3 DEF IInv, Numbered
    <3>5. wpc = "post" => ud[wop] # taken + 1
      BY <1>1, <3>4
    <3>6. QED
      BY <3>1, <3>2, <3>5 DEF Decided
  <2>2. \A i \in 1..taken' : i \in 1..taken \/ i = taken + 1
    BY <1>0, <1>1
  <2>3. QED
    BY <1>8, <1>9, <2>1, <2>2 DEF CInv, InTurn
<1>14. CurKinds'
  BY <1>0 DEF CurKinds
<1>15. Chains'
  <2>1. Awaited' = Awaited /\ Standing' = Standing
    BY <1>0 DEF Awaited, Standing
  <2>2. ChainHolds'
    BY <1>0, <2>1 DEF CInv, Chains, ChainHolds, Executing
  <2>3. Awaited # None /\ blockedDone = None => ud'[Awaited] = ud[Awaited]
    BY <1>3, PendingActive DEF IInv, StallInv
  <2>4. \A i : Held(i) => Held(i)'
    BY <1>0, <2>1, <2>3 DEF Held
  <2>5. \A i \in 1..taken : Decided[i] # "none" => Word(i)' = Word(i)
    BY <1>0, <1>9, WordSame DEF CInv
  <2>6. FrontHeld'
    <3>1. \A i \in 1..taken' : AtFront(i) => i \in 1..taken
      BY DEF AtFront, Past
    <3>2. QED
      BY <1>0, <1>8, <1>9, <2>1, <2>4, <2>5, <3>1 DEF CInv, Chains, FrontHeld
  <2>7. FrontThere'
    <3>1. 1..taken \subseteq 1..taken'
      BY <1>0, <1>1
    <3>2. QED
      BY <1>8, <2>1, <3>1 DEF CInv, Chains, FrontThere
  <2>8. QED
    BY <2>2, <2>6, <2>7 DEF Chains
<1>16. QED
  BY <1>0, <1>9, <1>10, <1>11, <1>12, <1>13, <1>14, <1>15 DEF CInv

\* The one cancel finds in a queue is one it names.
LEMMA NamedOne ==
  ASSUME NEW s \in Seq(Op), FirstNamed(s) # 0
  PROVE  FirstNamed(s) \in 1..Len(s) /\ Named(s[FirstNamed(s)])
<1> DEFINE I == {i \in 1..Len(s) : Named(s[i])}
<1>1. FirstNamed(s) = IF I # {} THEN Min(I) ELSE 0
  BY DEF FirstNamed, SelectInSeq
<1>2. I # {} /\ \A i \in I : i \in Nat
  BY <1>1, LenProperties
<1>3. Min(I) \in I
  <2>1. \E x \in I : \A y \in I : x <= y
    BY <1>2, LeastIn
  <2>2. QED
    BY <2>1 DEF Min
<1>4. QED
  BY <1>1, <1>2, <1>3

-----------------------------------------------------------------------------
\* A cancel answers one it names, and never one a chain waits for.
LEMMA CancelSteps ==
  ASSUME IInv, IInv', CInv, pc = "cancel", NEW t \in Active, t \notin AtWorker, Named(t),
         CancelTarget(t), Loosens, InQueue \ InQueue' \subseteq {t},
         UNCHANGED <<began, pc, cur, curres, blockedDone, blockedFailed, wpc, wop, wres>>,
         ~Linked(t), Follower(ud[t]) => Decided[ud[t] - 1] \in {"ok", "silent"}
  PROVE  CInv' /\ ReqStep
<1>1. UNCHANGED <<script, taken, ud>>
  BY DEF Loosens
<1>2. blocking = None /\ t # None /\ cur \in Active
  BY ActiveFacts, CurFacts, RingAssumption DEF IInv, Control
<1>3. chain' = chain /\ blocking' = None
  BY <1>2 DEF CancelTarget
<1>4. HandSame
  BY <1>2, <1>3 DEF HandSame, Awaited, Executing
<1>5. "canceled" \in Ended /\ "canceled" # "ok"
  BY DEF Ended
<1>6. Post(t, "canceled")
  BY DEF CancelTarget
<1>7. Gives(ud[t], "canceled")
  <2>1. Gives(ud[t], IF "canceled" = "ok" /\ SqeOf(t).skip THEN "silent" ELSE "canceled")
    BY <1>1, <1>5, <1>6, PostGives
  <2>2. QED
    BY <2>1
<1>8. Pool' = Pool \cup {t}
  BY <1>1, <1>5, <1>6, PostEnds DEF Ends, PoolGets
<1>9. CurKinds'
  BY <1>1 DEF CInv, CurKinds, SqeOf
<1>10. ~script[ud[t]].link
  BY DEF Linked, SqeOf
<1>11. CInv'
  BY <1>3, <1>4, <1>7, <1>8, <1>9, <1>10, BesideKeeps
<1>12. ReqStep
  <2>1. ud[cur] \in 1..taken /\ ud[t] \in script[ud[cur]].names
    BY <1>2 DEF Named, SqeOf, IInv, Numbered
  <2>2. \E c \in 1..taken : ud[t] \in script[c].names
    BY <2>1
  <2>3. QED
    BY <1>7, <2>2, AnsweredItself
<1>13. QED
  BY <1>11, <1>12

LEMMA PendingUnlinked ==
  ASSUME IInv, CInv, NEW t \in Pending, t # Awaited
  PROVE  /\ t \in Active /\ t \notin InQueue /\ ~Linked(t) /\ ud[t] \in began
         /\ Follower(ud[t]) => Decided[ud[t] - 1] \in {"ok", "silent"}
<1>1. t \in Active /\ t \notin InQueue
  BY PendingActive DEF IInv, Apart, Pending, Running, AtWorker, Retried, InHand, Control
<1>2. ~Linked(t)
  BY DEF IInv, StallInv
<1>3. ud[t] \in began
  BY <1>1 DEF CInv, Begun
<1>4. QED
  BY <1>1, <1>2, <1>3, BegunFollows DEF CInv

LEMMA CancelPendingSteps ==
  ASSUME IInv, IInv', CInv, (\E o \in Op : CancelParked(o)) \/ CancelAtWorker
  PROVE  CInv' /\ ReqStep
<1>1. PICK t \in waiting \cup AtDoor : Named(t) /\ CancelTarget(t)
  <2>1. CASE \E o \in Op : CancelParked(o)
    BY <2>1 DEF CancelParked
  <2>2. CASE CancelAtWorker
    <3>1. wq \in Seq(Op) /\ FirstNamed(wq) # 0 /\ \A i, j \in DOMAIN wq : wq[i] = wq[j] => i = j
      BY <2>2 DEF CancelAtWorker, IInv, Types, HomeTypes, Lists
    <3>2. wq[FirstNamed(wq)] \in AtDoor
      BY <3>1, QueueRemoves DEF AtDoor
    <3>3. Named(wq[FirstNamed(wq)])
      BY <3>1, NamedOne
    <3>4. QED
      BY <2>2, <3>2, <3>3 DEF CancelAtWorker
  <2>3. QED
    BY <2>1, <2>2
<1>2. /\ pc = "cancel"
      /\ UNCHANGED <<script, taken, ud, queue, began, pc, cur, curres, blockedDone, blockedFailed,
                     wpc, wop, wres>>
  BY DEF CancelParked, CancelAtWorker, MoreToCancel
<1>3. t \in Pending /\ Awaited = None /\ t # Awaited /\ t \notin AtWorker
  BY <1>2, PendingActive DEF Pending, Awaited, IInv, Control, Apart
<1>4. Loosens /\ InQueue' = InQueue
  BY <1>2, NoneGone
<1>5. QED
  BY <1>1, <1>2, <1>3, <1>4, PendingUnlinked, CancelSteps

LEMMA CancelQueuedSteps ==
  ASSUME IInv, IInv', CInv, CancelQueued
  PROVE  CInv' /\ ReqStep
<1>0. PICK n : n = FirstNamed(queue)
  OBVIOUS
<1>1. /\ pc = "cancel" /\ FirstNamed(queue) # 0 /\ queue' = RemoveAt(queue, n) /\ CancelTarget(queue[n])
      /\ UNCHANGED <<script, taken, ud, began, pc, cur, curres, blockedDone, blockedFailed, wpc, wop, wres>>
  BY <1>0 DEF CancelQueued, MoreToCancel
<1>2. queue \in Seq(Op) /\ \A i, j \in DOMAIN queue : queue[i] = queue[j] => i = j
  BY DEF IInv, Types, HomeTypes, Lists
<1>3. n \in 1..Len(queue) /\ Named(queue[n])
  BY <1>0, <1>1, <1>2, NamedOne
<1>4. PICK t : t = queue[n]
  OBVIOUS
<1>5. t \in InQueue /\ InQueue' = InQueue \ {t}
  BY <1>0, <1>1, <1>2, <1>4, QueueRemoves DEF InQueue
<1>6. t \in Active /\ t \notin AtWorker /\ Named(t) /\ CancelTarget(t)
  BY <1>1, <1>3, <1>4, <1>5 DEF Active, IInv, Apart
<1>7. ~InChain(ud[t])
  <2>1. ud[t] \in QueuedIds
    BY <1>5 DEF QueuedIds
  <2>2. ud[cur] < ud[t]
    BY <1>1, <2>1 DEF CInv, Order, Executing
  <2>3. ud[cur] \in DOMAIN script /\ ud[cur] \in Nat /\ ud[t] \in Nat /\ ud[t] \in DOMAIN script
    BY <1>1, <1>6, CurFacts, ActiveFacts, ScriptFacts
  <2>4. script[ud[cur]].kind = "cancel" /\ ud[t] \in script[ud[cur]].names
    BY <1>1, <1>6 DEF CInv, CurKinds, Named, SqeOf
  <2>5. ud[t] > ud[cur]
    BY <2>2, <2>3
  <2>6. QED
    BY <2>3, <2>4, <2>5 DEF CInv, Orderly, InChain, Follower
<1>8. Loosens
  <2>1. \A p \in InQueue : p \in InQueue' \/ p = t
    BY <1>5
  <2>2. QueuedIds' \subseteq QueuedIds /\ \A j \in QueuedIds \ QueuedIds' : j = ud[t]
    BY <1>1, <1>5, <2>1 DEF QueuedIds
  <2>3. ASSUME NEW i \in DOMAIN queue', NEW j \in DOMAIN queue', i < j
        PROVE  ud[queue'[i]] < ud[queue'[j]]
    <3>1. /\ Len(queue) \in Nat /\ DOMAIN queue = 1..Len(queue)
          /\ DOMAIN queue' = 1..(Len(queue) - 1)
          /\ \A k \in 1..(Len(queue) - 1) : queue'[k] = IF k < n THEN queue[k] ELSE queue[k + 1]
      <4>1. /\ RemoveAt(queue, n) \in Seq(Op) /\ Len(queue) \in Nat
            /\ Len(RemoveAt(queue, n)) = Len(queue) - 1
            /\ \A k \in 1..(Len(queue) - 1) : RemoveAt(queue, n)[k] = IF k < n THEN queue[k] ELSE queue[k + 1]
        BY <1>2, <1>3, RemoveShape
      <4>2. QED
        BY <1>1, <1>2, <4>1, LenProperties
    <3>2. PICK a, b \in DOMAIN queue : queue'[i] = queue[a] /\ queue'[j] = queue[b] /\ a < b
      <4>1. i \in 1..(Len(queue) - 1) /\ j \in 1..(Len(queue) - 1)
        BY <3>1
      <4>2. {i, i + 1, j, j + 1} \subseteq DOMAIN queue /\ i < j + 1 /\ i + 1 < j + 1
        BY <2>3, <3>1, <4>1
      <4>3. CASE i < n /\ j < n
        BY <2>3, <3>1, <4>1, <4>2, <4>3
      <4>4. CASE i < n /\ ~(j < n)
        BY <3>1, <4>1, <4>2, <4>4
      <4>5. CASE ~(i < n)
        <5>1. ~(j < n)
          BY <1>3, <2>3, <4>1, <4>5, <3>1
        <5>2. QED
          BY <3>1, <4>1, <4>2, <4>5, <5>1
      <4>6. QED
        BY <4>3, <4>4, <4>5
    <3>3. QED
      BY <3>2 DEF CInv, Order
  <2>4. QED
    BY <1>1, <1>7, <2>2, <2>3 DEF Loosens
<1>9. ~Linked(t) /\ ~Follower(ud[t])
  BY <1>7 DEF InChain, Linked, SqeOf
<1>10. InQueue \ InQueue' \subseteq {t}
  BY <1>5
<1>11. QED
  BY <1>1, <1>6, <1>8, <1>9, <1>10, CancelSteps

-----------------------------------------------------------------------------
\* A retried op is complete, awaited or not.
LEMMA CompleteSteps ==
  ASSUME IInv, IInv', CInv, Complete
  PROVE  CInv' /\ ReqStep
<1>1. PICK o, res : o = Head(done).op /\ res = Head(done).res
  OBVIOUS
<1>2. /\ pc = "complete" /\ pc' = pc /\ done # <<>> /\ Post(o, res)
      /\ blocking' = (IF o = blocking THEN None ELSE blocking)
      /\ chain' = (IF Failed(res) /\ (o = blocking \/ Linked(o)) THEN ChainFailureOf(o) ELSE chain)
      /\ UNCHANGED <<script, taken, ud, queue, began, cur, curres, blockedDone, blockedFailed,
                     wpc, wop, wres>>
  BY <1>1 DEF Complete
<1>3. o \in DoneOps /\ o \in Active /\ res \in Ended \ {"canceled"}
  <2>1. done \in Seq([op : Op, res : {"ok", "err"}])
    BY DEF IInv, Types, HomeTypes
  <2>2. /\ Head(done) \in [op : Op, res : {"ok", "err"}] /\ Head(done) = done[1]
        /\ Len(done) \in Nat /\ Len(done) >= 1 /\ DOMAIN done = 1..Len(done)
    BY <1>2, <2>1, TailShape
  <2>3. 1 \in DOMAIN done
    BY <2>2
  <2>4. QED
    BY <1>1, <2>2, <2>3 DEF Active, DoneOps, Ended
<1>4. o \in Pending /\ o \notin AtWorker /\ o \notin InQueue
  BY <1>3 DEF Pending, IInv, Apart
<1>5. PICK v : v = AnswerOf(o, res)
  OBVIOUS
<1>6. Gives(ud[o], v)
  BY <1>2, <1>3, <1>4, <1>5, PostGives DEF AnswerOf
<1>7. /\ v # "quiet" /\ v # "canceled"
      /\ (v = "silent") <=> (v \in {"ok", "silent"} /\ script[ud[o]].skip)
      /\ v \in {"ok", "silent"} <=> ~Failed(res)
  BY <1>3, <1>5, AnswerFits
<1>8. Pool' = Pool \cup {o}
  BY <1>2, <1>3, PostEnds DEF Ends, PoolGets
<1>9. CurKinds' /\ ~Executing /\ ~Executing'
  BY <1>2 DEF CurKinds, Executing
<1>10. ud[o] \in began
  BY <1>3, <1>4 DEF CInv, Begun
<1>11. Follower(ud[o]) => Decided[ud[o] - 1] \in {"ok", "silent"}
  BY <1>10, BegunFollows DEF CInv
<1>12. ReqStep
  BY <1>6, <1>7, <1>11, AnsweredItself
<1>13. Awaited = blocking /\ Awaited' = blocking'
  BY <1>2 DEF Awaited
<1>14. CASE o # blocking
  <2>1. ~Linked(o)
    BY <1>4, <1>13, <1>14, PendingUnlinked
  <2>2. chain' = chain /\ blocking' = blocking /\ ~script[ud[o]].link
    BY <1>2, <1>14, <2>1 DEF Linked, SqeOf
  <2>3. HandSame
    BY <1>2, <1>9, <1>13, <2>2 DEF HandSame
  <2>4. Loosens /\ InQueue' = InQueue
    BY <1>2, NoneGone
  <2>5. CInv'
    BY <1>2, <1>6, <1>8, <1>9, <1>11, <2>2, <2>3, <2>4, BesideKeeps
  <2>6. QED
    BY <1>12, <2>5
<1>15. CASE o = blocking
  <2>1. o # None
    BY <1>4, PendingActive
  <2>2. blockedDone = None /\ Linked(o) /\ Awaited # None
    BY <1>4, <1>13, <1>15, <2>1 DEF IInv, StallInv
  <2>3. chain = "holds"
    BY <2>2 DEF CInv, Chains, ChainHolds
  <2>4. AtFront(ud[o]) /\ \A p : AtFront(p) => p = ud[o]
    BY <1>13, <1>15, <2>2, AwaitedAtFront DEF CInv
  <2>5. Awaited' = None
    BY <1>2, <1>13, <1>15
  <2>6. Standing' = WordOf(ud[o], v)
    <3>1. Standing' = IF Failed(res) THEN ChainFailureOf(o) ELSE "holds"
      BY <1>2, <1>15, <2>2, <2>3 DEF Standing
    <3>2. QED
      BY <1>7, <2>2, <3>1 DEF WordOf, ChainFailureOf, Linked, SqeOf
  <2>7. ChainHolds'
    BY <1>9, <2>5 DEF ChainHolds
  <2>8. Chains'
    BY <1>2, <1>6, <1>7, <1>10, <2>4, <2>5, <2>6, <2>7, ChainsFront
  <2>9. CInv'
    BY <1>2, <1>6, <1>8, <1>9, <1>10, <2>8, AnswerKeeps
  <2>10. QED
    BY <1>12, <2>9
<1>16. QED
  BY <1>14, <1>15

\* The worker's verdict counts from the moment it is ready to post it.
LEMMA WorkerGives ==
  ASSUME IInv, wpc \in {"run", "ticket"}, wpc' = "post", wres' \in {"ok", "err"},
         UNCHANGED <<script, taken, ud, wop, result>>
  PROVE  Gives(ud[wop], AnswerOf(wop, wres'))
<1>1. wop \in Active /\ wop \in Op
  BY ActiveFacts DEF IInv, Control, Active, AtWorker
<1>2. Decided[ud[wop]] = "none" /\ ud[wop] \in 1..taken /\ ud[wop] \in DOMAIN script
  BY <1>1, Undecided
<1>3. Decided = result /\ result \in [DOMAIN script -> Verdicts \cup {"none"}]
  BY DecidedType
<1>4. Decided' = [Decided EXCEPT ![ud[wop]] = AnswerOf(wop, wres')]
  BY <1>2, <1>3 DEF Decided, AnswerOf, SqeOf
<1>5. AnswerOf(wop, wres') \in Verdicts
  BY DEF AnswerOf, Verdicts, Ended
<1>6. QED
  BY <1>2, <1>4, <1>5 DEF Gives

LEMMA WorkerRunSteps ==
  ASSUME IInv, IInv', CInv, NEW res \in {"ok", "err"}, WorkerRun(res)
  PROVE  CInv' /\ ReqStep
<1>0. /\ wpc = "run" /\ wres' = res /\ wpc' = (IF Linked(wop) THEN "ticket" ELSE "post")
      /\ UNCHANGED <<script, taken, ud, queue, began, result, chain, blocking, blockedDone,
                     blockedFailed, free, backlog, pc, cur, curres, wop>>
  BY DEF WorkerRun
<1>1. CASE Linked(wop)
  <2>1. Unseen
    BY <1>0, <1>1, OutsideUnseen
  <2>2. QED
    BY <2>1, UnseenKeeps
<1>2. CASE ~Linked(wop)
  <2>1. wop \in Pending /\ wop # None
    BY <1>0 DEF Pending, Running, IInv, Control
  <2>2. wop # Awaited
    BY <1>2, <2>1 DEF IInv, StallInv
  <2>3. ud[wop] \in began /\ Follower(ud[wop]) => Decided[ud[wop] - 1] \in {"ok", "silent"}
    BY <2>1, <2>2, PendingUnlinked
  <2>4. PICK v : v = AnswerOf(wop, wres')
    OBVIOUS
  <2>5. Gives(ud[wop], v)
    BY <1>0, <1>2, <2>4, WorkerGives
  <2>6. /\ v # "quiet" /\ v # "canceled"
        /\ (v = "silent") <=> (v \in {"ok", "silent"} /\ script[ud[wop]].skip)
    <3>1. wres' \in Ended /\ wres' # "canceled"
      BY <1>0 DEF Ended
    <3>2. QED
      BY <2>4, <3>1, AnswerFits
  <2>7. HandSame /\ CurKinds' /\ Pool' = Pool /\ Loosens /\ InQueue' = InQueue
    BY <1>0, PoolSame, CurKindsSame, NoneGone DEF HandSame, Awaited, Executing, CInv
  <2>8. ~script[ud[wop]].link /\ (Follower(ud[wop]) => Decided[ud[wop] - 1] \in {"ok", "silent"})
    BY <1>2, <2>1, <2>2, PendingUnlinked DEF Linked, SqeOf
  <2>9. CInv'
    BY <1>0, <2>5, <2>7, <2>8, BesideKeeps
  <2>10. ReqStep
    BY <2>5, <2>6, <2>8, AnsweredItself
  <2>11. QED
    BY <2>9, <2>10
<1>3. QED
  BY <1>1, <1>2

\* The ticket carries the word of the op the queue waits for.
LEMMA WorkerTicketSteps ==
  ASSUME IInv, IInv', CInv, WorkerTicket
  PROVE  CInv' /\ ReqStep
<1>0. /\ wpc = "ticket" /\ wpc' = "post" /\ wres' = wres /\ blockedDone' = wop
      /\ blockedFailed' = (IF Failed(wres) THEN ChainFailureOf(wop) ELSE "holds")
      /\ UNCHANGED <<script, taken, ud, queue, began, result, chain, blocking, free, backlog,
                     pc, cur, curres, wop>>
  BY DEF WorkerTicket
<1>1. wop \in Pending /\ wop # None /\ Linked(wop) /\ wop \in Active /\ wop \notin InQueue
  <2>1. wop \in Pending /\ wop # None /\ Linked(wop) /\ wop \in AtWorker
    BY <1>0 DEF Pending, Running, IInv, Control, AtWorker
  <2>2. QED
    BY <2>1 DEF Active, IInv, Apart
<1>2. wop = Awaited /\ Awaited # None /\ blockedDone = None
  BY <1>1 DEF IInv, StallInv
<1>3. AtFront(ud[wop]) /\ \A p : AtFront(p) => p = ud[wop]
  BY <1>2, AwaitedAtFront DEF CInv
<1>4. ud[wop] \in began
  BY <1>1 DEF CInv, Begun
<1>5. wres \in {"ok", "err"}
  BY DEF IInv, Types, FlagTypes
<1>6. PICK v : v = AnswerOf(wop, wres)
  OBVIOUS
<1>7. Gives(ud[wop], v)
  BY <1>0, <1>5, <1>6, WorkerGives
<1>8. /\ v # "quiet" /\ v # "canceled"
      /\ (v = "silent") <=> (v \in {"ok", "silent"} /\ script[ud[wop]].skip)
      /\ v \in {"ok", "silent"} <=> ~Failed(wres)
  <2>1. wres \in Ended /\ wres # "canceled"
    BY <1>5 DEF Ended
  <2>2. QED
    BY <1>6, <2>1, AnswerFits
<1>9. Awaited' = Awaited /\ (Executing' <=> Executing)
  BY <1>0 DEF Awaited, Executing
<1>10. Standing' = WordOf(ud[wop], v)
  <2>1. Standing' = IF Failed(wres) THEN ChainFailureOf(wop) ELSE "holds"
    BY <1>0, <1>1 DEF Standing
  <2>2. QED
    BY <1>1, <1>8, <2>1 DEF WordOf, ChainFailureOf, Linked, SqeOf
<1>11. ChainHolds'
  BY <1>0, <1>9 DEF CInv, Chains, ChainHolds
<1>12. Chains'
  <2>1. script[ud[wop]].link
    BY <1>1 DEF Linked, SqeOf
  <2>2. QED
    BY <1>0, <1>1, <1>3, <1>4, <1>7, <1>8, <1>10, <1>11, <2>1, ChainsFront
<1>13. CInv'
  BY <1>0, <1>4, <1>7, <1>9, <1>12, AnswerKeeps, PoolSame, CurKindsSame DEF CInv
<1>14. ReqStep
  <2>1. Follower(ud[wop]) => Decided[ud[wop] - 1] \in {"ok", "silent"}
    BY <1>4, BegunFollows DEF CInv
  <2>2. QED
    BY <1>7, <1>8, <2>1, AnsweredItself
<1>15. QED
  BY <1>13, <1>14

\* What the worker then posts has been decided.
LEMMA WorkerPostSteps ==
  ASSUME IInv, IInv', CInv, WorkerPost
  PROVE  CInv' /\ ReqStep
<1>0. /\ wpc = "post" /\ wpc' = "poke" /\ Post(wop, wres)
      /\ UNCHANGED <<script, taken, ud, queue, began, chain, blocking, blockedDone, blockedFailed,
                     pc, cur, curres>>
  BY DEF WorkerPost
<1>1. wop \in Active /\ wres \in Ended
  BY <1>0 DEF IInv, Control, Active, AtWorker, Types, FlagTypes, Ended
<1>2. ud[wop] \in DOMAIN script /\ result \in [DOMAIN script -> Verdicts \cup {"none"}]
  BY <1>1, ActiveFacts DEF IInv, Types, SqTypes, Verdicts
<1>3. result' = [result EXCEPT ![ud[wop]] = AnswerOf(wop, wres)]
  BY <1>0 DEF Post, AnswerOf
<1>4. Decided' = Decided
  BY <1>0, <1>2, <1>3 DEF Decided, AnswerOf, SqeOf
<1>5. Pool' = Pool \cup {wop}
  BY <1>0, <1>1, PostEnds DEF Ends, PoolGets
<1>6. HandSame /\ CurKinds' /\ Loosens /\ InQueue' = InQueue
  BY <1>0, CurKindsSame, NoneGone DEF HandSame, Awaited, Executing, CInv
<1>7. CInv'
  BY <1>0, <1>4, <1>5, <1>6, BesideKeeps
<1>8. QED
  BY <1>4, <1>7 DEF ReqStep

-----------------------------------------------------------------------------
LEMMA InitCInv ==
  ASSUME \A s \in Scripts : Orderly(s)
  PROVE  Init => CInv
<1> SUFFICES ASSUME Init PROVE CInv
  OBVIOUS
<1>1. /\ script \in Scripts /\ taken = 0 /\ queue = <<>> /\ pc = "out" /\ blocking = None
      /\ began = {} /\ blockedDone = None /\ chain = "holds"
  BY DEF Init
<1>2. 1..taken = {} /\ DOMAIN queue = {}
  BY <1>1
<1>3. Active = {} /\ QueuedIds = {}
  BY DEF Init, Active, InQueue, AtDoor, InHand, DoneOps, AtWorker, ToSet, QueuedIds
<1>4. Order /\ Begun /\ ChainOrder /\ InTurn /\ CurKinds
  BY <1>1, <1>2, <1>3 DEF Order, Begun, ChainOrder, InTurn, CurKinds, Executing
<1>5. Chains
  BY <1>1, <1>2 DEF Chains, ChainHolds, FrontHeld, FrontThere, Standing, Awaited, Executing
<1>6. QED
  BY <1>1, <1>4, <1>5 DEF CInv

\* Every step keeps CInv, and answers at most one request, as LinkedRequests allows.
LEMMA StepKeeps ==
  ASSUME IInv, IInv', CInv, [Next]_vars
  PROVE  CInv' /\ (ReqStep \/ \E o \in Op : TakeSqe(o) /\ Decided' = Decided)
<1>1. CASE EngineStep
  <2>1. ASSUME NEW o \in Op, TakeSqe(o)
        PROVE  CInv' /\ \E p \in Op : TakeSqe(p) /\ Decided' = Decided
    BY <2>1, TakeSqeSteps
  <2>2. CASE \E o \in Op : Unpark(o)
    BY <2>2, OutsideSteps
  <2>3. CASE (\E o \in Op : CancelParked(o)) \/ CancelAtWorker
    BY <2>3, CancelPendingSteps
  <2>4. CASE TakeEnd \/ Return \/ CheckWait \/ RunEnd \/ RetryEnd \/ CompleteEnd \/ TryPark
    BY <2>4, OutsideSteps
  <2>5. CASE Settle \/ Stall
    BY <2>5, StallSettleSteps
  <2>6. CASE RunCancelled
    BY <2>6, RunCancelledSteps
  <2>7. CASE RunPop
    BY <2>7, RunPopSteps
  <2>8. ASSUME NEW res \in {"ok", "err"}, ExecDone(res) PROVE CInv' /\ ReqStep
    BY <2>8, ExecDoneSteps
  <2>9. ASSUME NEW res \in {"ok", "err"}, TryDone(res) PROVE CInv' /\ ReqStep
    BY <2>9, OutsideSteps
  <2>10. CASE ExecPark \/ ExecHand
    BY <2>10, HandOver
  <2>11. CASE EmitOne \/ ExecMsg \/ ExecCancel \/ CancelEnd
    BY <2>11, InsideSteps
  <2>12. CASE PostCur
    BY <2>12, PostCurSteps
  <2>13. CASE CancelQueued
    BY <2>13, CancelQueuedSteps
  <2>14. CASE \E S \in SUBSET fired, drained \in BOOLEAN : WaitReturns(S, drained)
    BY <2>14, OutsideSteps
  <2>15. CASE Complete
    BY <2>15, CompleteSteps
  <2>16. QED
    BY <1>1, <2>1, <2>2, <2>3, <2>4, <2>5, <2>6, <2>7, <2>8, <2>9, <2>10, <2>11, <2>12, <2>13,
       <2>14, <2>15 DEF EngineStep
<1>2. CASE WorkerStep
  <2>1. CASE WorkerPop \/ WorkerPoke
    BY <2>1, OutsideSteps
  <2>2. ASSUME NEW res \in {"ok", "err"}, WorkerRun(res) PROVE CInv' /\ ReqStep
    BY <2>2, WorkerRunSteps
  <2>3. QED
    BY <1>2, <2>1, <2>2, WorkerTicketSteps, WorkerPostSteps DEF WorkerStep
<1>3. CASE CallerEnters \/ (\E o \in Op : Fire(o)) \/ Reap \/ UNCHANGED vars
  BY <1>3, OutsideSteps
<1>4. QED
  BY <1>1, <1>2, <1>3 DEF Next

\* Answers in the CQ stay there until they are read.
CqStep ==
  \/ cq' = cq /\ seen' = seen
  \/ cq' = Drained.cq /\ seen' = seen
  \/ (\E e : cq' = Append(Drained.cq, e)) /\ seen' = seen
  \/ Reap

LEMMA PostCq ==
  ASSUME NEW o, NEW res, Post(o, res), seen' = seen
  PROVE  CqStep
BY DEF Post, CqStep

LEMMA EmitCq ==
  ASSUME NEW i, Emit(i), seen' = seen
  PROVE  CqStep
BY DEF Emit, CqStep

\* Every step is one of these.
LEMMA NextCq ==
  ASSUME [Next]_vars
  PROVE  CqStep
<1>1. CASE EngineStep
  <2>1. CASE \E o \in Op : TakeSqe(o) \/ Unpark(o)
    BY <2>1 DEF TakeSqe, Unpark, CqStep
  <2>2. CASE (\E o \in Op : CancelParked(o)) \/ CancelQueued \/ CancelAtWorker
    BY <2>2, PostCq DEF CancelParked, CancelQueued, CancelAtWorker, CancelTarget
  <2>3. CASE TakeEnd \/ Return \/ CheckWait \/ RunEnd \/ RunPop \/ TryPark \/ RetryEnd \/ CompleteEnd
    BY <2>3 DEF TakeEnd, Return, CheckWait, RunEnd, RunPop, TryPark, RetryEnd, CompleteEnd, CqStep
  <2>4. CASE Settle
    BY <2>4 DEF Settle, CqStep
  <2>5. CASE RunCancelled
    BY <2>5, PostCq DEF RunCancelled, ReleaseQuietly, CqStep
  <2>6. CASE \E res \in {"ok", "err"} : ExecDone(res) \/ TryDone(res)
    BY <2>6, PostCq DEF ExecDone, TryDone, CqStep
  <2>7. CASE ExecPark \/ ExecHand \/ Stall \/ ExecCancel \/ CancelEnd
    BY <2>7 DEF ExecPark, ExecHand, Stall, ExecCancel, CancelEnd, CqStep
  <2>8. CASE EmitOne \/ ExecMsg
    BY <2>8, EmitCq DEF EmitOne, ExecMsg, CqStep
  <2>9. CASE PostCur \/ Complete
    BY <2>9, PostCq DEF PostCur, Complete
  <2>10. CASE \E S \in SUBSET fired, drained \in BOOLEAN : WaitReturns(S, drained)
    BY <2>10 DEF WaitReturns, CqStep
  <2>11. QED
    BY <1>1, <2>1, <2>2, <2>3, <2>4, <2>5, <2>6, <2>7, <2>8, <2>9, <2>10 DEF EngineStep
<1>2. CASE WorkerStep
  BY <1>2, PostCq DEF WorkerStep, WorkerPop, WorkerRun, WorkerTicket, WorkerPost, WorkerPoke, CqStep
<1>3. CASE CallerEnters \/ (\E o \in Op : Fire(o)) \/ Reap \/ UNCHANGED vars
  BY <1>3 DEF CallerEnters, Enter, Fire, CqStep, vars
<1>4. QED
  BY <1>1, <1>2, <1>3 DEF Next

LEMMA DrainGrows ==
  ASSUME PoolOK
  PROVE  /\ Drained.cq \in Seq(RealCqe)
         /\ \A k \in DOMAIN cq : k \in DOMAIN Drained.cq /\ Drained.cq[k] = cq[k]
<1> DEFINE room == CqEntries - Len(cq)
           n == Min({Len(backlog), room})
           m == [i \in 1..n |-> backlog[i].cqe]
<1>1. /\ cq \in Seq(RealCqe) /\ backlog \in Seq(Waiter(RealCqe))
      /\ Len(cq) \in Nat /\ Len(backlog) \in Nat /\ room \in Nat
  BY LenProperties, RingAssumption DEF PoolOK
<1>2. Drained.cq = cq \o m
  BY DEF Drained
<1>3. n \in 0..Len(backlog)
  <2>1. n = IF Len(backlog) <= room THEN Len(backlog) ELSE room
    BY <1>1, MinOfTwo
  <2> HIDE DEF n, room
  <2>2. QED
    BY <1>1, <2>1
<1> HIDE DEF n
<1>4. m \in Seq(RealCqe)
  BY <1>1, <1>3, MappedShape
<1> HIDE DEF m
<1>5. /\ cq \o m \in Seq(RealCqe) /\ Len(cq \o m) = Len(cq) + Len(m) /\ Len(m) \in Nat
      /\ \A i \in 1..(Len(cq) + Len(m)) : (cq \o m)[i] = IF i <= Len(cq) THEN cq[i] ELSE m[i - Len(cq)]
  BY <1>1, <1>4, ConcatProperties, LenProperties
<1>6. DOMAIN cq = 1..Len(cq) /\ DOMAIN (cq \o m) = 1..(Len(cq) + Len(m))
  BY <1>1, <1>5, LenProperties
<1>7. QED
  BY <1>1, <1>2, <1>5, <1>6

Delivered == InCq \cup seen

\* What is before the caller has been answered with a CQE.
Told == \A i \in Delivered : Decided[i] \in Ended

LEMMA WhatIsTold ==
  IInv /\ Answers => Told
<1> SUFFICES ASSUME IInv, Answers PROVE Told
  OBVIOUS
<1>1. \A i \in seen : result[i] \in Ended /\ i \in DOMAIN script
  BY ScriptFacts DEF Answers, IInv, Types, SqTypes
<1>2. ASSUME NEW k \in DOMAIN cq, cq[k].last
      PROVE  result[cq[k].id] \in Ended /\ cq[k].id \in DOMAIN script
  <2>1. Laid(RealCqe, cq, backlog) /\ DOMAIN cq = 1..Len(cq) /\ cq[k] \in RealCqe
    BY LineShape, LenProperties, ElementOfSeq DEF IInv, PoolOK
  <2>2. k \in DOMAIN Line /\ Line[k] = cq[k]
    <3>1. /\ Line \in Seq(RealCqe) /\ Len(cq) \in Nat /\ Len(backlog) \in Nat
          /\ Len(Line) = Len(cq) + Len(backlog) /\ Line[k] = cq[k]
      BY <2>1 DEF Laid, Line
    <3>2. QED
      BY <2>1, <3>1, LenProperties
  <2>3. QED
    BY <1>2, <2>1, <2>2, ScriptFacts DEF Answers, RealCqe
<1>3. \A i \in Delivered : result[i] \in Ended /\ i \in DOMAIN script
  BY <1>1, <1>2 DEF Delivered, InCq
<1>4. QED
  BY <1>3, DecidedType DEF Told, Ended

LEMMA DeliveredStays ==
  ASSUME IInv, [Next]_vars
  PROVE  Delivered \subseteq Delivered'
<1>1. cq \in Seq(RealCqe) /\ PoolOK
  BY DEF IInv, PoolOK
<1>2. ASSUME \A k \in DOMAIN cq : k \in DOMAIN cq' /\ cq'[k] = cq[k], seen' = seen
      PROVE  Delivered \subseteq Delivered'
  BY <1>2 DEF Delivered, InCq
<1>3. CASE cq' = cq /\ seen' = seen
  BY <1>2, <1>3
<1>4. CASE cq' = Drained.cq /\ seen' = seen
  BY <1>1, <1>2, <1>4, DrainGrows
<1>5. ASSUME NEW e, cq' = Append(Drained.cq, e), seen' = seen PROVE Delivered \subseteq Delivered'
  <2> DEFINE c == Drained.cq
  <2>1. c \in Seq(RealCqe) /\ \A k \in DOMAIN cq : k \in DOMAIN c /\ c[k] = cq[k]
    BY <1>1, DrainGrows
  <2>2. cq' = Append(c, e)
    BY <1>5
  <2> HIDE DEF c
  <2>3. \A k \in DOMAIN c : k \in DOMAIN Append(c, e) /\ Append(c, e)[k] = c[k]
    <3>1. c \in Seq(RealCqe \cup {e}) /\ e \in RealCqe \cup {e}
      BY <2>1, SeqWidens
    <3>2. /\ Len(c) \in Nat /\ DOMAIN c = 1..Len(c) /\ DOMAIN Append(c, e) = 1..(Len(c) + 1)
          /\ \A k \in 1..Len(c) : Append(c, e)[k] = c[k]
      BY <3>1, AppendShape
    <3>3. QED
      BY <3>2
  <2>4. QED
    BY <1>2, <1>5, <2>1, <2>2, <2>3
<1>6. CASE Reap
  <2>1. cq # <<>> /\ cq' = Tail(cq) /\ seen' = IF Head(cq).last THEN seen \cup {Head(cq).id} ELSE seen
    BY <1>6 DEF Reap
  <2>2. /\ Head(cq) = cq[1] /\ Len(cq) \in Nat /\ Len(cq) >= 1
        /\ DOMAIN cq = 1..Len(cq) /\ DOMAIN Tail(cq) = 1..(Len(cq) - 1)
        /\ \A k \in 1..(Len(cq) - 1) : Tail(cq)[k] = cq[k + 1]
    BY <1>1, <2>1, TailShape
  <2>3. ASSUME NEW k \in DOMAIN cq, cq[k].last PROVE cq[k].id \in Delivered'
    <3>1. CASE k = 1
      BY <2>1, <2>2, <2>3, <3>1 DEF Delivered
    <3>2. CASE k # 1
      <4>1. k - 1 \in DOMAIN Tail(cq) /\ (k - 1) + 1 = k
        BY <2>2, <3>2
      <4>2. cq'[k - 1] = cq[k] /\ k - 1 \in DOMAIN cq'
        BY <2>1, <2>2, <4>1
      <4>3. QED
        BY <2>3, <4>2 DEF Delivered, InCq
    <3>3. QED
      BY <3>1, <3>2
  <2>4. seen \subseteq Delivered'
    BY <2>1 DEF Delivered
  <2>5. QED
    BY <2>3, <2>4 DEF Delivered, InCq
<1>7. QED
  BY <1>3, <1>4, <1>5, <1>6, NextCq DEF CqStep

\* Every step of the engine is a step of LinkedRequests, or none.
LEMMA StepPromised ==
  ASSUME IInv, IInv', CInv, Told', [Next]_vars
  PROVE  [Requests!Next]_(Requests!vars)
<1>1. ReqStep \/ \E o \in Op : TakeSqe(o) /\ Decided' = Decided
  BY StepKeeps
<1>2. Delivered \subseteq Delivered'
  BY DeliveredStays
<1>3. CASE \E o \in Op : TakeSqe(o) /\ Decided' = Decided
  <2>1. /\ taken < Len(script) /\ taken' = taken + 1
        /\ UNCHANGED <<script, cq, seen>> /\ Decided' = Decided
    BY <1>3 DEF TakeSqe
  <2>2. InCq' = InCq
    BY <2>1 DEF InCq
  <2>3. Requests!Take
    BY <2>1, <2>2 DEF Requests!Take
  <2>4. QED
    BY <2>3 DEF Requests!Next
<1>4. CASE ReqStep /\ UNCHANGED <<script, taken>>
  <2>1. Requests!Deliver
    <3>1. \A i \in Delivered' : Decided'[i] \notin {"none", "silent", "quiet"}
      BY DEF Told, Ended
    <3>2. QED
      BY <1>2, <3>1 DEF Requests!Deliver, Delivered
  <2>2. QED
    BY <1>4, <2>1 DEF Requests!Next, ReqStep
<1>5. (\E o \in Op : TakeSqe(o)) \/ UNCHANGED <<script, taken>>
  BY Zenon DEF Next, EngineStep, WorkerStep, CallerEnters, vars, Enter, Unpark, CancelParked, TakeEnd,
         Settle, Return, CheckWait, RunEnd, RunCancelled, RunPop, ExecDone, TryDone, ExecPark,
         EmitOne, ExecHand, Stall, ExecMsg, PostCur, ExecCancel, CancelQueued, CancelAtWorker,
         CancelEnd, WaitReturns, TryPark, RetryEnd, Complete, CompleteEnd, WorkerPop, WorkerRun,
         WorkerTicket, WorkerPost, WorkerPoke, Fire, Reap
<1>6. QED
  <2>1. ASSUME NEW o \in Op, TakeSqe(o) PROVE Decided' = Decided
    BY <2>1, TakeSqeSteps
  <2>2. QED
    BY <1>1, <1>3, <1>4, <1>5, <2>1

(***************************************************************************)
(* No member of a chain begins before the one ahead of it has been         *)
(* decided, with success (process_queue stops at blocking, a failure sets  *)
(* chain_failed), for scripts without the two cases the header names.      *)
(***************************************************************************)
THEOREM ChainsInOrder ==
  ASSUME \A s \in Scripts : Orderly(s)
  PROVE  Spec => []ChainOrder
<1>1. Init => IInv /\ CInv
  BY InitIInv, InitCInv
<1>2. (IInv /\ CInv) /\ [Next]_vars => (IInv /\ CInv)'
  BY NextIInv, StepKeeps
<1>3. IInv /\ CInv => ChainOrder
  BY DEF CInv
<1>4. QED
  BY <1>1, <1>2, <1>3, PTL DEF Spec

(***************************************************************************)
(* The engine implements LinkedRequests: with the worker's verdict as the  *)
(* answer from the moment its ticket is up, and what is in the CQ or read  *)
(* as delivered, every step is one that LinkedRequests allows. Requests    *)
(* are taken in order and answered once; followers are answered after      *)
(* their leader; only a failure in the chain (ChainFailureOf) or a cancel  *)
(* that names the request cancels it; and no CQE comes without its answer, *)
(* nor goes before it is read.                                             *)
(***************************************************************************)
THEOREM PromiseKept ==
  ASSUME \A s \in Scripts : Orderly(s)
  PROVE  Spec => KeepsPromise
<1>1. Init => IInv /\ CInv /\ Answers
  BY InitIInv, InitCInv, InitAnswers
<1>2. (IInv /\ CInv /\ Answers) /\ [Next]_vars => (IInv /\ CInv /\ Answers)'
  BY NextIInv, StepKeeps, NextAnswers
<1>3. Init => Requests!Init
  <2> SUFFICES ASSUME Init PROVE Requests!Init
    OBVIOUS
  <2>1. taken = 0 /\ cq = <<>> /\ seen = {} /\ wpc = "idle" /\ result = [i \in DOMAIN script |-> "none"]
    BY DEF Init
  <2>2. Decided = [i \in DOMAIN script |-> "none"] /\ InCq = {}
    BY <2>1 DEF Decided, InCq
  <2>3. QED
    BY <2>1, <2>2 DEF Requests!Init
<1>4. IInv /\ Answers => Told
  BY WhatIsTold
<1>5. IInv /\ IInv' /\ CInv /\ Told' /\ [Next]_vars => [Requests!Next]_(Requests!vars)
  BY StepPromised
<1>6. QED
  BY <1>1, <1>2, <1>3, <1>4, <1>5, PTL DEF Spec, KeepsPromise, Requests!Spec
=============================================================================
