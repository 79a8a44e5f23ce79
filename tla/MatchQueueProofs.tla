--------------------------- MODULE MatchQueueProofs ---------------------------
\* Proofs about MatchQueue, for every set of commands, every batch size and any
\* number of faults, and, in the second part, about the paged walks of
\* Histories, for every database to start from and any number of changes.
EXTENDS MatchQueue, Histories, TableLemmas, FiniteSetTheorems, TLAPS

Busy == {"executing", "answering", "deleting"}

\* What the daemon knows of its batch: it begins after the deleted messages and
\* ends at last; as long as its receipts are valid it is what is in flight.
BatchOK ==
    daemon \in Busy =>
        /\ deleted < next
        /\ IF daemon = "deleting" THEN next = last + 1 ELSE next <= last
        /\ held # 0 => deleted + held = last

\* Who holds a valid receipt: the flush does, or a request, which then holds
\* the only one, and for the answer at the front, which is its own.
Flushing == flush \in {"flushing", "checking"}

ReceiptOK ==
    /\ Flushing => outHeld > 0
    /\ \A r \in Requests :
          waiter[r] = "taking" => outHeld = 1 /\ Head(outq) = r /\ ~Flushing

TypeInv == TypeOK /\ BatchOK /\ ReceiptOK

\* Appending to a sequence keeps its elements, and its head when it has one.
LEMMA AppendKeeps ==
    ASSUME NEW S, NEW s \in Seq(S), NEW e \in S
    PROVE  /\ Append(s, e) \in Seq(S)
           /\ Len(Append(s, e)) = Len(s) + 1
           /\ \A i \in 1 .. Len(s) : Append(s, e)[i] = s[i]
           /\ Append(s, e)[Len(s) + 1] = e
           /\ Len(s) > 0 => Head(Append(s, e)) = Head(s)
  OBVIOUS

\* What is left of a sequence without its first n elements.
LEMMA FromKeeps ==
    ASSUME NEW S, NEW s \in Seq(S), NEW n \in 0 .. Len(s)
    PROVE  /\ From(s, n) \in Seq(S)
           /\ Len(From(s, n)) = Len(s) - n
           /\ \A i \in 1 .. Len(s) - n : From(s, n)[i] = s[i + n]
  BY DEF From

\* The in queue with one more message.
LEMMA AcceptedGrows ==
    ASSUME TypeOK, NEW r \in Requests, accepted' = Append(accepted, r)
    PROVE  accepted' \in Seq(Requests) /\ Len(accepted') = Len(accepted) + 1
  BY AppendKeeps DEF TypeOK

\* The out queue with the answer of the current command, or without.
LEMMA OutqGrows ==
    ASSUME TypeOK, BatchOK, daemon = "answering",
           outq' = Append(outq, accepted[next]) \/ outq' = outq
    PROVE  /\ outq' \in Seq(Requests) /\ Len(outq') >= Len(outq)
           /\ Len(outq) > 0 => Head(outq') = Head(outq)
<1>1. next \in 1 .. Len(accepted)
  BY DEF TypeOK, BatchOK, Busy
<1>2. accepted[next] \in Requests
  BY <1>1 DEF TypeOK
<1>3. outq \in Seq(Requests)
  BY DEF TypeOK
<1>4. CASE outq' = outq
  BY <1>3, <1>4
<1>5. CASE outq' = Append(outq, accepted[next])
  <2> HIDE DEF TypeOK, BatchOK
  <2> QED
    BY <1>2, <1>3, <1>5, AppendKeeps
<1> QED
  BY <1>4, <1>5

\* The out queue without the messages that were in flight.
LEMMA OutqShrinks ==
    ASSUME TypeOK, outq' = From(outq, outHeld)
    PROVE  outq' \in Seq(Requests) /\ Len(outq') = Len(outq) - outHeld
<1>1. outq \in Seq(Requests) /\ outHeld \in 0 .. Len(outq)
  BY DEF TypeOK
<1> QED
  BY <1>1, FromKeeps

\* One execution more leaves counts.
LEMMA OneMore ==
    ASSUME NEW S, NEW f \in [S -> Nat], NEW x
    PROVE  [f EXCEPT ![x] = @ + 1] \in [S -> Nat]
<1>1. CASE x \in S
  <2>1. f[x] + 1 \in Nat
    BY <1>1
  <2> QED
    BY <1>1, <2>1
<1>2. CASE x \notin S
  BY <1>2
<1> QED
  BY <1>1, <1>2

\* The initial state is typed.
LEMMA InitTyped == Init => TypeInv
  BY QueueAssumption
  DEF Init, TypeInv, TypeOK, BatchOK, ReceiptOK, Flushing, Busy

\* Every step keeps the types, the batch and the receipts.
LEMMA NextTyped == TypeInv /\ [Next]_vars => TypeInv'
<1> SUFFICES ASSUME TypeInv, [Next]_vars PROVE TypeInv'
  OBVIOUS
<1> USE QueueAssumption DEF TypeInv, TypeOK, BatchOK, ReceiptOK, Flushing, Busy,
        Flawless, Faulty, inQueue, batch, outQueue
<1>1. ASSUME NEW r \in Requests, Send(r) PROVE TypeInv'
  <2>1. accepted' \in Seq(Requests) /\ Len(accepted') = Len(accepted) + 1
    BY <1>1, AcceptedGrows DEF Send
  <2>2. /\ waiter' = [waiter EXCEPT ![r] = "waiting"] /\ waiter[r] = "idle"
        /\ UNCHANGED <<deleted, held, batch, outQueue, flush, executed, faults>>
    BY <1>1 DEF Send
  <2>3. /\ waiter' \in [Requests -> {"idle", "waiting", "deaf", "taking", "late",
                                      "returned", "failed", "gone"}]
        /\ \A q \in Requests : waiter'[q] = "taking" => waiter[q] = "taking"
    BY <2>2
  <2>4. TypeOK'
    <3>1. /\ Len(accepted) \in Nat /\ deleted \in Nat /\ held \in Nat /\ last \in Nat
          /\ deleted + held <= Len(accepted) /\ last <= Len(accepted)
      OBVIOUS
    <3>2. deleted' + held' <= Len(accepted') /\ last' <= Len(accepted')
      <4> HIDE DEF TypeOK, BatchOK, ReceiptOK
      <4> QED
        BY <2>1, <2>2, <3>1
    <3> QED
      BY <2>1, <2>2, <2>3, <3>2
  <2>5. BatchOK'
    BY <2>2
  <2>6. ReceiptOK'
    BY <2>2, <2>3
  <2> QED
    BY <2>4, <2>5, <2>6
<1>2. ASSUME NEW r \in Requests, SendFails(r) PROVE TypeInv'
  <2>1. CASE accepted' = accepted
    BY <1>2, <2>1 DEF SendFails
  <2>2. CASE accepted' = Append(accepted, r)
    <3>1. accepted' \in Seq(Requests) /\ Len(accepted') = Len(accepted) + 1
      BY <2>2, AcceptedGrows
    <3>2. /\ waiter' = [waiter EXCEPT ![r] = "deaf"] /\ faults' = faults + 1
          /\ UNCHANGED <<deleted, held, daemon, next, last, outq, outHeld, flush,
                         executed>>
      BY <1>2 DEF SendFails
    <3>3. deleted + held <= Len(accepted') /\ last <= Len(accepted')
      <4>1. /\ deleted \in Nat /\ held \in Nat /\ last \in Nat
            /\ Len(accepted) \in Nat
            /\ deleted + held <= Len(accepted) /\ last <= Len(accepted)
        OBVIOUS
      <4> HIDE DEF TypeInv, TypeOK, BatchOK, ReceiptOK
      <4> QED
        BY <3>1, <4>1
    <3>4. /\ waiter' \in [Requests -> {"idle", "waiting", "deaf", "taking", "late",
                                        "returned", "failed", "gone"}]
          /\ faults' \in Nat
      BY <3>2
    <3>5. TypeOK'
      BY <3>1, <3>2, <3>3, <3>4
    <3>6. BatchOK' /\ ReceiptOK'
      BY <3>2
    <3> QED
      BY <3>5, <3>6
  <2> QED
    BY <1>2, <2>1, <2>2 DEF SendFails
<1>3. ASSUME NEW r \in Requests, ReceiveOwn(r) PROVE TypeInv'
  <2>1. \A q \in Requests : waiter[q] # "taking"
    BY <1>3 DEF ReceiveOwn, Visible
  <2>2. ~Flushing
    BY <1>3 DEF ReceiveOwn, Visible
  <2>3. ReceiptOK'
    BY <1>3, <2>1, <2>2 DEF ReceiveOwn
  <2>4. TypeOK' /\ BatchOK'
    BY <1>3 DEF ReceiveOwn, Visible
  <2> QED
    BY <2>3, <2>4
<1>4. ASSUME NEW r \in Requests, ReceiveOther(r) PROVE TypeInv'
  BY <1>4 DEF ReceiveOther, Visible
<1>5. ASSUME NEW r \in Requests, DeleteOwn(r) PROVE TypeInv'
  <2>1. /\ outHeld = 1 /\ ~Flushing
        /\ \A q \in Requests \ {r} : waiter[q] # "taking"
    BY <1>5 DEF DeleteOwn
  <2>2. outq' \in Seq(Requests)
    BY <1>5, <2>1 DEF DeleteOwn
  <2>3. /\ waiter' = [waiter EXCEPT ![r] = "returned"] /\ outHeld' = 0
        /\ UNCHANGED <<inQueue, batch, flush, executed, faults>>
    BY <1>5 DEF DeleteOwn
  <2>4. TypeOK'
    BY <2>2, <2>3, SMTT(30)
  <2>5. \A q \in Requests : waiter'[q] # "taking"
    BY <2>1, <2>3
  <2> QED
    BY <2>1, <2>3, <2>4, <2>5
<1>6. ASSUME NEW r \in Requests, DeleteLate(r) PROVE TypeInv'
  BY <1>6 DEF DeleteLate
<1>7. ASSUME NEW r \in Requests, PollFails(r) PROVE TypeInv'
  BY <1>7 DEF PollFails
<1>8. CASE Receive
  BY <1>8 DEF Receive, Least
<1>9. CASE Execute
  <2>1. /\ daemon = "executing" /\ daemon' = "answering"
        /\ UNCHANGED <<inQueue, next, last, outQueue, waiter, flush, faults>>
    BY <1>9 DEF Execute
  <2>2. executed' \in [Requests -> Nat]
    <3>1. executed' = [executed EXCEPT ![accepted[next]] = @ + 1]
      BY <1>9 DEF Execute
    <3>2. executed \in [Requests -> Nat]
      OBVIOUS
    <3> QED
      BY <3>1, <3>2, OneMore
  <2>3. TypeOK'
    BY <2>1, <2>2
  <2>4. BatchOK'
    BY <2>1
  <2>5. ReceiptOK'
    BY <2>1
  <2> QED
    BY <2>3, <2>4, <2>5
<1>10. CASE Answer
  <2>2. /\ outq' \in Seq(Requests) /\ Len(outq') >= Len(outq)
        /\ Len(outq) > 0 => Head(outq') = Head(outq)
    BY <1>10, OutqGrows DEF Answer
  <2>3. /\ daemon = "answering" /\ next' = next + 1
        /\ daemon' = IF next < last THEN "executing" ELSE "deleting"
        /\ UNCHANGED <<inQueue, last, outHeld, waiter, flush, executed, faults>>
    BY <1>10 DEF Answer, AfterAnswer
  <2>4. TypeOK'
    BY <2>2, <2>3
  <2>5. BatchOK'
    BY <2>3
  <2>6. ReceiptOK'
    BY <2>2, <2>3, SMTT(30)
  <2> QED
    BY <2>4, <2>5, <2>6
<1>11. CASE AnswerFails
  BY <1>11 DEF AnswerFails, AfterAnswer
<1>12. CASE DeleteBatch
  BY <1>12 DEF DeleteBatch
<1>13. CASE DaemonStops
  BY <1>13 DEF DaemonStops
<1>14. CASE FlushReceive
  BY <1>14 DEF FlushReceive, Visible, Least
<1>15. CASE FlushDelete
  <2>1. outq' \in Seq(Requests)
    BY <1>15, OutqShrinks DEF FlushDelete
  <2>2. \A r \in Requests : waiter'[r] # "taking"
    BY <1>15 DEF FlushDelete
  <2> QED
    BY <1>15, <2>1, <2>2 DEF FlushDelete, FlushFollower
<1>16. CASE FlushNothing
  BY <1>16 DEF FlushNothing, FlushFollower
<1>17. CASE FlushFails
  BY <1>17 DEF FlushFails, FlushFollower
<1>18. CASE InTimeout
  BY <1>18 DEF InTimeout
<1>19. CASE BatchTimeout
  BY <1>19 DEF BatchTimeout
<1>20. CASE OutTimeout
  BY <1>20 DEF OutTimeout
<1>21. CASE ReceiptTimeout
  <2>1. /\ \A r \in Requests : waiter'[r] # "taking"
        /\ waiter' \in [Requests -> {"idle", "waiting", "deaf", "taking", "late",
                                      "returned", "failed", "gone"}]
    <3>1. waiter' = [r \in Requests |-> IF waiter[r] = "taking" THEN "late" ELSE waiter[r]]
      BY <1>21 DEF ReceiptTimeout
    <3>2. waiter \in [Requests -> {"idle", "waiting", "deaf", "taking", "late",
                                    "returned", "failed", "gone"}]
      OBVIOUS
    <3> QED
      BY <3>1, <3>2
  <2>2. /\ ~Flushing'
        /\ flush' \in {"timer", "flushing", "flushLate", "check", "checking",
                        "checkLate", "done"}
    <3>1. flush' = CASE flush = "flushing" -> "flushLate"
                     [] flush = "checking" -> "checkLate"
                     [] OTHER -> flush
      BY <1>21 DEF ReceiptTimeout
    <3>2. flush \in {"timer", "flushing", "flushLate", "check", "checking",
                     "checkLate", "done"}
      OBVIOUS
    <3> HIDE DEF TypeInv, TypeOK
    <3> QED
      BY <3>1, <3>2
  <2>3. outHeld' = 0 /\ faults' \in Nat
    <3>1. faults \in Nat
      OBVIOUS
    <3> HIDE DEF TypeInv, TypeOK, BatchOK, ReceiptOK
    <3> QED
      BY <1>21, <3>1 DEF ReceiptTimeout
  <2>4. UNCHANGED <<inQueue, batch, outq, executed>>
    BY <1>21 DEF ReceiptTimeout
  <2> QED
    BY <2>1, <2>2, <2>3, <2>4
<1>22. CASE AppCrash
  BY <1>22 DEF AppCrash, Lost
<1>23. CASE AdminCrash
  BY <1>23 DEF AdminCrash, Lost
<1>24. CASE UNCHANGED vars
  BY <1>24 DEF vars
<1> QED
  BY <1>1, <1>2, <1>3, <1>4, <1>5, <1>6, <1>7, <1>8, <1>9, <1>10, <1>11, <1>12,
     <1>13, <1>14, <1>15, <1>16, <1>17, <1>18, <1>19, <1>20, <1>21, <1>22,
     <1>23, <1>24 DEF Next

\* TypeInv holds in every reachable state.
LEMMA Typed == Spec => []TypeInv
  BY InitTyped, NextTyped, PTL DEF Spec

\* Every reachable state of the queues and loops is typed.
THEOREM QueueTypeCorrect == Spec => []TypeOK
<1>1. TypeInv => TypeOK
  BY DEF TypeInv
<1> QED
  BY Typed, <1>1, PTL

-----------------------------------------------------------------------------
\* Executions.

Ran(i) == executed[accepted[i]] > 0

\* Every command is in the log once, and what was executed is a prefix of the
\* log that contains the deleted messages and the handled ones of the batch.
LogOK ==
    /\ \A i, j \in 1 .. Len(accepted) : accepted[i] = accepted[j] => i = j
    /\ \A i \in 1 .. Len(accepted) : waiter[accepted[i]] # "idle"
    /\ \A r \in Requests : waiter[r] = "idle" => executed[r] = 0
    /\ \A i \in 1 .. deleted : Ran(i)
    /\ \A i, j \in 1 .. Len(accepted) : i < j /\ Ran(j) => Ran(i)
    /\ daemon \in Busy => \A i \in 1 .. next - 1 : Ran(i)
    /\ daemon = "answering" => Ran(next)

\* Each fault allows one execution more.  A batch whose receipts have timed out
\* has used its fault already.
Late == IF daemon \in Busy /\ held = 0 THEN 1 ELSE 0
Handled(i) == daemon \in Busy /\ (i < next \/ (i = next /\ daemon = "answering"))

RepeatsOK ==
    /\ Late <= faults
    /\ \A r \in Requests : executed[r] <= 1 + faults
    /\ \A i \in deleted + 1 .. Len(accepted) :
          executed[accepted[i]] + Late <= faults + IF Handled(i) THEN 1 ELSE 0

ExecInv == LogOK /\ RepeatsOK

\* The initial state has executed nothing.
LEMMA InitExec == Init => ExecInv
  BY QueueAssumption
  DEF Init, ExecInv, LogOK, RepeatsOK, Ran, Late, Handled, Busy

\* A step that leaves the in queue, the daemon and the counts alone.
Quiet ==
    /\ UNCHANGED <<inQueue, batch, executed>>
    /\ faults' \in Nat /\ faults <= faults'
    /\ \A r \in Requests : waiter'[r] = "idle" <=> waiter[r] = "idle"

\* Such a step changes nothing the two invariants speak of.
LEMMA QuietExec == TypeInv /\ ExecInv /\ Quiet => ExecInv'
<1> SUFFICES ASSUME TypeInv, ExecInv, Quiet PROVE ExecInv'
  OBVIOUS
<1>1. \A i \in 1 .. Len(accepted) : accepted[i] \in Requests
  BY DEF TypeInv, TypeOK
<1>2. /\ accepted' = accepted /\ deleted' = deleted /\ held' = held
      /\ daemon' = daemon /\ next' = next /\ executed' = executed
  BY DEF Quiet, inQueue, batch
<1>3. LogOK'
  BY <1>1, <1>2 DEF ExecInv, LogOK, Quiet, Ran
<1>4. /\ faults \in Nat /\ deleted \in Nat /\ Len(accepted) \in Nat
      /\ \A r \in Requests : executed[r] \in Nat
  BY DEF TypeInv, TypeOK
<1>5. Late' = Late /\ Late \in Nat /\ \A i : Handled(i)' = Handled(i)
  BY <1>2 DEF Late, Handled
<1>6. RepeatsOK'
  <2> HIDE DEF Late, Handled
  <2>1. faults' \in Nat /\ faults <= faults'
    BY DEF Quiet
  <2>2. \A i \in deleted + 1 .. Len(accepted) : accepted[i] \in Requests
    BY <1>1, <1>4
  <2> QED
    BY <1>2, <1>4, <1>5, <2>1, <2>2 DEF ExecInv, RepeatsOK
<1> QED
  BY <1>3, <1>6 DEF ExecInv

\* Which actions are quiet.
LEMMA QuietSteps ==
    ASSUME TypeInv,
           \/ \E r \in Requests : \/ ReceiveOwn(r) \/ ReceiveOther(r)
                                  \/ DeleteOwn(r) \/ DeleteLate(r) \/ PollFails(r)
           \/ FlushReceive \/ FlushDelete \/ FlushNothing \/ FlushFails
           \/ OutTimeout \/ ReceiptTimeout \/ AdminCrash \/ UNCHANGED vars
    PROVE  Quiet
<1> USE DEF TypeInv, TypeOK, Quiet, Flawless, Faulty, inQueue, batch, outQueue
<1>1. ASSUME NEW r \in Requests, ReceiveOwn(r) PROVE Quiet
  BY <1>1 DEF ReceiveOwn
<1>2. ASSUME NEW r \in Requests, ReceiveOther(r) PROVE Quiet
  BY <1>2 DEF ReceiveOther
<1>3. ASSUME NEW r \in Requests, DeleteOwn(r) PROVE Quiet
  BY <1>3 DEF DeleteOwn
<1>4. ASSUME NEW r \in Requests, DeleteLate(r) PROVE Quiet
  BY <1>4 DEF DeleteLate
<1>5. ASSUME NEW r \in Requests, PollFails(r) PROVE Quiet
  BY <1>5 DEF PollFails
<1>6. CASE FlushReceive
  BY <1>6 DEF FlushReceive
<1>7. CASE FlushDelete
  BY <1>7 DEF FlushDelete
<1>8. CASE FlushNothing
  BY <1>8 DEF FlushNothing
<1>9. CASE FlushFails
  BY <1>9 DEF FlushFails
<1>10. CASE OutTimeout
  BY <1>10 DEF OutTimeout
<1>11. CASE ReceiptTimeout
  <2>1. UNCHANGED <<inQueue, batch, executed>> /\ faults' = faults + 1
    BY <1>11 DEF ReceiptTimeout
  <2>2. waiter' = [r \in Requests |-> IF waiter[r] = "taking" THEN "late" ELSE waiter[r]]
    BY <1>11 DEF ReceiptTimeout
  <2>3. \A r \in Requests : waiter'[r] = "idle" <=> waiter[r] = "idle"
    BY <2>2
  <2> QED
    BY <2>1, <2>3
<1>12. CASE AdminCrash
  BY <1>12 DEF AdminCrash, Lost
<1>13. CASE UNCHANGED vars
  BY <1>13 DEF vars
<1> QED
  BY <1>1, <1>2, <1>3, <1>4, <1>5, <1>6, <1>7, <1>8, <1>9, <1>10, <1>11, <1>12, <1>13

\* A new command goes to the end of the log.
LEMMA SendExec ==
    ASSUME TypeInv, ExecInv, NEW r \in Requests, Send(r) \/ SendFails(r)
    PROVE  ExecInv'
<1>1. /\ waiter[r] = "idle" /\ executed' = executed /\ deleted' = deleted
      /\ held' = held /\ daemon' = daemon /\ next' = next
      /\ waiter'[r] # "idle"
      /\ \A q \in Requests \ {r} : waiter'[q] = waiter[q]
      /\ faults' \in Nat /\ faults <= faults'
      /\ accepted' = accepted \/ accepted' = Append(accepted, r)
  <2>1. waiter[r] = "idle" /\ \E s \in {"waiting", "deaf"} : waiter' = [waiter EXCEPT ![r] = s]
    BY DEF Send, SendFails
  <2>2. /\ UNCHANGED <<deleted, held, daemon, next, executed>>
        /\ faults' = faults \/ faults' = faults + 1
        /\ accepted' = accepted \/ accepted' = Append(accepted, r)
    BY DEF Send, SendFails, Flawless, Faulty, batch
  <2>3. waiter'[r] # "idle" /\ \A q \in Requests \ {r} : waiter'[q] = waiter[q]
    BY <2>1 DEF TypeInv, TypeOK
  <2>4. faults' \in Nat /\ faults <= faults'
    BY <2>2 DEF TypeInv, TypeOK
  <2> QED
    BY <2>1, <2>2, <2>3, <2>4
<1>2. /\ accepted \in Seq(Requests) /\ Len(accepted) \in Nat
      /\ deleted \in Nat /\ deleted <= Len(accepted) /\ faults \in Nat
      /\ next \in Nat
      /\ daemon \in Busy => next <= Len(accepted) + 1
      /\ daemon = "answering" => next \in 1 .. Len(accepted)
      /\ \A q \in Requests : executed[q] \in Nat
      /\ \A i \in 1 .. Len(accepted) : accepted[i] \in Requests
  BY DEF TypeInv, TypeOK, BatchOK, Busy
<1>3. /\ \A i \in 1 .. Len(accepted) : accepted'[i] = accepted[i]
      /\ \A i \in 1 .. Len(accepted) : accepted[i] # r
      /\ executed[r] = 0
      /\ \/ Len(accepted') = Len(accepted)
         \/ Len(accepted') = Len(accepted) + 1 /\ accepted'[Len(accepted) + 1] = r
  BY <1>1, <1>2, AppendKeeps DEF ExecInv, LogOK
<1>4. LogOK'
  <2> USE DEF ExecInv, LogOK, Ran
  <2>1. \A i \in 1 .. Len(accepted') :
           \/ i \in 1 .. Len(accepted) /\ accepted'[i] = accepted[i]
           \/ i = Len(accepted) + 1 /\ accepted'[i] = r
    BY <1>2, <1>3
  <2>2. \A i, j \in 1 .. Len(accepted') : accepted'[i] = accepted'[j] => i = j
    BY <1>3, <2>1
  <2>a. \A i \in 1 .. Len(accepted) : waiter[accepted[i]] # "idle"
    OBVIOUS
  <2>b. \A i \in 1 .. deleted : Ran(i)
    OBVIOUS
  <2>c. \A i, j \in 1 .. Len(accepted) : i < j /\ Ran(j) => Ran(i)
    OBVIOUS
  <2>d. \A i \in 1 .. Len(accepted) : Ran(i)' <=> Ran(i)
    <3> HIDE DEF ExecInv, LogOK
    <3> QED
      BY <1>1, <1>3
  <2>3. \A i \in 1 .. Len(accepted') : waiter'[accepted'[i]] # "idle"
    <3> SUFFICES ASSUME NEW i \in 1 .. Len(accepted') PROVE waiter'[accepted'[i]] # "idle"
      OBVIOUS
    <3> HIDE DEF ExecInv, LogOK, Ran
    <3>1. CASE i \in 1 .. Len(accepted) /\ accepted'[i] = accepted[i]
      BY <1>1, <1>2, <1>3, <2>a, <3>1
    <3>2. CASE accepted'[i] = r
      BY <1>1, <3>2
    <3> QED
      BY <2>1, <3>1, <3>2
  <2>4. \A q \in Requests : waiter'[q] = "idle" => executed'[q] = 0
    BY <1>1
  <2>5. \A i \in 1 .. deleted : Ran(i)'
    <3> HIDE DEF ExecInv, LogOK, Ran
    <3> QED
      BY <1>2, <2>b, <2>d
  <2>6. \A i, j \in 1 .. Len(accepted') : i < j /\ Ran(j)' => Ran(i)'
    <3> SUFFICES ASSUME NEW i \in 1 .. Len(accepted'), NEW j \in 1 .. Len(accepted'),
                        i < j, Ran(j)'
                 PROVE  Ran(i)'
      OBVIOUS
    <3>1. j \in 1 .. Len(accepted)
      <4> HIDE DEF ExecInv, LogOK
      <4> QED
        BY <1>1, <1>2, <1>3, <2>1
    <3>2. i \in 1 .. Len(accepted)
      BY <1>2, <3>1
    <3> HIDE DEF ExecInv, LogOK, Ran
    <3> QED
      BY <2>c, <2>d, <3>1, <3>2
  <2>7. daemon \in Busy => \A i \in 1 .. next - 1 : Ran(i)'
    <3> SUFFICES ASSUME daemon \in Busy, NEW i \in 1 .. next - 1 PROVE Ran(i)'
      OBVIOUS
    <3>1. next \in Nat /\ next <= Len(accepted) + 1 /\ Len(accepted) \in Nat
      BY <1>2
    <3>2. i \in 1 .. Len(accepted)
      BY <3>1
    <3>3. Ran(i)
      OBVIOUS
    <3> QED
      BY <1>1, <1>3, <3>2, <3>3
  <2>8. daemon = "answering" => Ran(next)'
    BY <1>1, <1>2, <1>3
  <2> QED
    BY <1>1, <2>2, <2>3, <2>4, <2>5, <2>6, <2>7, <2>8
<1>5. Late' = Late /\ Late \in Nat /\ \A i : Handled(i)' = Handled(i)
  BY <1>1 DEF Late, Handled
<1>6. RepeatsOK'
  <2> HIDE DEF Late, Handled
  <2>1. \A i \in deleted + 1 .. Len(accepted) :
           i \in 1 .. Len(accepted) /\ executed[accepted[i]] \in Nat
    BY <1>2
  <2>2. \A i \in deleted + 1 .. Len(accepted') :
           executed[accepted'[i]] + Late <= faults' + IF Handled(i) THEN 1 ELSE 0
    <3> TAKE i \in deleted + 1 .. Len(accepted')
    <3>1. CASE i <= Len(accepted)
      <4>1. i \in deleted + 1 .. Len(accepted)
        BY <1>1, <1>2, <3>1
      <4>2. executed[accepted[i]] + Late <= faults + IF Handled(i) THEN 1 ELSE 0
        BY <4>1 DEF ExecInv, RepeatsOK
      <4>3. accepted'[i] = accepted[i] /\ executed[accepted[i]] \in Nat
        BY <1>3, <2>1, <4>1
      <4> QED
        BY <1>1, <1>2, <1>5, <4>2, <4>3
    <3>2. CASE i = Len(accepted) + 1
      BY <1>1, <1>2, <1>3, <1>5, <3>2 DEF ExecInv, RepeatsOK
    <3> QED
      BY <1>2, <1>3, <3>1, <3>2
  <2> QED
    BY <1>1, <1>2, <1>5, <2>2 DEF ExecInv, RepeatsOK
<1> QED
  BY <1>4, <1>6 DEF ExecInv

\* What is left of a queue after more was deleted was left before.
LEMMA FewerLeft ==
    ASSUME NEW before \in Nat, NEW after \in Nat, NEW n \in Nat, before <= after
    PROVE  \A i \in after + 1 .. n : i \in 1 .. n /\ i \in before + 1 .. n
  OBVIOUS

\* The steps of the daemon and of the in queue, crashes included.
LEMMA DaemonExec ==
    ASSUME TypeInv, ExecInv,
           \/ Receive \/ Answer \/ AnswerFails \/ DeleteBatch \/ DaemonStops
           \/ InTimeout \/ BatchTimeout \/ AppCrash
    PROVE  ExecInv'
<1> USE QueueAssumption DEF TypeInv, TypeOK, BatchOK, Busy, Flawless, Faulty,
        inQueue, batch, outQueue
<1>1. executed' = executed /\ accepted' = accepted
  BY DEF Receive, Answer, AnswerFails, DeleteBatch, DaemonStops, InTimeout,
         BatchTimeout, AppCrash
<1>2. \A r \in Requests : waiter'[r] = "idle" <=> waiter[r] = "idle"
  BY DEF Receive, Answer, AnswerFails, DeleteBatch, DaemonStops, InTimeout,
         BatchTimeout, AppCrash, Lost
<1>3. /\ faults' \in Nat /\ faults <= faults'
      /\ \A i \in 1 .. Len(accepted) :
            accepted[i] \in Requests /\ executed[accepted[i]] \in Nat
  <2>1. faults' = faults \/ faults' = faults + 1
    BY DEF Receive, Answer, AnswerFails, DeleteBatch, DaemonStops, InTimeout,
           BatchTimeout, AppCrash
  <2>2. \A i \in 1 .. Len(accepted) : accepted[i] \in Requests
    OBVIOUS
  <2> QED
    BY <2>1, <2>2
<1> USE DEF ExecInv, LogOK, RepeatsOK, Ran, Late, Handled
<1>4. CASE Receive
  BY <1>1, <1>2, <1>3, <1>4 DEF Receive, Least
<1>5. CASE Answer \/ AnswerFails
  <2>1. /\ daemon = "answering" /\ next' = next + 1 /\ next <= last
        /\ daemon' = IF next < last THEN "executing" ELSE "deleting"
        /\ deleted' = deleted /\ held' = held
    BY <1>5 DEF Answer, AnswerFails, AfterAnswer
  <2>2. LogOK'
    <3>1. \A i \in 1 .. next' - 1 : Ran(i)'
      <4> TAKE i \in 1 .. next' - 1
      <4>1. i \in 1 .. next - 1 \/ i = next
        BY <2>1
      <4> QED
        BY <1>1, <2>1, <4>1
    <3>2. daemon' # "answering"
      BY <2>1
    <3> HIDE DEF TypeOK, BatchOK, Busy
    <3> QED
      BY <1>1, <1>2, <1>3, <2>1, <3>1, <3>2 DEF TypeOK
  <2>3. Late' = Late
    BY <2>1
  <2>4. \A i \in 1 .. Len(accepted) : Handled(i)' = Handled(i)
    BY <2>1
  <2>5. RepeatsOK'
    <3>1. faults \in Nat /\ Late \in Nat /\ \A r \in Requests : executed[r] \in Nat
      OBVIOUS
    <3>2. \A i \in deleted + 1 .. Len(accepted) : i \in 1 .. Len(accepted)
      OBVIOUS
    <3> HIDE DEF Late, Handled, TypeOK, BatchOK, LogOK
    <3> QED
      BY <1>1, <1>3, <2>1, <2>3, <2>4, <3>1, <3>2
  <2> QED
    BY <2>2, <2>5
<1>6. CASE DeleteBatch
  <2>1. /\ daemon = "deleting" /\ daemon' = "receiving" /\ deleted' = deleted + held
        /\ UNCHANGED <<accepted, next, last, waiter, executed, faults>>
    BY <1>6 DEF DeleteBatch
  <2>2. /\ deleted < next /\ next = last + 1 /\ last <= Len(accepted)
        /\ held = 0 \/ deleted + held = last
    BY <2>1
  <2>a. /\ deleted \in Nat /\ held \in Nat /\ last \in Nat /\ next \in Nat
        /\ deleted' \in Nat /\ faults \in Nat /\ Len(accepted) \in Nat
    BY <2>1
  <2>b. \A i \in 1 .. Len(accepted) : executed[accepted[i]] \in Nat
    <3>1. \A i \in 1 .. Len(accepted) : accepted[i] \in Requests
      OBVIOUS
    <3>2. \A r \in Requests : executed[r] \in Nat
      OBVIOUS
    <3> QED
      BY <3>1, <3>2
  <2>3. \A i \in 1 .. deleted' : Ran(i)'
    <3>1. \A i \in 1 .. next - 1 : Ran(i)
      BY <2>1
    <3> HIDE DEF ExecInv, LogOK, RepeatsOK, Ran
    <3>2. deleted' < next /\ deleted' \in Nat /\ next \in Nat
      <4> HIDE DEF TypeOK, BatchOK, Late, Handled
      <4> QED
        BY <2>1, <2>2, <2>a
    <3>3. \A i \in 1 .. deleted' : Ran(i)
      BY <3>1, <3>2
    <3> QED
      BY <2>1, <3>3 DEF Ran
  <2>4. LogOK'
    BY <2>1, <2>3
  <2>5. Late' = 0 /\ \A i : ~Handled(i)'
    BY <2>1
  <2>c. \A i \in deleted' + 1 .. Len(accepted) :
           i \in 1 .. Len(accepted) /\ i \in deleted + 1 .. Len(accepted)
    <3>1. deleted <= deleted'
      BY <2>1, <2>a
    <3> QED
      BY <2>a, <3>1, FewerLeft
  <2>6. RepeatsOK'
    <3>1. ASSUME NEW i \in deleted' + 1 .. Len(accepted)
          PROVE  executed[accepted[i]] <= faults
      <4>1. i \in deleted + 1 .. Len(accepted) /\ executed[accepted[i]] \in Nat
        <5> HIDE DEF ExecInv, LogOK, RepeatsOK, TypeOK, BatchOK, Handled, Late
        <5>1. i \in 1 .. Len(accepted) /\ i \in deleted + 1 .. Len(accepted)
          BY <2>c
        <5> QED
          BY <2>b, <5>1
      <4>2. executed[accepted[i]] + Late <= faults + IF Handled(i) THEN 1 ELSE 0
        <5> HIDE DEF Handled, Late
        <5> QED
          BY <4>1
      <4>3. CASE held = 0
        <5>1. Late = 1
          BY <2>1, <4>3
        <5> HIDE DEF ExecInv, LogOK, RepeatsOK, TypeOK, BatchOK, Handled, Late
        <5> QED
          BY <2>a, <4>1, <4>2, <5>1
      <4>4. CASE held # 0
        <5>1. Late = 0
          BY <2>1, <4>4
        <5>2. ~Handled(i)
          <6>1. next <= i
            BY <2>1, <2>2, <2>a, <4>4
          <6> QED
            BY <2>1, <2>a, <6>1
        <5> HIDE DEF ExecInv, LogOK, RepeatsOK, TypeOK, BatchOK, Handled, Late
        <5> QED
          BY <2>a, <4>1, <4>2, <5>1, <5>2
      <4> QED
        BY <4>3, <4>4
    <3>2. 0 <= faults /\ \A r \in Requests : executed[r] <= 1 + faults
      OBVIOUS
    <3>3. \A i \in deleted' + 1 .. Len(accepted) : executed[accepted[i]] \in Nat
      <4> HIDE DEF ExecInv, LogOK, RepeatsOK, TypeOK, BatchOK
      <4> QED
        BY <2>b, <2>c
    <3> HIDE DEF ExecInv, LogOK, TypeOK, TypeInv, BatchOK, Handled, Late
    <3> QED
      BY <1>1, <2>1, <2>5, <2>a, <3>1, <3>2, <3>3
  <2> QED
    BY <2>4, <2>6
<1>7. CASE DaemonStops
  BY <1>1, <1>2, <1>3, <1>7 DEF DaemonStops
<1>8. CASE InTimeout
  BY <1>1, <1>2, <1>3, <1>8 DEF InTimeout
<1>9. CASE BatchTimeout
  <2>1. /\ held > 0 /\ held' = 0 /\ faults' = faults + 1 /\ daemon \in Busy
        /\ deleted' = deleted /\ daemon' = daemon /\ next' = next
    BY <1>9 DEF BatchTimeout
  <2>2. LogOK'
    BY <1>1, <1>2, <1>3, <2>1
  <2>3. Late = 0 /\ Late' = 1 /\ \A i : Handled(i)' = Handled(i)
    BY <2>1
  <2>4. RepeatsOK'
    <3>1. faults \in Nat /\ \A r \in Requests : executed[r] \in Nat
      OBVIOUS
    <3>2. \A i \in deleted + 1 .. Len(accepted) : i \in 1 .. Len(accepted)
      OBVIOUS
    <3> HIDE DEF Late, Handled, TypeOK, BatchOK, LogOK
    <3> QED
      BY <1>1, <1>3, <2>1, <2>3, <3>1, <3>2
  <2> QED
    BY <2>2, <2>4
<1>10. CASE AppCrash
  BY <1>1, <1>2, <1>3, <1>10 DEF AppCrash
<1> QED
  BY <1>4, <1>5, <1>6, <1>7, <1>8, <1>9, <1>10

\* The execution of the next command: it is the oldest one not yet executed, or
\* it was executed before.
LEMMA ExecuteExec ==
    ASSUME TypeInv, ExecInv, Execute
    PROVE  /\ ExecInv'
           /\ next \in 1 .. Len(accepted)
           /\ \A i \in 1 .. next - 1 : Ran(i)
<1>1. /\ daemon = "executing" /\ daemon' = "answering" /\ next' = next
      /\ executed' = [executed EXCEPT ![accepted[next]] = @ + 1]
      /\ accepted' = accepted /\ deleted' = deleted /\ held' = held
      /\ waiter' = waiter /\ faults' = faults
  BY DEF Execute, Flawless, inQueue
<1>2. /\ next \in 1 .. Len(accepted) /\ deleted < next
      /\ deleted \in Nat /\ faults \in Nat /\ Len(accepted) \in Nat
      /\ executed \in [Requests -> Nat]
      /\ \A i \in 1 .. Len(accepted) : accepted[i] \in Requests
  BY <1>1 DEF TypeInv, TypeOK, BatchOK, Busy
<1>3. \A i \in 1 .. next - 1 : i \in 1 .. Len(accepted) /\ Ran(i)
  BY <1>1, <1>2 DEF ExecInv, LogOK, Busy
<1>4. \A r \in Requests :
         /\ executed'[r] \in Nat
         /\ executed'[r] = IF r = accepted[next] THEN executed[r] + 1
                                                 ELSE executed[r]
  BY <1>1, <1>2
<1>5. \A i \in 1 .. Len(accepted) :
         executed'[accepted'[i]] = IF i = next THEN executed[accepted[i]] + 1
                                               ELSE executed[accepted[i]]
  BY <1>1, <1>2, <1>4 DEF ExecInv, LogOK
<1>6. LogOK'
  <2>1. \A i \in 1 .. next : Ran(i)'
    BY <1>2, <1>3, <1>4, <1>5 DEF Ran
  <2>2. \A i \in 1 .. Len(accepted) : Ran(i) => Ran(i)'
    BY <1>2, <1>5 DEF Ran
  <2>3. \A i \in 1 .. Len(accepted) : Ran(i)' => Ran(i) \/ i = next
    BY <1>5 DEF Ran
  <2>4. \A i, j \in 1 .. Len(accepted) : i < j /\ Ran(j)' => Ran(i)'
    <3> TAKE i, j \in 1 .. Len(accepted)
    <3>1. CASE j = next
      BY <1>2, <2>1, <3>1
    <3>2. CASE j # next
      BY <2>2, <2>3, <3>2 DEF ExecInv, LogOK
    <3> QED
      BY <3>1, <3>2
  <2>5. \A r \in Requests : waiter'[r] = "idle" => executed'[r] = 0
    BY <1>1, <1>2, <1>4 DEF ExecInv, LogOK
  <2>6. \A i \in 1 .. deleted : Ran(i)'
    BY <1>2, <2>1
  <2> QED
    BY <1>1, <1>2, <2>1, <2>4, <2>5, <2>6 DEF ExecInv, LogOK
<1>7. Late' = Late /\ Late \in Nat
  BY <1>1 DEF Late, Busy
<1>8. \A i \in 1 .. Len(accepted) : Handled(i)' <=> Handled(i) \/ i = next
  BY <1>1, <1>2 DEF Handled, Busy
<1>9. ~Handled(next)
  BY <1>1, <1>2 DEF Handled
<1>10. \A i \in deleted + 1 .. Len(accepted) :
          /\ i \in 1 .. Len(accepted)
          /\ executed[accepted[i]] \in Nat
          /\ executed[accepted[i]] + Late <= faults + IF Handled(i) THEN 1 ELSE 0
  BY <1>2 DEF ExecInv, RepeatsOK
<1>11. RepeatsOK'
  <2> HIDE DEF Late, Handled
  <2>1. \A r \in Requests : executed'[r] <= 1 + faults
    <3>1. executed[accepted[next]] <= faults
      BY <1>2, <1>7, <1>9, <1>10
    <3>2. \A r \in Requests : executed[r] <= 1 + faults
      BY DEF ExecInv, RepeatsOK
    <3> QED
      BY <1>2, <1>4, <3>1, <3>2
  <2>2. \A i \in deleted + 1 .. Len(accepted) :
           executed'[accepted'[i]] + Late'
              <= faults + IF Handled(i)' THEN 1 ELSE 0
    BY <1>2, <1>5, <1>7, <1>8, <1>9, <1>10
  <2>3. Late <= faults
    BY DEF ExecInv, RepeatsOK
  <2> QED
    BY <1>1, <1>7, <2>1, <2>2, <2>3 DEF RepeatsOK
<1> QED
  BY <1>2, <1>3, <1>6, <1>11 DEF ExecInv

\* Every step keeps the invariant about executions.
LEMMA NextExec == TypeInv /\ ExecInv /\ [Next]_vars => ExecInv'
<1> SUFFICES ASSUME TypeInv, ExecInv, [Next]_vars PROVE ExecInv'
  OBVIOUS
<1>1. ASSUME NEW r \in Requests, Send(r) \/ SendFails(r) PROVE ExecInv'
  BY <1>1, SendExec
<1>2. CASE Execute
  BY <1>2, ExecuteExec
<1>3. CASE \/ Receive \/ Answer \/ AnswerFails \/ DeleteBatch \/ DaemonStops
           \/ InTimeout \/ BatchTimeout \/ AppCrash
  BY <1>3, DaemonExec
<1>4. ASSUME \/ \E r \in Requests : \/ ReceiveOwn(r) \/ ReceiveOther(r)
                                    \/ DeleteOwn(r) \/ DeleteLate(r) \/ PollFails(r)
             \/ FlushReceive \/ FlushDelete \/ FlushNothing \/ FlushFails
             \/ OutTimeout \/ ReceiptTimeout \/ AdminCrash \/ UNCHANGED vars
      PROVE  ExecInv'
  BY <1>4, QuietSteps, QuietExec
<1> QED
  BY <1>1, <1>2, <1>3, <1>4 DEF Next

\* ExecInv holds in every reachable state.
LEMMA Executions == Spec => []ExecInv
  BY Typed, InitExec, NextExec, PTL DEF Spec

\* No accepted command leaves the queue without having been executed, whatever
\* crashes, lost calls and timeouts there are.
THEOREM NothingIsEverLost == Spec => []NothingIsLost
<1>1. TypeInv /\ ExecInv => NothingIsLost
  BY DEF TypeInv, TypeOK, ExecInv, LogOK, NothingIsLost, Executed, Ran
<1> QED
  BY Typed, Executions, <1>1, PTL

\* A command is executed at most once more than there were faults.
THEOREM RepeatsAreFaults == Spec => []RepeatsNeedFaults
<1>1. ExecInv => RepeatsNeedFaults
  BY DEF ExecInv, RepeatsOK, RepeatsNeedFaults
<1> QED
  BY Executions, <1>1, PTL

-----------------------------------------------------------------------------
\* The queue implements the command log.

\* Every step but sending and executing leaves the log and the counts alone.
LEMMA LogUntouched ==
    ASSUME [Next]_vars, ~Execute, \A r \in Requests : ~Send(r) /\ ~SendFails(r)
    PROVE  accepted' = accepted /\ executed' = executed
<1> USE DEF inQueue
<1>1. CASE UNCHANGED vars
  BY <1>1 DEF vars
<1>2. ASSUME NEW r \in Requests,
             \/ ReceiveOwn(r) \/ ReceiveOther(r) \/ DeleteOwn(r) \/ DeleteLate(r)
             \/ PollFails(r)
      PROVE  accepted' = accepted /\ executed' = executed
  BY <1>2 DEF ReceiveOwn, ReceiveOther, DeleteOwn, DeleteLate, PollFails
<1>3. CASE Receive \/ Answer \/ AnswerFails \/ DeleteBatch \/ DaemonStops
  BY <1>3 DEF Receive, Answer, AnswerFails, DeleteBatch, DaemonStops
<1>4. CASE FlushReceive \/ FlushDelete \/ FlushNothing \/ FlushFails
  BY <1>4 DEF FlushReceive, FlushDelete, FlushNothing, FlushFails
<1>5. CASE \/ InTimeout \/ BatchTimeout \/ OutTimeout \/ ReceiptTimeout
           \/ AppCrash \/ AdminCrash
  BY <1>5 DEF InTimeout, BatchTimeout, OutTimeout, ReceiptTimeout, AppCrash,
              AdminCrash
<1> QED
  BY <1>1, <1>2, <1>3, <1>4, <1>5 DEF Next

\* A step of the queue is a step of the command log or leaves it alone.
LEMMA LogStep ==
    TypeInv /\ ExecInv /\ [Next]_vars => [Log!LogNext]_(Log!logVars)
<1> SUFFICES ASSUME TypeInv, ExecInv, [Next]_vars
             PROVE  [Log!LogNext]_(Log!logVars)
  OBVIOUS
<1>1. ASSUME NEW r \in Requests, Send(r) \/ SendFails(r)
      PROVE  [Log!LogNext]_(Log!logVars)
  <2>1. /\ waiter[r] = "idle" /\ executed' = executed
        /\ accepted' = accepted \/ accepted' = Append(accepted, r)
    BY <1>1 DEF Send, SendFails
  <2>2. Executed' = Executed
    BY <2>1 DEF Executed
  <2>3. CASE accepted' = accepted
    BY <2>2, <2>3 DEF Log!logVars
  <2>4. CASE accepted' = Append(accepted, r)
    <3>1. \A i \in DOMAIN accepted : accepted[i] # r
      BY <2>1 DEF TypeInv, TypeOK, ExecInv, LogOK
    <3> QED
      BY <2>2, <2>4, <3>1 DEF Log!LogNext, Log!Accept
  <2> QED
    BY <2>1, <2>3, <2>4
<1>2. CASE Execute
  <2>1. next \in 1 .. Len(accepted) /\ \A i \in 1 .. next - 1 : Ran(i)
    BY <1>2, ExecuteExec
  <2>2. /\ executed' = [executed EXCEPT ![accepted[next]] = @ + 1]
        /\ accepted' = accepted
    BY <1>2 DEF Execute, inQueue
  <2>3. /\ \A i \in 1 .. Len(accepted) : accepted[i] \in Requests
        /\ executed \in [Requests -> Nat] /\ DOMAIN accepted = 1 .. Len(accepted)
    BY DEF TypeInv, TypeOK
  <2>4. Executed' = Executed \cup {accepted[next]}
    BY <2>1, <2>2, <2>3 DEF Executed
  <2>5. CASE accepted[next] \in Executed
    BY <2>2, <2>4, <2>5 DEF Log!logVars
  <2>6. CASE accepted[next] \notin Executed
    <3>1. \A j \in 1 .. next - 1 : accepted[j] \in Executed
      BY <2>1, <2>3 DEF Executed, Ran
    <3>2. Log!Run(next)
      BY <2>2, <2>4, <2>6, <3>1 DEF Log!Run
    <3> QED
      BY <2>1, <2>3, <3>2 DEF Log!LogNext
  <2> QED
    BY <2>5, <2>6
<1>3. ASSUME ~Execute, \A r \in Requests : ~Send(r) /\ ~SendFails(r)
      PROVE  [Log!LogNext]_(Log!logVars)
  BY <1>3, LogUntouched DEF Executed, Log!logVars
<1> QED
  BY <1>1, <1>2, <1>3

\* The daemon executes the commands in the order in which the queue accepted
\* them, whatever batches, crashes and redeliveries there are.
THEOREM QueueImplementsLog == Spec => ImplementsLog
<1>1. Init => Log!LogInit
  BY DEF Init, Log!LogInit, Executed
<1> QED
  BY <1>1, Typed, Executions, LogStep, PTL DEF Spec, ImplementsLog, Log!LogSpec

-----------------------------------------------------------------------------
\* Answers.

\* A count never goes down.
LEMMA ExecutedGrows ==
    ASSUME TypeInv, [Next]_vars
    PROVE  Executed \subseteq Executed'
<1>1. CASE Execute
  BY <1>1 DEF Execute, Executed, TypeInv, TypeOK
<1>2. ASSUME NEW r \in Requests, Send(r) \/ SendFails(r)
      PROVE  Executed \subseteq Executed'
  BY <1>2 DEF Send, SendFails, Executed
<1>3. ASSUME ~Execute, \A r \in Requests : ~Send(r) /\ ~SendFails(r)
      PROVE  Executed \subseteq Executed'
  BY <1>3, LogUntouched DEF Executed
<1> QED
  BY <1>1, <1>2, <1>3

\* What a step does to the out queue.
LEMMA OutqSteps ==
    ASSUME TypeInv, [Next]_vars
    PROVE  \/ outq' = outq
           \/ \E r \in Requests : /\ DeleteOwn(r) /\ outq # <<>> /\ Head(outq) = r
                                  /\ outq' = Tail(outq)
           \/ Answer /\ outq' = Append(outq, accepted[next])
           \/ FlushDelete /\ outq' = From(outq, outHeld)
<1> USE DEF outQueue
<1>1. CASE UNCHANGED vars
  BY <1>1 DEF vars
<1>2. ASSUME NEW r \in Requests,
             \/ Send(r) \/ SendFails(r) \/ ReceiveOwn(r) \/ ReceiveOther(r)
             \/ DeleteLate(r) \/ PollFails(r)
      PROVE  outq' = outq
  BY <1>2 DEF Send, SendFails, ReceiveOwn, ReceiveOther, DeleteLate, PollFails
<1>3. ASSUME NEW r \in Requests, DeleteOwn(r)
      PROVE  outq # <<>> /\ Head(outq) = r /\ outq' = Tail(outq)
  BY <1>3 DEF DeleteOwn, TypeInv, TypeOK, ReceiptOK
<1>4. CASE Receive \/ Execute \/ AnswerFails \/ DeleteBatch \/ DaemonStops
  BY <1>4 DEF Receive, Execute, AnswerFails, DeleteBatch, DaemonStops
<1>5. CASE Answer
  BY <1>5 DEF Answer
<1>6. CASE FlushReceive \/ FlushNothing \/ FlushFails
  BY <1>6 DEF FlushReceive, FlushNothing, FlushFails
<1>7. CASE FlushDelete
  BY <1>7 DEF FlushDelete
<1>8. CASE \/ InTimeout \/ BatchTimeout \/ OutTimeout \/ ReceiptTimeout
           \/ AppCrash \/ AdminCrash
  BY <1>8 DEF InTimeout, BatchTimeout, OutTimeout, ReceiptTimeout, AppCrash,
              AdminCrash
<1> QED
  BY <1>1, <1>2, <1>3, <1>4, <1>5, <1>6, <1>7, <1>8 DEF Next

\* An answer is deleted by the request it is for, or by the flush.
THEOREM AnswersAreLeft == Spec => AnswersLeaveToTheirRequest
<1>1. TypeInv /\ [Next]_vars =>
        (Len(outq') < Len(outq) =>
            \/ flush \in {"flushing", "checking"} /\ flush' # flush
            \/ /\ waiter[Head(outq)] = "taking"
               /\ waiter'[Head(outq)] = "returned"
               /\ outq' = Tail(outq))
  <2> SUFFICES ASSUME TypeInv, [Next]_vars, Len(outq') < Len(outq)
               PROVE  \/ flush \in {"flushing", "checking"} /\ flush' # flush
                      \/ /\ waiter[Head(outq)] = "taking"
                         /\ waiter'[Head(outq)] = "returned"
                         /\ outq' = Tail(outq)
    OBVIOUS
  <2>1. CASE outq' = outq
    BY <2>1 DEF TypeInv, TypeOK
  <2>2. ASSUME NEW r \in Requests, DeleteOwn(r), Head(outq) = r,
               outq' = Tail(outq)
        PROVE  /\ waiter[Head(outq)] = "taking"
               /\ waiter'[Head(outq)] = "returned"
    BY <2>2 DEF DeleteOwn, TypeInv, TypeOK
  <2>3. CASE Answer
    <3>1. Len(outq') >= Len(outq)
      BY <2>3, OutqGrows DEF Answer, TypeInv
    <3>2. Len(outq) \in Nat /\ Len(outq') \in Nat
      BY <2>3, OutqGrows DEF Answer, TypeInv, TypeOK
    <3> QED
      BY <3>1, <3>2
  <2>4. CASE FlushDelete
    BY <2>4 DEF FlushDelete, FlushFollower
  <2> QED
    BY <2>1, <2>2, <2>3, <2>4, OutqSteps
<1> QED
  BY <1>1, Typed, PTL DEF Spec, AnswersLeaveToTheirRequest

\* Which requests a step lets have an answer: the one that receives it.
LEMMA WaiterSteps ==
    ASSUME TypeInv, [Next]_vars, NEW r \in Requests,
           waiter'[r] \in {"taking", "late", "returned"}
    PROVE  \/ waiter[r] \in {"taking", "late", "returned"}
           \/ outq # <<>> /\ Head(outq) = r
<1> USE DEF TypeInv, TypeOK
<1>1. CASE UNCHANGED vars
  BY <1>1 DEF vars
<1>2. ASSUME NEW q \in Requests, Send(q) \/ SendFails(q) \/ DeleteLate(q) \/ PollFails(q)
      PROVE  waiter[r] \in {"taking", "late", "returned"}
  BY <1>2 DEF Send, SendFails, DeleteLate, PollFails
<1>3. ASSUME NEW q \in Requests, ReceiveOwn(q)
      PROVE  \/ waiter[r] \in {"taking", "late", "returned"}
             \/ outq # <<>> /\ Head(outq) = r
  BY <1>3 DEF ReceiveOwn, Visible
<1>4. ASSUME NEW q \in Requests, ReceiveOther(q) \/ DeleteOwn(q)
      PROVE  waiter[r] \in {"taking", "late", "returned"}
  BY <1>4 DEF ReceiveOther, DeleteOwn
<1>5. CASE \/ Receive \/ Execute \/ Answer \/ AnswerFails \/ DeleteBatch
           \/ DaemonStops
  BY <1>5 DEF Receive, Execute, Answer, AnswerFails, DeleteBatch, DaemonStops
<1>6. CASE FlushReceive \/ FlushDelete \/ FlushNothing \/ FlushFails
  BY <1>6 DEF FlushReceive, FlushDelete, FlushNothing, FlushFails
<1>7. CASE InTimeout \/ BatchTimeout \/ OutTimeout
  BY <1>7 DEF InTimeout, BatchTimeout, OutTimeout
<1>8. CASE ReceiptTimeout
  BY <1>8 DEF ReceiptTimeout
<1>9. CASE AppCrash \/ AdminCrash
  BY <1>9 DEF AppCrash, AdminCrash, Lost
<1> QED
  BY <1>1, <1>2, <1>3, <1>4, <1>5, <1>6, <1>7, <1>8, <1>9 DEF Next

\* A step keeps that answers follow executions.
LEMMA AnswersStep ==
    TypeInv /\ ExecInv /\ AnswersFollowExecution /\ [Next]_vars
        => AnswersFollowExecution'
<1> SUFFICES ASSUME TypeInv, ExecInv, AnswersFollowExecution, [Next]_vars
             PROVE  AnswersFollowExecution'
  OBVIOUS
<1>1. Executed \subseteq Executed'
  BY ExecutedGrows
<1>2. /\ outq \in Seq(Requests) /\ outHeld \in 0 .. Len(outq)
      /\ \A i \in 1 .. Len(outq) : outq[i] \in Executed
  BY DEF TypeInv, TypeOK, AnswersFollowExecution
<1>3. \A r \in Requests : waiter'[r] \in {"taking", "late", "returned"}
                             => r \in Executed
  <2> SUFFICES ASSUME NEW r \in Requests,
                      waiter'[r] \in {"taking", "late", "returned"}
               PROVE  r \in Executed
    OBVIOUS
  <2>1. CASE waiter[r] \in {"taking", "late", "returned"}
    BY <2>1 DEF AnswersFollowExecution
  <2>2. CASE outq # <<>> /\ Head(outq) = r
    BY <1>2, <2>2
  <2> QED
    BY <2>1, <2>2, WaiterSteps
<1>4. \A i \in DOMAIN outq' : outq'[i] \in Executed
  <2>1. CASE outq' = outq
    BY <1>2, <2>1
  <2>2. CASE outq # <<>> /\ outq' = Tail(outq)
    BY <1>2, <2>2
  <2>3. CASE Answer /\ outq' = Append(outq, accepted[next])
    <3>1. next \in 1 .. Len(accepted) /\ Ran(next)
      BY <2>3 DEF Answer, TypeInv, TypeOK, BatchOK, Busy, ExecInv, LogOK
    <3>2. accepted[next] \in Requests /\ accepted[next] \in Executed
      BY <3>1 DEF Executed, Ran, TypeInv, TypeOK
    <3> QED
      BY <1>2, <2>3, <3>2, AppendKeeps
  <2>4. CASE outq' = From(outq, outHeld)
    <3>1. /\ From(outq, outHeld) \in Seq(Requests)
          /\ Len(From(outq, outHeld)) = Len(outq) - outHeld
          /\ \A i \in 1 .. Len(outq) - outHeld :
                From(outq, outHeld)[i] = outq[i + outHeld]
      BY <1>2, FromKeeps
    <3> QED
      BY <1>2, <2>4, <3>1
  <2> QED
    BY <2>1, <2>2, <2>3, <2>4, OutqSteps
<1> QED
  BY <1>1, <1>3, <1>4 DEF AnswersFollowExecution

\* Every answer in the queue and every result returned is of a command that was
\* executed, and a request gets the answer to its own command.
THEOREM AnswersAreTrue == Spec => []AnswersFollowExecution
<1>1. Init => AnswersFollowExecution
  BY DEF Init, AnswersFollowExecution
<1> QED
  BY <1>1, Typed, Executions, AnswersStep, PTL DEF Spec

------------------------------------------------------------------------------
\* Histories: what a walk through the pages of a list has read.

\* s has each of ids once.
Listing(s, ids) ==
    /\ IsFiniteSet(ids) /\ Cardinality(ids) \in Nat
    /\ s \in [1 .. Cardinality(ids) -> ids]
    /\ \A a, b \in 1 .. Cardinality(ids) : s[a] = s[b] => a = b
    /\ \A i \in ids : \E a \in 1 .. Cardinality(ids) : s[a] = i

\* Rows ranked by a strict order of all of them are listed in that order.
LEMMA RankedInOrder ==
    ASSUME NEW ids, IsFiniteSet(ids), NEW before,
           \A i \in ids : <<i, i>> \notin before,
           \A i, j, k \in ids : <<i, j>> \in before /\ <<j, k>> \in before => <<i, k>> \in before,
           \A i, j \in ids : i = j \/ <<i, j>> \in before \/ <<j, i>> \in before
    PROVE  /\ Listing(Ranked(ids, before), ids)
           /\ \A a, b \in 1 .. Cardinality(ids) :
                 a < b => <<Ranked(ids, before)[a], Ranked(ids, before)[b]>> \in before
  <1> DEFINE Ahead(i) == {j \in ids : <<j, i>> \in before}
  <1>1. PICK N \in Nat : N = Cardinality(ids)
    BY FS_CardinalityType
  <1>2. ASSUME NEW i \in ids
        PROVE  /\ IsFiniteSet(Ahead(i)) /\ Cardinality(Ahead(i)) \in Nat
               /\ Cardinality(Ahead(i)) < N
    <2>1. Ahead(i) \in SUBSET (ids \ {i}) /\ Ahead(i) \in SUBSET ids
      OBVIOUS
    <2> HIDE DEF Ahead
    <2>2. IsFiniteSet(ids \ {i}) /\ Cardinality(ids \ {i}) = N - 1
      BY <1>1, FS_RemoveElement
    <2>3. IsFiniteSet(Ahead(i)) /\ Cardinality(Ahead(i)) <= N - 1
      BY <2>1, <2>2, FS_Subset
    <2>4. Cardinality(Ahead(i)) \in Nat
      BY <2>3, FS_CardinalityType
    <2> QED
      BY <1>1, <2>3, <2>4
  <1>3. ASSUME NEW i \in ids, NEW j \in ids, <<j, i>> \in before
        PROVE  Cardinality(Ahead(j)) < Cardinality(Ahead(i))
    <2>1. Ahead(j) \in SUBSET (Ahead(i) \ {j}) /\ j \in Ahead(i)
      BY <1>3
    <2>2. /\ IsFiniteSet(Ahead(i)) /\ Cardinality(Ahead(i)) \in Nat
          /\ Cardinality(Ahead(j)) \in Nat
      BY <1>2
    <2> HIDE DEF Ahead
    <2>3. IsFiniteSet(Ahead(i) \ {j}) /\ Cardinality(Ahead(i) \ {j}) = Cardinality(Ahead(i)) - 1
      BY <2>1, <2>2, FS_RemoveElement
    <2>4. Cardinality(Ahead(j)) <= Cardinality(Ahead(i) \ {j})
      BY <2>1, <2>3, FS_Subset
    <2> QED
      BY <2>2, <2>3, <2>4
  <1> DEFINE rank == [i \in ids |-> Cardinality(Ahead(i)) + 1]
  <1>4. /\ rank \in [ids -> 1 .. N]
        /\ \A i \in ids : rank[i] = Cardinality({j \in ids : <<j, i>> \in before}) + 1
    <2>1. \A i \in ids : rank[i] = Cardinality(Ahead(i)) + 1
      OBVIOUS
    <2>2. \A i \in ids : Cardinality(Ahead(i)) + 1 \in 1 .. N
      <3> HIDE DEF Ahead
      <3> QED
        BY <1>1, <1>2
    <2> QED
      BY <2>1, <2>2
  <1>5. \A i, j \in ids : <<j, i>> \in before => rank[j] < rank[i]
    <2> TAKE i, j \in ids
    <2> HAVE <<j, i>> \in before
    <2>1. Cardinality(Ahead(j)) < Cardinality(Ahead(i))
      BY <1>3
    <2>2. Cardinality(Ahead(j)) \in Nat /\ Cardinality(Ahead(i)) \in Nat
      BY <1>2
    <2>3. rank[i] = Cardinality(Ahead(i)) + 1 /\ rank[j] = Cardinality(Ahead(j)) + 1
      OBVIOUS
    <2> HIDE DEF Ahead, rank
    <2> QED
      BY <2>1, <2>2, <2>3
  <1> HIDE DEF Ahead, rank
  <1>6. \A i, j \in ids : rank[i] = rank[j] => i = j
    <2> TAKE i, j \in ids
    <2>1. rank[i] \in 1 .. N /\ rank[j] \in 1 .. N
      BY <1>4
    <2>2. <<j, i>> \in before => rank[j] < rank[i]
      BY <1>5
    <2>3. <<i, j>> \in before => rank[i] < rank[j]
      BY <1>5
    <2> QED
      BY <1>1, <2>1, <2>2, <2>3
  <1>7. \A n \in 1 .. N : \E i \in ids : rank[i] = n
    <2>1. rank \in Injection(ids, 1 .. N)
      BY <1>4, <1>6 DEF Injection, IsInjective
    <2>2. IsFiniteSet(1 .. N) /\ Cardinality(1 .. N) = N
      BY <1>1, FS_Interval
    <2>3. rank \in Surjection(ids, 1 .. N)
      BY <1>1, <2>1, <2>2, FS_Injection
    <2> QED
      BY <2>3 DEF Surjection
  <1>8. PICK s : s = Ranked(ids, before)
    OBVIOUS
  <1>9. ASSUME NEW n \in 1 .. N
        PROVE  s[n] \in ids /\ rank[s[n]] = n
    <2>1. s[n] = CHOOSE i \in ids : Cardinality({j \in ids : <<j, i>> \in before}) = n - 1
      BY <1>1, <1>8, <1>9 DEF Ranked
    <2>2. PICK i \in ids : rank[i] = n
      BY <1>7
    <2>3. Cardinality({j \in ids : <<j, i>> \in before}) = n - 1
      <3>1. Cardinality(Ahead(i)) \in Nat /\ rank[i] = Cardinality(Ahead(i)) + 1
        BY <1>2, <1>4 DEF Ahead
      <3>2. Cardinality(Ahead(i)) = n - 1
        BY <1>1, <2>2, <3>1
      <3> QED
        BY <3>2 DEF Ahead
    <2>4. s[n] \in ids /\ Cardinality({j \in ids : <<j, s[n]>> \in before}) = n - 1
      BY <2>1, <2>3
    <2>5. rank[s[n]] = (n - 1) + 1
      BY <1>4, <2>4
    <2> QED
      BY <1>1, <2>4, <2>5
  <1>10. s \in [1 .. N -> ids]
    <2> DEFINE nth(n) == CHOOSE i \in ids : Cardinality({j \in ids : <<j, i>> \in before}) = n - 1
    <2>1. s = [n \in 1 .. N |-> nth(n)]
      BY <1>1, <1>8 DEF Ranked
    <2> HIDE DEF nth
    <2>2. \A n \in 1 .. N : nth(n) \in ids
      BY <1>9, <2>1
    <2> QED
      BY <2>1, <2>2
  <1>11. \A a, b \in 1 .. N : s[a] = s[b] => a = b
    BY <1>9
  <1>12. \A i \in ids : \E a \in 1 .. N : s[a] = i
    BY <1>4, <1>6, <1>9
  <1>13. \A a, b \in 1 .. N : a < b => <<s[a], s[b]>> \in before
    <2> TAKE a, b \in 1 .. N
    <2> HAVE a < b
    <2>1. s[a] \in ids /\ s[b] \in ids /\ rank[s[a]] = a /\ rank[s[b]] = b
      BY <1>9
    <2>2. s[a] # s[b] /\ ~(b < a)
      BY <1>1, <2>1
    <2>3. <<s[b], s[a]>> \in before => b < a
      BY <1>5, <2>1
    <2> QED
      BY <2>1, <2>2, <2>3
  <1> QED
    BY <1>1, <1>8, <1>10, <1>11, <1>12, <1>13 DEF Listing

\* Numbers with the greatest first.
Descending(s) == \A a, b \in DOMAIN s : a < b => s[a] > s[b]

\* The newest rows come first, each once.
LEMMA NewestFirst ==
    ASSUME NEW ids \in SUBSET Nat, IsFiniteSet(ids)
    PROVE  Listing(Newest(ids), ids) /\ Descending(Newest(ids))
  <1>1. PICK before : before = {p \in ids \X ids : p[1] > p[2]}
    OBVIOUS
  <1>2. \A i, j \in ids : <<i, j>> \in before <=> i > j
    BY <1>1
  <1>3. /\ Listing(Ranked(ids, before), ids)
        /\ \A a, b \in 1 .. Cardinality(ids) :
              a < b => <<Ranked(ids, before)[a], Ranked(ids, before)[b]>> \in before
    <2>1. \A i \in ids : <<i, i>> \notin before
      BY <1>2
    <2>2. \A i, j, k \in ids : <<i, j>> \in before /\ <<j, k>> \in before => <<i, k>> \in before
      BY <1>2
    <2>3. \A i, j \in ids : i = j \/ <<i, j>> \in before \/ <<j, i>> \in before
      <3>1. \A i, j \in ids : i \in Nat /\ j \in Nat
        OBVIOUS
      <3>2. \A i, j \in Nat : i = j \/ i > j \/ j > i
        OBVIOUS
      <3> QED
        BY <1>2, <3>1, <3>2
    <2> QED
      BY <2>1, <2>2, <2>3, RankedInOrder
  <1>4. PICK s : s = Newest(ids)
    OBVIOUS
  <1>5. s = Ranked(ids, before)
    BY <1>1, <1>4 DEF Newest
  <1>6. Listing(s, ids) /\ \A a, b \in 1 .. Cardinality(ids) : a < b => <<s[a], s[b]>> \in before
    BY <1>3, <1>5
  <1>7. \A a, b \in 1 .. Cardinality(ids) : a < b => s[a] > s[b]
    BY <1>2, <1>6 DEF Listing
  <1> QED
    BY <1>4, <1>6, <1>7 DEF Listing, Descending

\* The tables in which a list of rows finds them.
HomeOf(d, l) ==
    CASE l \in {"purchases", "adminPurchases"} -> d.sales
      [] l \in {"registered", "market", "adminRegistered", "adminMarket"} -> d.items
      [] l \in {"offered", "accounts"} -> d.accounts
      [] l \in {"lives"} -> d.lives
      [] l \in {"payments", "adminPayments", "adminCharges"} -> d.payments
      [] l \in {"usages", "adminUserUsages", "adminUsages", "performance"} -> d.usages
      [] l \in {"cart"} -> d.carts
      [] l \in {"adminVideos", "videos"} -> d.videos
      [] l \in {"adminMatches"} -> d.matches
      [] l \in {"adminAsks", "customers", "businesses"} -> d.asks
      [] l \in {"adminMemos"} -> d.memos
      [] l \in {"adminFaqs", "faqs"} -> d.faqs
      [] l \in {"stocks", "adminStocks"} -> d.stocks
      [] l \in {"outflows", "adminOutflows"} -> d.outflows
      [] l \in {"users"} -> d.people

\* A list of rows takes some rows of one table and has the newest of them first.
NewestOf(s, t) == \E ids \in SUBSET DOMAIN t : s = Newest(ids)
LEMMA RowsAreNewestFirst ==
    ASSUME NEW d, NEW q
    PROVE  \A l \in ListNames \ {"accounts", "faqs", "sales", "matches"} :
              NewestOf(Entries(d, l, q), HomeOf(d, l))
  <1>1. NewestOf(Entries(d, "purchases", q), HomeOf(d, "purchases"))
    <2>1. NewestOf(PurchaseHistory(d, q), d.sales)
      BY DEF NewestOf, PurchaseHistory, Rows
    <2>2. Entries(d, "purchases", q) = PurchaseHistory(d, q)
      BY DEF Entries, OfMarketProfile
    <2>3. HomeOf(d, "purchases") = d.sales
      BY DEF HomeOf
    <2> QED
      BY <2>1, <2>2, <2>3
  <1>2. NewestOf(Entries(d, "registered", q), HomeOf(d, "registered"))
    <2>1. NewestOf(RegisterMarketItems(d, q), d.items)
      BY DEF NewestOf, RegisterMarketItems, Rows
    <2>2. Entries(d, "registered", q) = RegisterMarketItems(d, q)
      BY DEF Entries, OfMarketProfile
    <2>3. HomeOf(d, "registered") = d.items
      BY DEF HomeOf
    <2> QED
      BY <2>1, <2>2, <2>3
  <1>3. NewestOf(Entries(d, "offered", q), HomeOf(d, "offered"))
    <2>1. NewestOf(RegisterStockItems(d, q), d.accounts)
      BY DEF NewestOf, RegisterStockItems, Rows
    <2>2. Entries(d, "offered", q) = RegisterStockItems(d, q)
      BY DEF Entries, OfHoldings
    <2>3. HomeOf(d, "offered") = d.accounts
      BY DEF HomeOf
    <2> QED
      BY <2>1, <2>2, <2>3
  <1>4. NewestOf(Entries(d, "lives", q), HomeOf(d, "lives"))
    <2>1. NewestOf(OrderLives(d, q), d.lives)
      BY DEF NewestOf, OrderLives, Rows
    <2>2. Entries(d, "lives", q) = OrderLives(d, q)
      BY DEF Entries, OfOrders
    <2>3. HomeOf(d, "lives") = d.lives
      BY DEF HomeOf
    <2> QED
      BY <2>1, <2>2, <2>3
  <1>5. NewestOf(Entries(d, "payments", q), HomeOf(d, "payments"))
    <2>1. NewestOf(Payments(d, q), d.payments)
      BY DEF NewestOf, Payments, Rows
    <2>2. Entries(d, "payments", q) = Payments(d, q)
      BY DEF Entries, OfMoney
    <2>3. HomeOf(d, "payments") = d.payments
      BY DEF HomeOf
    <2> QED
      BY <2>1, <2>2, <2>3
  <1>6. NewestOf(Entries(d, "usages", q), HomeOf(d, "usages"))
    <2>1. NewestOf(Usages(d, q), d.usages)
      BY DEF NewestOf, Usages, Rows
    <2>2. Entries(d, "usages", q) = Usages(d, q)
      BY DEF Entries, OfMoney
    <2>3. HomeOf(d, "usages") = d.usages
      BY DEF HomeOf
    <2> QED
      BY <2>1, <2>2, <2>3
  <1>7. NewestOf(Entries(d, "market", q), HomeOf(d, "market"))
    <2>1. NewestOf(MarketItems(d, q), d.items)
      BY DEF NewestOf, MarketItems, Rows
    <2>2. Entries(d, "market", q) = MarketItems(d, q)
      BY DEF Entries, OfMarket
    <2>3. HomeOf(d, "market") = d.items
      BY DEF HomeOf
    <2> QED
      BY <2>1, <2>2, <2>3
  <1>8. NewestOf(Entries(d, "cart", q), HomeOf(d, "cart"))
    <2>1. NewestOf(MarketCart(d, q), d.carts)
      BY DEF NewestOf, MarketCart, Rows
    <2>2. Entries(d, "cart", q) = MarketCart(d, q)
      BY DEF Entries, OfMarket
    <2>3. HomeOf(d, "cart") = d.carts
      BY DEF HomeOf
    <2> QED
      BY <2>1, <2>2, <2>3
  <1>9. NewestOf(Entries(d, "adminUserUsages", q), HomeOf(d, "adminUserUsages"))
    <2>1. NewestOf(AdminUserUsages(d, q), d.usages)
      BY DEF NewestOf, AdminUserUsages, Rows
    <2>2. Entries(d, "adminUserUsages", q) = AdminUserUsages(d, q)
      BY DEF Entries, OfAdminUser
    <2>3. HomeOf(d, "adminUserUsages") = d.usages
      BY DEF HomeOf
    <2> QED
      BY <2>1, <2>2, <2>3
  <1>10. NewestOf(Entries(d, "adminVideos", q), HomeOf(d, "adminVideos"))
    <2>1. NewestOf(AdminVideos(d, q), d.videos)
      BY DEF NewestOf, AdminVideos, Rows
    <2>2. Entries(d, "adminVideos", q) = AdminVideos(d, q)
      BY DEF Entries, OfAdminUser
    <2>3. HomeOf(d, "adminVideos") = d.videos
      BY DEF HomeOf
    <2> QED
      BY <2>1, <2>2, <2>3
  <1>11. NewestOf(Entries(d, "adminPurchases", q), HomeOf(d, "adminPurchases"))
    <2>1. NewestOf(AdminPurchases(d, q), d.sales)
      BY DEF NewestOf, AdminPurchases, Rows
    <2>2. Entries(d, "adminPurchases", q) = AdminPurchases(d, q)
      BY DEF Entries, OfAdminUser
    <2>3. HomeOf(d, "adminPurchases") = d.sales
      BY DEF HomeOf
    <2> QED
      BY <2>1, <2>2, <2>3
  <1>12. NewestOf(Entries(d, "adminRegistered", q), HomeOf(d, "adminRegistered"))
    <2>1. NewestOf(AdminRegistered(d, q), d.items)
      BY DEF NewestOf, AdminRegistered, Rows
    <2>2. Entries(d, "adminRegistered", q) = AdminRegistered(d, q)
      BY DEF Entries, OfAdminUser
    <2>3. HomeOf(d, "adminRegistered") = d.items
      BY DEF HomeOf
    <2> QED
      BY <2>1, <2>2, <2>3
  <1>13. NewestOf(Entries(d, "adminMatches", q), HomeOf(d, "adminMatches"))
    <2>1. NewestOf(AdminMatches(d, q), d.matches)
      BY DEF NewestOf, AdminMatches, Rows
    <2>2. Entries(d, "adminMatches", q) = AdminMatches(d, q)
      BY DEF Entries, OfAdminUser
    <2>3. HomeOf(d, "adminMatches") = d.matches
      BY DEF HomeOf
    <2> QED
      BY <2>1, <2>2, <2>3
  <1>14. NewestOf(Entries(d, "adminPayments", q), HomeOf(d, "adminPayments"))
    <2>1. NewestOf(AdminPayments(d, q), d.payments)
      BY DEF NewestOf, AdminPayments, Rows
    <2>2. Entries(d, "adminPayments", q) = AdminPayments(d, q)
      BY DEF Entries, OfAdminAccount
    <2>3. HomeOf(d, "adminPayments") = d.payments
      BY DEF HomeOf
    <2> QED
      BY <2>1, <2>2, <2>3
  <1>15. NewestOf(Entries(d, "adminAsks", q), HomeOf(d, "adminAsks"))
    <2>1. NewestOf(AdminUserAsks(d, q), d.asks)
      BY DEF NewestOf, AdminUserAsks, Rows
    <2>2. Entries(d, "adminAsks", q) = AdminUserAsks(d, q)
      BY DEF Entries, OfAdminAccount
    <2>3. HomeOf(d, "adminAsks") = d.asks
      BY DEF HomeOf
    <2> QED
      BY <2>1, <2>2, <2>3
  <1>16. NewestOf(Entries(d, "adminMemos", q), HomeOf(d, "adminMemos"))
    <2>1. NewestOf(AdminMemos(d, q), d.memos)
      BY DEF NewestOf, AdminMemos, Rows
    <2>2. Entries(d, "adminMemos", q) = AdminMemos(d, q)
      BY DEF Entries, OfAdminAccount
    <2>3. HomeOf(d, "adminMemos") = d.memos
      BY DEF HomeOf
    <2> QED
      BY <2>1, <2>2, <2>3
  <1>17. NewestOf(Entries(d, "customers", q), HomeOf(d, "customers"))
    <2>1. NewestOf(AdminCustomers(d, q), d.asks)
      BY DEF NewestOf, AdminCustomers, Rows, Questions
    <2>2. Entries(d, "customers", q) = AdminCustomers(d, q)
      BY DEF Entries, OfAdminSupport
    <2>3. HomeOf(d, "customers") = d.asks
      BY DEF HomeOf
    <2> QED
      BY <2>1, <2>2, <2>3
  <1>18. NewestOf(Entries(d, "businesses", q), HomeOf(d, "businesses"))
    <2>1. NewestOf(AdminBusinesses(d, q), d.asks)
      BY DEF NewestOf, AdminBusinesses, Rows, Questions
    <2>2. Entries(d, "businesses", q) = AdminBusinesses(d, q)
      BY DEF Entries, OfAdminSupport
    <2>3. HomeOf(d, "businesses") = d.asks
      BY DEF HomeOf
    <2> QED
      BY <2>1, <2>2, <2>3
  <1>19. NewestOf(Entries(d, "adminFaqs", q), HomeOf(d, "adminFaqs"))
    <2>1. NewestOf(AdminFaqs(d, q), d.faqs)
      BY DEF NewestOf, AdminFaqs, Rows
    <2>2. Entries(d, "adminFaqs", q) = AdminFaqs(d, q)
      BY DEF Entries, OfAdminSupport
    <2>3. HomeOf(d, "adminFaqs") = d.faqs
      BY DEF HomeOf
    <2> QED
      BY <2>1, <2>2, <2>3
  <1>20. NewestOf(Entries(d, "videos", q), HomeOf(d, "videos"))
    <2>1. NewestOf(WorkspaceVideos(d, q), d.videos)
      BY DEF NewestOf, WorkspaceVideos, Rows
    <2>2. Entries(d, "videos", q) = WorkspaceVideos(d, q)
      BY DEF Entries
    <2>3. HomeOf(d, "videos") = d.videos
      BY DEF HomeOf
    <2> QED
      BY <2>1, <2>2, <2>3
  <1>21. NewestOf(Entries(d, "stocks", q), HomeOf(d, "stocks"))
    <2>1. NewestOf(StockItems(d, q), d.stocks)
      BY DEF NewestOf, StockItems, Rows
    <2>2. Entries(d, "stocks", q) = StockItems(d, q)
      BY DEF Entries
    <2>3. HomeOf(d, "stocks") = d.stocks
      BY DEF HomeOf
    <2> QED
      BY <2>1, <2>2, <2>3
  <1>22. NewestOf(Entries(d, "outflows", q), HomeOf(d, "outflows"))
    <2>1. NewestOf(Outflows(d, q), d.outflows)
      BY DEF NewestOf, Outflows, Rows
    <2>2. Entries(d, "outflows", q) = Outflows(d, q)
      BY DEF Entries
    <2>3. HomeOf(d, "outflows") = d.outflows
      BY DEF HomeOf
    <2> QED
      BY <2>1, <2>2, <2>3
  <1>23. NewestOf(Entries(d, "users", q), HomeOf(d, "users"))
    <2>1. NewestOf(AdminUsers(d, q), d.people)
      BY DEF NewestOf, AdminUsers, Rows
    <2>2. Entries(d, "users", q) = AdminUsers(d, q)
      BY DEF Entries
    <2>3. HomeOf(d, "users") = d.people
      BY DEF HomeOf
    <2> QED
      BY <2>1, <2>2, <2>3
  <1>24. NewestOf(Entries(d, "adminMarket", q), HomeOf(d, "adminMarket"))
    <2>1. NewestOf(AdminMarketItems(d, q), d.items)
      BY DEF NewestOf, AdminMarketItems, Rows
    <2>2. Entries(d, "adminMarket", q) = AdminMarketItems(d, q)
      BY DEF Entries
    <2>3. HomeOf(d, "adminMarket") = d.items
      BY DEF HomeOf
    <2> QED
      BY <2>1, <2>2, <2>3
  <1>25. NewestOf(Entries(d, "adminStocks", q), HomeOf(d, "adminStocks"))
    <2>1. NewestOf(AdminStockItems(d, q), d.stocks)
      BY DEF NewestOf, AdminStockItems, Rows
    <2>2. Entries(d, "adminStocks", q) = AdminStockItems(d, q)
      BY DEF Entries
    <2>3. HomeOf(d, "adminStocks") = d.stocks
      BY DEF HomeOf
    <2> QED
      BY <2>1, <2>2, <2>3
  <1>26. NewestOf(Entries(d, "adminUsages", q), HomeOf(d, "adminUsages"))
    <2>1. NewestOf(AdminUsages(d, q), d.usages)
      BY DEF NewestOf, AdminUsages, Rows
    <2>2. Entries(d, "adminUsages", q) = AdminUsages(d, q)
      BY DEF Entries
    <2>3. HomeOf(d, "adminUsages") = d.usages
      BY DEF HomeOf
    <2> QED
      BY <2>1, <2>2, <2>3
  <1>27. NewestOf(Entries(d, "performance", q), HomeOf(d, "performance"))
    <2>1. NewestOf(Performance(d, q), d.usages)
      BY DEF NewestOf, Performance, Rows
    <2>2. Entries(d, "performance", q) = Performance(d, q)
      BY DEF Entries
    <2>3. HomeOf(d, "performance") = d.usages
      BY DEF HomeOf
    <2> QED
      BY <2>1, <2>2, <2>3
  <1>28. NewestOf(Entries(d, "adminCharges", q), HomeOf(d, "adminCharges"))
    <2>1. NewestOf(AdminCharges(d, q), d.payments)
      BY DEF NewestOf, AdminCharges, Rows
    <2>2. Entries(d, "adminCharges", q) = AdminCharges(d, q)
      BY DEF Entries
    <2>3. HomeOf(d, "adminCharges") = d.payments
      BY DEF HomeOf
    <2> QED
      BY <2>1, <2>2, <2>3
  <1>29. NewestOf(Entries(d, "adminOutflows", q), HomeOf(d, "adminOutflows"))
    <2>1. NewestOf(AdminOutflows(d, q), d.outflows)
      BY DEF NewestOf, AdminOutflows, Rows
    <2>2. Entries(d, "adminOutflows", q) = AdminOutflows(d, q)
      BY DEF Entries
    <2>3. HomeOf(d, "adminOutflows") = d.outflows
      BY DEF HomeOf
    <2> QED
      BY <2>1, <2>2, <2>3
  <1> QED
    BY <1>1, <1>2, <1>3, <1>4, <1>5, <1>6, <1>7, <1>8, <1>9, <1>10, <1>11, <1>12, <1>13, <1>14, <1>15, <1>16, <1>17, <1>18, <1>19, <1>20, <1>21, <1>22, <1>23, <1>24, <1>25, <1>26, <1>27, <1>28, <1>29 DEF ListNames

\* The tables have their rows.
LEMMA TablesTyped ==
    ASSUME NEW d \in Tables
    PROVE  /\ d.items \in Seq(ItemRow)
           /\ d.sales \in Seq(SaleRow)
           /\ d.carts \in Seq(CartRow)
           /\ d.videos \in Seq(VideoRow)
           /\ d.stocks \in Seq(StockRow)
           /\ d.accounts \in Seq(AccountRow)
           /\ d.lives \in Seq(OrderRow)
           /\ d.matches \in Seq(MatchRow)
           /\ d.payments \in Seq(PaymentRow)
           /\ d.usages \in Seq(UsageRow)
           /\ d.outflows \in Seq(OutflowRow)
           /\ d.people \in Seq(PersonRow)
           /\ d.asks \in Seq(QuestionRow)
           /\ d.faqs \in Seq(FaqRow)
           /\ d.memos \in Seq(MemoRow)
  BY DEF Tables

\* A table is a sequence of rows.
LEMMA RowsHaveIds ==
    ASSUME NEW S, NEW t \in Seq(S)
    PROVE  /\ Len(t) \in Nat /\ DOMAIN t = 1 .. Len(t)
           /\ \A i \in DOMAIN t : t[i] \in S
  OBVIOUS

\* A row that satisfies a condition is one of finitely many.
LEMMA HomesAreTables ==
    ASSUME NEW d \in Tables, NEW l \in ListNames \ {"sales", "matches"}
    PROVE  \E n \in Nat : DOMAIN HomeOf(d, l) = 1 .. n
  <1>1. \E n \in Nat : DOMAIN d.items = 1 .. n
    BY TablesTyped, RowsHaveIds
  <1>2. \E n \in Nat : DOMAIN d.sales = 1 .. n
    BY TablesTyped, RowsHaveIds
  <1>3. \E n \in Nat : DOMAIN d.carts = 1 .. n
    BY TablesTyped, RowsHaveIds
  <1>4. \E n \in Nat : DOMAIN d.videos = 1 .. n
    BY TablesTyped, RowsHaveIds
  <1>5. \E n \in Nat : DOMAIN d.stocks = 1 .. n
    BY TablesTyped, RowsHaveIds
  <1>6. \E n \in Nat : DOMAIN d.accounts = 1 .. n
    BY TablesTyped, RowsHaveIds
  <1>7. \E n \in Nat : DOMAIN d.lives = 1 .. n
    BY TablesTyped, RowsHaveIds
  <1>8. \E n \in Nat : DOMAIN d.matches = 1 .. n
    BY TablesTyped, RowsHaveIds
  <1>9. \E n \in Nat : DOMAIN d.payments = 1 .. n
    BY TablesTyped, RowsHaveIds
  <1>10. \E n \in Nat : DOMAIN d.usages = 1 .. n
    BY TablesTyped, RowsHaveIds
  <1>11. \E n \in Nat : DOMAIN d.outflows = 1 .. n
    BY TablesTyped, RowsHaveIds
  <1>12. \E n \in Nat : DOMAIN d.people = 1 .. n
    BY TablesTyped, RowsHaveIds
  <1>13. \E n \in Nat : DOMAIN d.asks = 1 .. n
    BY TablesTyped, RowsHaveIds
  <1>14. \E n \in Nat : DOMAIN d.faqs = 1 .. n
    BY TablesTyped, RowsHaveIds
  <1>15. \E n \in Nat : DOMAIN d.memos = 1 .. n
    BY TablesTyped, RowsHaveIds
  <1> QED
    BY <1>1, <1>2, <1>3, <1>4, <1>5, <1>6, <1>7, <1>8, <1>9, <1>10, <1>11, <1>12, <1>13, <1>14, <1>15 DEF HomeOf, ListNames

\* What is listed once each.
LEMMA ListedAreMembers ==
    ASSUME NEW s, NEW ids, Listing(s, ids)
    PROVE  /\ ToSet(s) = ids /\ s \in Seq(ids) /\ Len(s) = Cardinality(ids)
           /\ DOMAIN s = 1 .. Len(s) /\ Len(s) \in Nat
           /\ Listing(s, ToSet(s))
  <1>1. PICK n \in Nat : n = Cardinality(ids)
    BY DEF Listing
  <1>2. s \in [1 .. n -> ids]
    BY <1>1 DEF Listing
  <1>3. s \in Seq(ids) /\ Len(s) = n /\ DOMAIN s = 1 .. n
    BY <1>1, <1>2
  <1>4. ToSet(s) = ids
    BY <1>1, <1>2, <1>3 DEF ToSet, Listing
  <1> QED
    BY <1>1, <1>3, <1>4

\* A list of rows has each of some rows of its table once; the rows are there.
LEMMA NewestAreListed ==
    ASSUME NEW s, NEW t, NEW n \in Nat, DOMAIN t = 1 .. n, NewestOf(s, t)
    PROVE  /\ Listing(s, ToSet(s)) /\ ToSet(s) \subseteq DOMAIN t
           /\ ToSet(s) \subseteq Nat /\ Descending(s)
  <1>1. PICK ids \in SUBSET DOMAIN t : s = Newest(ids)
    BY DEF NewestOf
  <1>2. ids \in SUBSET Nat /\ IsFiniteSet(ids)
    <2>1. ids \in SUBSET (1 .. n)
      BY <1>1
    <2>2. ids \in SUBSET Nat
      BY <2>1
    <2>3. IsFiniteSet(ids)
      BY <2>1, IdsAreFinite
    <2> QED
      BY <2>2, <2>3
  <1>3. Listing(s, ids) /\ Descending(s)
    BY <1>1, <1>2, NewestFirst
  <1> QED
    BY <1>1, <1>2, <1>3, ListedAreMembers

\* The days of some rows are finitely many, and numbers.
LEMMA DaysAreFinite ==
    ASSUME NEW n \in Nat, NEW ids \in SUBSET (1 .. n), NEW at, \A i \in ids : at[i] \in Nat
    PROVE  IsFiniteSet({DayOf(at[i]) : i \in ids}) /\ {DayOf(at[i]) : i \in ids} \in SUBSET Nat
  <1>1. PICK f : f = [i \in ids |-> DayOf(at[i])]
    OBVIOUS
  <1>2. PICK days : days = {DayOf(at[i]) : i \in ids}
    OBVIOUS
  <1>3. f \in Surjection(ids, days)
    <2>1. \A i \in ids : f[i] = DayOf(at[i])
      BY <1>1
    <2>2. f \in [ids -> days]
      BY <1>1, <1>2
    <2>3. \A x \in days : \E i \in ids : f[i] = x
      BY <1>2, <2>1
    <2> QED
      BY <2>2, <2>3 DEF Surjection
  <1>4. IsFiniteSet(days)
    BY <1>3, IdsAreFinite, FS_Surjection
  <1>5. ASSUME NEW i \in ids PROVE DayOf(at[i]) \in Nat
    <2>1. PICK moment \in Nat : moment = at[i]
      OBVIOUS
    <2>2. PICK m \in Nat \ {0} : m = Moments
      BY PageAssumption
    <2>3. moment \div m \in Nat
      BY Z3
    <2> QED
      BY <2>1, <2>2, <2>3 DEF DayOf
  <1> QED
    BY <1>2, <1>4, <1>5

LEMMA SaleDaysAreListed ==
    ASSUME NEW d \in Tables, NEW q
    PROVE  Listing(SalesDays(d, q), ToSet(SalesDays(d, q))) /\ ToSet(SalesDays(d, q)) \subseteq Nat
  <1>1. \E n \in Nat : DOMAIN d.sales = 1 .. n /\ \A i \in 1 .. n : d.sales[i].at \in Nat
    <2>1. d.sales \in Seq(SaleRow) /\ \A x \in SaleRow : x.at \in Nat
      BY TablesTyped DEF SaleRow
    <2> QED
      BY <2>1, RowsHaveIds
  <1>2. PICK n \in Nat : DOMAIN d.sales = 1 .. n /\ \A i \in 1 .. n : d.sales[i].at \in Nat
    BY <1>1
  <1>3. PICK ids : ids = SalesOf(d, q)
    OBVIOUS
  <1>4. ids \in SUBSET (1 .. n)
    BY <1>2, <1>3 DEF SalesOf, Rows
  <1>5. PICK at : at = [i \in ids |-> d.sales[i].at]
    OBVIOUS
  <1>6. \A i \in ids : at[i] = d.sales[i].at /\ at[i] \in Nat
    BY <1>2, <1>4, <1>5
  <1>7. PICK days : days = {DayOf(at[i]) : i \in ids}
    OBVIOUS
  <1>8. days \in SUBSET Nat /\ IsFiniteSet(days)
    BY <1>4, <1>6, <1>7, DaysAreFinite
  <1>9. SalesDays(d, q) = Newest(days)
    <2>1. days = {DayOf(d.sales[s].at) : s \in SalesOf(d, q)}
      BY <1>3, <1>6, <1>7
    <2> QED
      BY <2>1 DEF SalesDays
  <1> QED
    BY <1>8, <1>9, NewestFirst, ListedAreMembers

LEMMA MatchDaysAreListed ==
    ASSUME NEW d \in Tables, NEW q
    PROVE  Listing(SellMatchDays(d, q), ToSet(SellMatchDays(d, q))) /\ ToSet(SellMatchDays(d, q)) \subseteq Nat
  <1>1. \E n \in Nat : DOMAIN d.matches = 1 .. n /\ \A i \in 1 .. n : d.matches[i].at \in Nat
    <2>1. d.matches \in Seq(MatchRow) /\ \A x \in MatchRow : x.at \in Nat
      BY TablesTyped DEF MatchRow
    <2> QED
      BY <2>1, RowsHaveIds
  <1>2. PICK n \in Nat : DOMAIN d.matches = 1 .. n /\ \A i \in 1 .. n : d.matches[i].at \in Nat
    BY <1>1
  <1>3. PICK ids : ids = MatchesOf(d, q)
    OBVIOUS
  <1>4. ids \in SUBSET (1 .. n)
    BY <1>2, <1>3 DEF MatchesOf, Rows
  <1>5. PICK at : at = [i \in ids |-> d.matches[i].at]
    OBVIOUS
  <1>6. \A i \in ids : at[i] = d.matches[i].at /\ at[i] \in Nat
    BY <1>2, <1>4, <1>5
  <1>7. PICK days : days = {DayOf(at[i]) : i \in ids}
    OBVIOUS
  <1>8. days \in SUBSET Nat /\ IsFiniteSet(days)
    BY <1>4, <1>6, <1>7, DaysAreFinite
  <1>9. SellMatchDays(d, q) = Newest(days)
    <2>1. days = {DayOf(d.matches[s].at) : s \in MatchesOf(d, q)}
      BY <1>3, <1>6, <1>7
    <2> QED
      BY <2>1 DEF SellMatchDays
  <1> QED
    BY <1>8, <1>9, NewestFirst, ListedAreMembers

\* The questions that all may read: the oldest come first.
LEMMA FaqsAreListed ==
    ASSUME NEW d \in Tables, NEW q
    PROVE  /\ Listing(Faqs(d, q), ToSet(Faqs(d, q))) /\ ToSet(Faqs(d, q)) \subseteq DOMAIN d.faqs
           /\ \A a, b \in DOMAIN Faqs(d, q) : a < b => Faqs(d, q)[a] < Faqs(d, q)[b]
  <1>1. PICK ids : ids = {i \in DOMAIN d.faqs : ~d.faqs[i].gone}
    OBVIOUS
  <1>2. PICK n \in Nat : DOMAIN d.faqs = 1 .. n
    BY TablesTyped, RowsHaveIds
  <1>3. ids \in SUBSET (1 .. n) /\ ids \in SUBSET Nat /\ IsFiniteSet(ids)
    <2>1. ids \in SUBSET (1 .. n)
      BY <1>1, <1>2
    <2> QED
      BY <2>1, IdsAreFinite
  <1>4. PICK s : s = Newest(ids)
    OBVIOUS
  <1>5. Listing(s, ids) /\ Descending(s)
    BY <1>3, <1>4, NewestFirst
  <1>6. PICK t : t = Faqs(d, q)
    OBVIOUS
  <1>7. t = Reverse(s)
    BY <1>1, <1>4, <1>6 DEF Faqs, Rows
  <1>8. PICK m \in Nat : m = Cardinality(ids)
    BY <1>5 DEF Listing
  <1>9. s \in [1 .. m -> ids] /\ Len(s) = m
    BY <1>8, <1>5 DEF Listing
  <1>10. t = [i \in 1 .. m |-> s[m - i + 1]]
    BY <1>7, <1>9 DEF Reverse
  <1>11. \A i \in 1 .. m : m - i + 1 \in 1 .. m /\ t[i] = s[m - i + 1]
    BY <1>10
  <1>12. t \in [1 .. m -> ids]
    BY <1>9, <1>10, <1>11
  <1>13. Listing(t, ids)
    <2>1. \A a, b \in 1 .. m : t[a] = t[b] => a = b
      <3> TAKE a, b \in 1 .. m
      <3>1. s[m - a + 1] = s[m - b + 1] => m - a + 1 = m - b + 1
        BY <1>5, <1>8, <1>11 DEF Listing
      <3> QED
        BY <1>11, <3>1
    <2>2. \A i \in ids : \E a \in 1 .. m : t[a] = i
      <3> TAKE i \in ids
      <3>1. PICK a \in 1 .. m : s[a] = i
        BY <1>5, <1>8 DEF Listing
      <3>2. m - a + 1 \in 1 .. m /\ m - (m - a + 1) + 1 = a
        OBVIOUS
      <3> QED
        BY <1>11, <3>1, <3>2
    <2> QED
      BY <1>5, <1>8, <1>12, <2>1, <2>2 DEF Listing
  <1>14. \A a, b \in DOMAIN t : a < b => t[a] < t[b]
    <2> TAKE a, b \in DOMAIN t
    <2> HAVE a < b
    <2>1. a \in 1 .. m /\ b \in 1 .. m
      BY <1>12
    <2>2. m - a + 1 \in 1 .. m /\ m - b + 1 \in 1 .. m /\ m - b + 1 < m - a + 1
      BY <2>1
    <2>3. s[m - b + 1] > s[m - a + 1]
      BY <1>5, <1>9, <2>2 DEF Descending
    <2>4. s[m - b + 1] \in Nat /\ s[m - a + 1] \in Nat
      BY <1>3, <1>9, <2>2
    <2> QED
      BY <1>11, <2>1, <2>3, <2>4
  <1> QED
    BY <1>2, <1>3, <1>6, <1>13, <1>14, ListedAreMembers

\* Held shares: by volume or by the last change, and by id where these agree.
LEMMA AccountsAreListed ==
    ASSUME NEW d \in Tables, NEW q
    PROVE  /\ Listing(StockAccounts(d, q), ToSet(StockAccounts(d, q)))
           /\ ToSet(StockAccounts(d, q)) \subseteq DOMAIN d.accounts
           /\ q.option \in {"volume", "none"} =>
                 \A a, b \in DOMAIN StockAccounts(d, q) : a < b =>
                    Key(d, "accounts", q, StockAccounts(d, q)[a])
                        >= Key(d, "accounts", q, StockAccounts(d, q)[b])
  <1>1. PICK owned : owned = HeldAccounts(d)
    OBVIOUS
  <1>2. PICK key : key = [a \in owned |-> IF q.option = "volume" THEN d.accounts[a].volume
                                                               ELSE d.accounts[a].touched]
    OBVIOUS
  <1>3. \A a \in owned : key[a] = IF q.option = "volume" THEN d.accounts[a].volume
                                                       ELSE d.accounts[a].touched
    BY <1>2
  <1>4. PICK n \in Nat : DOMAIN d.accounts = 1 .. n /\ \A a \in 1 .. n : d.accounts[a] \in AccountRow
    BY TablesTyped, RowsHaveIds
  <1>5. owned \in SUBSET (1 .. n)
    BY <1>1, <1>4 DEF HeldAccounts, Rows
  <1>6. \A a \in owned : key[a] \in Int /\ a \in Nat
    <2> TAKE a \in owned
    <2>1. d.accounts[a] \in AccountRow /\ a \in 1 .. n
      BY <1>4, <1>5
    <2>2. d.accounts[a].volume \in Int /\ d.accounts[a].touched \in Int
      BY <2>1 DEF AccountRow
    <2> QED
      BY <1>3, <2>1, <2>2
  <1>7. PICK before : before = {p \in owned \X owned :
            key[p[1]] > key[p[2]] \/ (key[p[1]] = key[p[2]] /\ p[1] < p[2])}
    OBVIOUS
  <1>8. \A i, j \in owned : <<i, j>> \in before <=> key[i] > key[j] \/ (key[i] = key[j] /\ i < j)
    BY <1>7
  <1>9. PICK s : s = StockAccounts(d, q)
    OBVIOUS
  <1>10. s = Ranked(owned, before)
    <2>1. before = {p \in owned \X owned :
             \/ (IF q.option = "volume" THEN d.accounts[p[1]].volume ELSE d.accounts[p[1]].touched)
                  > (IF q.option = "volume" THEN d.accounts[p[2]].volume ELSE d.accounts[p[2]].touched)
             \/ /\ (IF q.option = "volume" THEN d.accounts[p[1]].volume ELSE d.accounts[p[1]].touched)
                     = (IF q.option = "volume" THEN d.accounts[p[2]].volume ELSE d.accounts[p[2]].touched)
                /\ p[1] < p[2]}
      <3>1. \A p \in owned \X owned : p[1] \in owned /\ p[2] \in owned
        OBVIOUS
      <3> QED
        BY <1>3, <1>7, <3>1
    <2> QED
      BY <1>1, <1>9, <2>1 DEF StockAccounts
  <1>11. /\ Listing(s, owned)
         /\ \A a, b \in 1 .. Cardinality(owned) : a < b => <<s[a], s[b]>> \in before
    <2>1. \A i \in owned : <<i, i>> \notin before
      BY <1>6, <1>8
    <2>2. \A i, j, k \in owned : <<i, j>> \in before /\ <<j, k>> \in before => <<i, k>> \in before
      BY <1>6, <1>8
    <2>3. \A i, j \in owned : i = j \/ <<i, j>> \in before \/ <<j, i>> \in before
      <3> TAKE i, j \in owned
      <3>1. PICK x \in Int, y \in Int : x = key[i] /\ y = key[j]
        BY <1>6
      <3>2. i \in Nat /\ j \in Nat
        BY <1>6
      <3>3. <<i, j>> \in before <=> x > y \/ (x = y /\ i < j)
        BY <1>8, <3>1
      <3>4. <<j, i>> \in before <=> y > x \/ (y = x /\ j < i)
        BY <1>8, <3>1
      <3> QED
        BY <3>2, <3>3, <3>4
    <2>4. IsFiniteSet(owned)
      BY <1>5, IdsAreFinite
    <2> QED
      BY <1>10, <2>1, <2>2, <2>3, <2>4, RankedInOrder
  <1>12. ASSUME q.option \in {"volume", "none"}, NEW a \in 1 .. Cardinality(owned),
                NEW b \in 1 .. Cardinality(owned), a < b
         PROVE  Key(d, "accounts", q, s[a]) >= Key(d, "accounts", q, s[b])
    <2>1. PICK i \in owned, j \in owned : i = s[a] /\ j = s[b]
      BY <1>11 DEF Listing
    <2>2. key[i] >= key[j]
      <3>1. <<i, j>> \in before
        BY <1>11, <1>12, <2>1
      <3>2. PICK x \in Int, y \in Int : x = key[i] /\ y = key[j]
        BY <1>6
      <3>3. x > y \/ x = y
        BY <1>8, <3>1, <3>2
      <3> QED
        BY <3>2, <3>3
    <2>3. \A k \in owned : Key(d, "accounts", q, k) = key[k]
      <3> TAKE k \in owned
      <3>1. CASE q.option = "volume"
        <4>1. Key(d, "accounts", q, k) = d.accounts[k].volume
          BY <3>1 DEF Key, ByTime
        <4> QED
          BY <1>3, <3>1, <4>1
      <3>2. CASE q.option = "none"
        <4>1. Key(d, "accounts", q, k) = d.accounts[k].touched
          BY <3>2 DEF Key, ByTime
        <4> QED
          BY <1>3, <3>2, <4>1
      <3> QED
        BY <1>12, <3>1, <3>2
    <2> QED
      BY <2>1, <2>2, <2>3
  <1>13. ToSet(s) = owned /\ Listing(s, ToSet(s)) /\ DOMAIN s = 1 .. Cardinality(owned)
    BY <1>11, ListedAreMembers
  <1> QED
    BY <1>4, <1>5, <1>9, <1>12, <1>13

\* Every list has each of its rows, or days, once.
LEMMA EntriesAreListed ==
    ASSUME NEW d \in Tables, NEW l \in ListNames, NEW q
    PROVE  /\ Listing(Entries(d, l, q), ToSet(Entries(d, l, q)))
           /\ ToSet(Entries(d, l, q)) \subseteq Nat
           /\ l \notin {"sales", "matches"} =>
                 /\ ToSet(Entries(d, l, q)) \subseteq DOMAIN HomeOf(d, l)
                 /\ \E n \in Nat : DOMAIN HomeOf(d, l) = 1 .. n
           /\ l \notin {"accounts", "faqs", "sales", "matches"} => Descending(Entries(d, l, q))
  <1>1. CASE l = "sales"
    <2>1. Entries(d, l, q) = SalesDays(d, q)
      BY <1>1 DEF Entries, OfMarketProfile
    <2> QED
      BY <1>1, <2>1, SaleDaysAreListed
  <1>2. CASE l = "matches"
    <2>1. Entries(d, l, q) = SellMatchDays(d, q)
      BY <1>2 DEF Entries, OfOrders
    <2> QED
      BY <1>2, <2>1, MatchDaysAreListed
  <1>3. CASE l = "accounts"
    <2>1. Entries(d, l, q) = StockAccounts(d, q)
      BY <1>3 DEF Entries, OfHoldings
    <2>2. HomeOf(d, l) = d.accounts
      BY <1>3 DEF HomeOf
    <2>3. PICK n \in Nat : DOMAIN HomeOf(d, l) = 1 .. n
      BY <1>3, HomesAreTables
    <2> QED
      BY <1>3, <2>1, <2>2, <2>3, AccountsAreListed
  <1>4. CASE l = "faqs"
    <2>1. Entries(d, l, q) = Faqs(d, q)
      BY <1>4 DEF Entries
    <2>2. HomeOf(d, l) = d.faqs
      BY <1>4 DEF HomeOf
    <2>3. PICK n \in Nat : DOMAIN HomeOf(d, l) = 1 .. n
      BY <1>4, HomesAreTables
    <2> QED
      BY <1>4, <2>1, <2>2, <2>3, FaqsAreListed
  <1>5. CASE l \notin {"accounts", "faqs", "sales", "matches"}
    <2>1. NewestOf(Entries(d, l, q), HomeOf(d, l))
      BY <1>5, RowsAreNewestFirst
    <2>2. PICK n \in Nat : DOMAIN HomeOf(d, l) = 1 .. n
      BY <1>5, HomesAreTables
    <2>3. PICK s : s = Entries(d, l, q)
      OBVIOUS
    <2>4. PICK t : t = HomeOf(d, l)
      OBVIOUS
    <2>5. Listing(s, ToSet(s)) /\ ToSet(s) \subseteq DOMAIN t /\ Descending(s)
      BY <2>1, <2>2, <2>3, <2>4, NewestAreListed
    <2> QED
      BY <2>2, <2>3, <2>4, <2>5
  <1> QED
    BY <1>1, <1>2, <1>3, <1>4, <1>5

\* A list that may be given in more than one order.
Free(l, q) == l \in ByTime \cup {"accounts"} \/ q.option \in {"rand", "price"}

\* Each order of a list has all of it, once.
LEMMA OrdersList ==
    ASSUME NEW d \in Tables, NEW l \in ListNames, NEW q, NEW s \in Orders(d, l, q)
    PROVE  Listing(s, ToSet(Entries(d, l, q)))
  <1>1. CASE ~Free(l, q)
    <2>1. s = Entries(d, l, q)
      BY <1>1 DEF Orders, Free
    <2> QED
      BY <2>1, EntriesAreListed
  <1>2. CASE Free(l, q)
    <2>1. PICK E : E = ToSet(Entries(d, l, q))
      OBVIOUS
    <2>2. s \in SetToSeqs(E)
      BY <1>2, <2>1 DEF Orders, Free
    <2>3. IsFiniteSet(E) /\ Cardinality(E) \in Nat
      BY <2>1, EntriesAreListed DEF Listing
    <2>4. PICK n \in Nat : n = Cardinality(E)
      BY <2>3
    <2>5. s \in [1 .. n -> E] /\ \A a, b \in 1 .. n : s[a] = s[b] => a = b
      BY <2>2, <2>4 DEF SetToSeqs
    <2>6. s \in Injection(1 .. n, E)
      BY <2>5 DEF Injection, IsInjective
    <2>7. IsFiniteSet(1 .. n) /\ Cardinality(1 .. n) = n
      BY FS_Interval
    <2>8. s \in Surjection(1 .. n, E)
      BY <2>3, <2>4, <2>6, <2>7, FS_Injection
    <2>9. \A i \in E : \E a \in 1 .. n : s[a] = i
      BY <2>8 DEF Surjection
    <2> QED
      BY <2>1, <2>3, <2>4, <2>5, <2>9 DEF Listing
  <1> QED
    BY <1>1, <1>2

\* The order in which the accounts are listed is one that the query allows.
LEMMA AccountsInOrder ==
    ASSUME NEW d \in Tables, NEW q, q.option \in {"volume", "none"}
    PROVE  Entries(d, "accounts", q) \in Orders(d, "accounts", q)
  <1>1. PICK s : s = StockAccounts(d, q)
    OBVIOUS
  <1>2. Entries(d, "accounts", q) = s
    BY <1>1 DEF Entries, OfHoldings
  <1>3. Listing(s, ToSet(s))
    BY <1>1, AccountsAreListed
  <1>4. \A a, b \in DOMAIN s : a < b =>
           Key(d, "accounts", q, s[a]) >= Key(d, "accounts", q, s[b])
    BY <1>1, AccountsAreListed
  <1>5. s \in SetToSeqs(ToSet(s))
    BY <1>3 DEF Listing, SetToSeqs
  <1> QED
    BY <1>2, <1>4, <1>5 DEF Orders

\* The orders of a list depend on the rows and on what it is ordered by.
LEMMA OrdersSame ==
    ASSUME NEW d, NEW e, NEW l, NEW q, Entries(e, l, q) = Entries(d, l, q),
           \A k \in ToSet(Entries(d, l, q)) : Key(e, l, q, k) = Key(d, l, q, k)
    PROVE  Orders(e, l, q) = Orders(d, l, q)
  <1>1. PICK E : E = ToSet(Entries(d, l, q))
    OBVIOUS
  <1>2. \A s \in SetToSeqs(E) : \A i \in DOMAIN s : s[i] \in E
    BY DEF SetToSeqs
  <1>3. \A s \in SetToSeqs(E) :
           (\A i, j \in DOMAIN s : i < j => Key(e, l, q, s[i]) >= Key(e, l, q, s[j]))
           <=> (\A i, j \in DOMAIN s : i < j => Key(d, l, q, s[i]) >= Key(d, l, q, s[j]))
    BY <1>1, <1>2
  <1> QED
    BY <1>1, <1>3 DEF Orders

\* What a change leaves as it was: the times and prices of the rows that are there.
Kept(d, e) ==
    /\ \A k \in DOMAIN d.items : k \in DOMAIN e.items /\ e.items[k].at = d.items[k].at
    /\ \A k \in DOMAIN d.sales : k \in DOMAIN e.sales /\ e.sales[k].at = d.sales[k].at
    /\ \A k \in DOMAIN d.lives : k \in DOMAIN e.lives /\ e.lives[k].at = d.lives[k].at
    /\ \A k \in DOMAIN d.accounts : k \in DOMAIN e.accounts /\ e.accounts[k].at = d.accounts[k].at
    /\ \A k \in DOMAIN d.payments : k \in DOMAIN e.payments /\ e.payments[k].at = d.payments[k].at
    /\ \A k \in DOMAIN d.stocks : k \in DOMAIN e.stocks /\ e.stocks[k].price = d.stocks[k].price

\* By what a list is ordered does not change, but for the accounts.
LEMMA KeysKept ==
    ASSUME NEW d \in Tables, NEW e, Kept(d, e), NEW l \in ListNames \ {"accounts"},
           NEW q \in Queries(l), NEW k \in ToSet(Entries(d, l, q))
    PROVE  Key(e, l, q, k) = Key(d, l, q, k)
  <1>1. q.option \in Options(l) \cup {"none"}
    BY DEF Queries
  <1>2. q.option # "volume"
    BY <1>1 DEF Options, ListNames
  <1>3. CASE q.option = "rand"
    BY <1>3 DEF Key, Options, ListNames
  <1>4. l \notin {"sales", "matches"} => k \in DOMAIN HomeOf(d, l)
    BY EntriesAreListed
  <1>5. CASE q.option = "price"
    <2>1. l = "stocks"
      BY <1>1, <1>5 DEF Options, ListNames
    <2>2. k \in DOMAIN d.stocks
      BY <1>4, <2>1 DEF HomeOf
    <2>3. Key(e, l, q, k) = e.stocks[k].price /\ Key(d, l, q, k) = d.stocks[k].price
      BY <1>5, <2>1 DEF Key, ByTime
    <2> QED
      BY <2>2, <2>3 DEF Kept
  <1>6. CASE q.option \notin {"rand", "price"} /\ l \in ByTime
    <2>1. Key(e, l, q, k) = Table(e, l)[k].at /\ Key(d, l, q, k) = Table(d, l)[k].at
      BY <1>2, <1>6 DEF Key
    <2>2. k \in DOMAIN HomeOf(d, l)
      BY <1>4, <1>6 DEF ByTime
    <2>3. Table(e, l)[k].at = Table(d, l)[k].at
      BY <1>6, <2>2 DEF ByTime, HomeOf, Table, Kept
    <2> QED
      BY <2>1, <2>3
  <1>7. CASE q.option \notin {"rand", "price"} /\ l \notin ByTime
    BY <1>2, <1>7 DEF Key
  <1> QED
    BY <1>3, <1>5, <1>6, <1>7

\* f goes before e in a list.
Goes(d, l, q, f, e) ==
    IF l = "faqs" THEN f < e ELSE Key(d, l, q, f) > Key(d, l, q, e)

\* Lists that do not count first are ordered by numbers.
LEMMA KeysAreNumbers ==
    ASSUME NEW d \in Tables, NEW l \in ListNames \ CountedFirst, NEW q \in Queries(l),
           NEW k \in ToSet(Entries(d, l, q))
    PROVE  Key(d, l, q, k) \in Int /\ k \in Nat
  <1>1. q.option \in Options(l) \cup {"none"}
    BY DEF Queries
  <1>2. l \notin {"sales", "matches", "accounts"}
    BY DEF CountedFirst
  <1>3. q.option # "volume"
    BY <1>1, <1>2 DEF Options, ListNames
  <1>4. k \in DOMAIN HomeOf(d, l) /\ k \in Nat
    BY <1>2, EntriesAreListed
  <1>5. CASE q.option = "rand"
    <2>1. l \in {"market", "stocks"}
      BY <1>1, <1>5 DEF Options, ListNames
    <2> QED
      BY <1>4, <1>5, <2>1 DEF Key, ByTime
  <1>6. CASE q.option = "price"
    <2>1. l = "stocks"
      BY <1>1, <1>6 DEF Options, ListNames
    <2>2. k \in DOMAIN d.stocks
      BY <1>4, <2>1 DEF HomeOf
    <2>3. Key(d, l, q, k) = d.stocks[k].price
      BY <1>6, <2>1 DEF Key, ByTime
    <2>4. d.stocks[k] \in StockRow
      BY <2>2, TablesTyped, RowsHaveIds
    <2> QED
      BY <1>4, <2>3, <2>4 DEF StockRow
  <1>7. CASE q.option \notin {"rand", "price"} /\ l \in ByTime
    <2>1. Key(d, l, q, k) = Table(d, l)[k].at
      BY <1>3, <1>7 DEF Key
    <2>2. Table(d, l)[k].at \in Nat
      <3>1. CASE l = "purchases"
        <4>1. k \in DOMAIN d.sales
          BY <1>4, <3>1 DEF HomeOf
        <4>2. d.sales[k] \in SaleRow
          BY <4>1, TablesTyped, RowsHaveIds
        <4> QED
          BY <3>1, <4>2 DEF Table, SaleRow
      <3>2. CASE l = "registered"
        <4>1. k \in DOMAIN d.items
          BY <1>4, <3>2 DEF HomeOf
        <4>2. d.items[k] \in ItemRow
          BY <4>1, TablesTyped, RowsHaveIds
        <4> QED
          BY <3>2, <4>2 DEF Table, ItemRow
      <3>3. CASE l = "lives"
        <4>1. k \in DOMAIN d.lives
          BY <1>4, <3>3 DEF HomeOf
        <4>2. d.lives[k] \in OrderRow
          BY <4>1, TablesTyped, RowsHaveIds
        <4> QED
          BY <3>3, <4>2 DEF Table, OrderRow
      <3>4. CASE l = "offered"
        <4>1. k \in DOMAIN d.accounts
          BY <1>4, <3>4 DEF HomeOf
        <4>2. d.accounts[k] \in AccountRow
          BY <4>1, TablesTyped, RowsHaveIds
        <4> QED
          BY <3>4, <4>2 DEF Table, AccountRow
      <3>5. CASE l = "payments"
        <4>1. k \in DOMAIN d.payments
          BY <1>4, <3>5 DEF HomeOf
        <4>2. d.payments[k] \in PaymentRow
          BY <4>1, TablesTyped, RowsHaveIds
        <4> QED
          BY <3>5, <4>2 DEF Table, PaymentRow
      <3> QED
        BY <1>7, <3>1, <3>2, <3>3, <3>4, <3>5 DEF ByTime
    <2> QED
      BY <1>4, <2>1, <2>2
  <1>8. CASE q.option \notin {"rand", "price"} /\ l \notin ByTime
    <2>1. Key(d, l, q, k) = k
      BY <1>2, <1>3, <1>8 DEF Key
    <2> QED
      BY <1>4, <2>1
  <1> QED
    BY <1>5, <1>6, <1>7, <1>8

\* Two rows of a list change places: where both have the same place in the order,
\* the order allows it.
LEMMA OnlyOrderIsStrict ==
    ASSUME NEW d \in Tables, NEW l \in ListNames \ CountedFirst, NEW q \in Queries(l),
           NEW s \in Orders(d, l, q), Orders(d, l, q) = {s}, Free(l, q),
           NEW a \in DOMAIN s, NEW b \in DOMAIN s, a < b
    PROVE  Key(d, l, q, s[a]) > Key(d, l, q, s[b])
  <1>1. PICK E : E = ToSet(Entries(d, l, q))
    OBVIOUS
  <1>2. Listing(s, E)
    BY <1>1, OrdersList
  <1>3. PICK n \in Nat : n = Cardinality(E)
    BY <1>2 DEF Listing
  <1>4. s \in [1 .. n -> E] /\ (\A i, j \in 1 .. n : s[i] = s[j] => i = j) /\ DOMAIN s = 1 .. n
    BY <1>2, <1>3 DEF Listing
  <1>5. \A i, j \in 1 .. n : i < j => Key(d, l, q, s[i]) >= Key(d, l, q, s[j])
    BY <1>4 DEF Orders, Free
  <1>6. PICK key : key = [i \in 1 .. n |-> Key(d, l, q, s[i])]
    OBVIOUS
  <1>7. \A i \in 1 .. n : key[i] = Key(d, l, q, s[i]) /\ key[i] \in Int
    <2> TAKE i \in 1 .. n
    <2>1. s[i] \in ToSet(Entries(d, l, q))
      BY <1>1, <1>4
    <2> QED
      BY <1>6, <2>1, KeysAreNumbers
  <1>8. SUFFICES ASSUME key[a] = key[b] PROVE FALSE
    <2>1. key[a] \in Int /\ key[b] \in Int
      BY <1>4, <1>7
    <2>2. key[a] >= key[b]
      BY <1>4, <1>5, <1>7
    <2> QED
      BY <1>4, <1>7, <2>1, <2>2
  <1>9. PICK t : t = [i \in 1 .. n |-> IF i = a THEN s[b] ELSE IF i = b THEN s[a] ELSE s[i]]
    OBVIOUS
  <1>10. t \in [1 .. n -> E] /\ \A i, j \in 1 .. n : t[i] = t[j] => i = j
    BY <1>4, <1>9
  <1>11. \A i \in 1 .. n : Key(d, l, q, t[i]) = key[i]
    BY <1>4, <1>7, <1>8, <1>9
  <1>12. t \in Orders(d, l, q)
    <2>1. t \in SetToSeqs(E)
      BY <1>3, <1>10 DEF SetToSeqs
    <2>2. \A i, j \in DOMAIN t : i < j => Key(d, l, q, t[i]) >= Key(d, l, q, t[j])
      BY <1>5, <1>7, <1>9, <1>11
    <2> QED
      BY <1>1, <2>1, <2>2 DEF Orders, Free
  <1>13. t[a] = s[b] /\ s[a] # s[b]
    BY <1>4, <1>9
  <1> QED
    BY <1>12, <1>13

\* A list that can be given in one order only has its rows in a strict order.
LEMMA OneOrder ==
    ASSUME NEW d \in Tables, NEW l \in ListNames \ CountedFirst, NEW q \in Queries(l),
           NEW s \in Orders(d, l, q), Orders(d, l, q) = {s}
    PROVE  \A a, b \in DOMAIN s : a < b => Goes(d, l, q, s[a], s[b])
  <1> TAKE a, b \in DOMAIN s
  <1> HAVE a < b
  <1>0. q.option \in Options(l) \cup {"none"}
    BY DEF Queries
  <1>1. CASE l = "faqs"
    <2>1. ~Free(l, q)
      BY <1>0, <1>1 DEF Free, Options, ByTime
    <2>2. s = Entries(d, l, q)
      BY <2>1 DEF Orders, Free
    <2>3. s = Faqs(d, q)
      BY <1>1, <2>2 DEF Entries
    <2> QED
      BY <1>1, <2>3, FaqsAreListed DEF Goes
  <1>2. CASE l # "faqs" /\ Free(l, q)
    BY <1>2, OnlyOrderIsStrict DEF Goes
  <1>3. CASE l # "faqs" /\ ~Free(l, q)
    <2>1. s = Entries(d, l, q)
      BY <1>3 DEF Orders, Free
    <2>2. l \notin {"accounts", "faqs", "sales", "matches"}
      BY <1>3 DEF CountedFirst
    <2>3. s[a] > s[b]
      BY <2>1, <2>2, EntriesAreListed DEF Descending
    <2>4. q.option # "volume"
      BY <1>0, <2>2 DEF Options, ListNames
    <2>5. \A k : Key(d, l, q, k) = k
      BY <1>3, <2>2, <2>4 DEF Key, Free
    <2> QED
      BY <1>3, <2>3, <2>5 DEF Goes
  <1> QED
    BY <1>1, <1>2, <1>3

\* The rows that go before a row.
Ahead(d, l, q, e) == {f \in ToSet(Entries(d, l, q)) : Goes(d, l, q, f, e)}

\* They are finitely many, and stay when rows come.
LEMMA AheadIsFinite ==
    ASSUME NEW d \in Tables, NEW l \in ListNames, NEW q, NEW e
    PROVE  IsFiniteSet(Ahead(d, l, q, e)) /\ Cardinality(Ahead(d, l, q, e)) \in Nat
  <1>1. IsFiniteSet(ToSet(Entries(d, l, q)))
    BY EntriesAreListed DEF Listing
  <1>2. Ahead(d, l, q, e) \in SUBSET ToSet(Entries(d, l, q))
    BY DEF Ahead
  <1> QED
    BY <1>1, <1>2, FS_Subset, FS_CardinalityType

LEMMA AheadGrows ==
    ASSUME NEW c \in Tables, NEW d \in Tables, Kept(c, d),
           NEW l \in ListNames \ CountedFirst, NEW q \in Queries(l),
           ToSet(Entries(c, l, q)) \subseteq ToSet(Entries(d, l, q)),
           NEW e \in ToSet(Entries(c, l, q))
    PROVE  Cardinality(Ahead(c, l, q, e)) <= Cardinality(Ahead(d, l, q, e))
  <1>1. l # "accounts"
    BY DEF CountedFirst
  <1>2. Ahead(c, l, q, e) \in SUBSET Ahead(d, l, q, e)
    <2>1. ASSUME NEW f \in Ahead(c, l, q, e) PROVE f \in Ahead(d, l, q, e)
      <3>1. f \in ToSet(Entries(c, l, q)) /\ Goes(c, l, q, f, e)
        BY DEF Ahead
      <3>2. Key(d, l, q, f) = Key(c, l, q, f) /\ Key(d, l, q, e) = Key(c, l, q, e)
        BY <1>1, <3>1, KeysKept
      <3>3. Goes(d, l, q, f, e)
        BY <3>1, <3>2 DEF Goes
      <3> QED
        BY <3>1, <3>3 DEF Ahead
    <2> QED
      BY <2>1
  <1> QED
    BY <1>2, AheadIsFinite, FS_Subset

\* A row is not one of those before it.
LEMMA AheadOfTotal ==
    ASSUME NEW d \in Tables, NEW l \in ListNames \ CountedFirst, NEW q \in Queries(l),
           NEW e \in ToSet(Entries(d, l, q))
    PROVE  Cardinality(Ahead(d, l, q, e)) < Len(Entries(d, l, q))
  <1>1. PICK E : E = ToSet(Entries(d, l, q))
    OBVIOUS
  <1>2. Listing(Entries(d, l, q), E)
    BY <1>1, EntriesAreListed
  <1>3. IsFiniteSet(E) /\ Cardinality(E) \in Nat /\ Len(Entries(d, l, q)) = Cardinality(E)
    BY <1>2, ListedAreMembers DEF Listing
  <1>4. PICK A : A = Ahead(d, l, q, e)
    OBVIOUS
  <1>5. e \notin A
    <2>1. Key(d, l, q, e) \in Int /\ e \in Nat
      BY KeysAreNumbers
    <2>2. ~Goes(d, l, q, e, e)
      BY <2>1 DEF Goes
    <2> QED
      BY <1>4, <2>2 DEF Ahead
  <1>6. A \in SUBSET (E \ {e})
    BY <1>1, <1>4, <1>5 DEF Ahead
  <1>7. IsFiniteSet(E \ {e}) /\ Cardinality(E \ {e}) = Cardinality(E) - 1
    BY <1>1, <1>3, FS_RemoveElement
  <1>8. Cardinality(A) <= Cardinality(E) - 1 /\ Cardinality(A) \in Nat
    BY <1>6, <1>7, <1>4, AheadIsFinite, FS_Subset
  <1> QED
    BY <1>3, <1>4, <1>8

\* The rows of s before its p-th.
Before(s, p) == {s[i] : i \in 1 .. p - 1}

\* Of rows that are listed once each the first p - 1 are as many.
LEMMA FirstAreAsMany ==
    ASSUME NEW n \in Nat, NEW p \in 1 .. n, NEW s,
           \A i, j \in 1 .. n : s[i] = s[j] => i = j
    PROVE  Cardinality(Before(s, p)) = p - 1
  <1>1. PICK f : f = [i \in 1 .. p - 1 |-> s[i]]
    OBVIOUS
  <1>2. PICK A : A = {s[i] : i \in 1 .. p - 1}
    OBVIOUS
  <1>3. \A i \in 1 .. p - 1 : f[i] = s[i] /\ i \in 1 .. n
    BY <1>1
  <1>4. f \in Surjection(1 .. p - 1, A)
    <2>1. f \in [1 .. p - 1 -> A]
      BY <1>1, <1>2
    <2>2. \A x \in A : \E i \in 1 .. p - 1 : f[i] = x
      BY <1>2, <1>3
    <2> QED
      BY <2>1, <2>2 DEF Surjection
  <1>5. f \in Injection(1 .. p - 1, A)
    <2>1. \A i, j \in 1 .. p - 1 : f[i] = f[j] => i = j
      BY <1>3
    <2> QED
      BY <1>4, <2>1 DEF Surjection, Injection, IsInjective
  <1>6. IsFiniteSet(1 .. p - 1) /\ Cardinality(1 .. p - 1) = p - 1
    BY FS_Interval
  <1>7. Cardinality(A) = Cardinality(1 .. p - 1)
    BY <1>4, <1>5, <1>6, FS_Surjection
  <1> QED
    BY <1>2, <1>6, <1>7 DEF Before

\* In a strict order the place of a row is the number of rows before it.
LEMMA PlaceIsCount ==
    ASSUME NEW d \in Tables, NEW l \in ListNames \ CountedFirst, NEW q \in Queries(l),
           NEW s \in Orders(d, l, q), Orders(d, l, q) = {s}, NEW p \in DOMAIN s
    PROVE  p \in Nat /\ Cardinality(Ahead(d, l, q, s[p])) = p - 1
  <1>1. PICK E : E = ToSet(Entries(d, l, q))
    OBVIOUS
  <1>2. Listing(s, E)
    BY <1>1, OrdersList
  <1>3. PICK n \in Nat : n = Cardinality(E)
    BY <1>2 DEF Listing
  <1>4. /\ s \in [1 .. n -> E] /\ DOMAIN s = 1 .. n /\ p \in 1 .. n
        /\ \A i, j \in 1 .. n : s[i] = s[j] => i = j
        /\ \A e \in E : \E i \in 1 .. n : s[i] = e
    BY <1>2, <1>3 DEF Listing
  <1>5. \A a, b \in 1 .. n : a < b => Goes(d, l, q, s[a], s[b])
    BY <1>4, OneOrder
  <1>6. ASSUME NEW i \in 1 .. n, NEW j \in 1 .. n, j <= i PROVE ~Goes(d, l, q, s[i], s[j])
    <2>1. s[i] \in ToSet(Entries(d, l, q)) /\ s[j] \in ToSet(Entries(d, l, q))
      BY <1>1, <1>4
    <2>2. PICK x \in Int, y \in Int : x = Key(d, l, q, s[i]) /\ y = Key(d, l, q, s[j])
      BY <2>1, KeysAreNumbers
    <2>3. s[i] \in Nat /\ s[j] \in Nat
      BY <2>1, KeysAreNumbers
    <2>4. CASE i = j
      BY <2>2, <2>3, <2>4 DEF Goes
    <2>5. CASE i # j
      <3>1. Goes(d, l, q, s[j], s[i])
        BY <1>5, <1>6, <2>5
      <3> QED
        BY <2>2, <2>3, <3>1 DEF Goes
    <2> QED
      BY <2>4, <2>5
  <1>7. Ahead(d, l, q, s[p]) = Before(s, p)
    <2>1. ASSUME NEW f \in Ahead(d, l, q, s[p]) PROVE \E i \in 1 .. p - 1 : f = s[i]
      <3>1. PICK i \in 1 .. n : s[i] = f
        BY <1>1, <1>4 DEF Ahead
      <3>2. Goes(d, l, q, s[i], s[p])
        BY <3>1 DEF Ahead
      <3>3. ~(p <= i)
        BY <1>4, <1>6, <3>2
      <3> QED
        BY <1>4, <3>1, <3>3
    <2>2. ASSUME NEW i \in 1 .. p - 1 PROVE s[i] \in Ahead(d, l, q, s[p])
      <3>1. i \in 1 .. n /\ i < p
        BY <1>4
      <3>2. Goes(d, l, q, s[i], s[p]) /\ s[i] \in E
        BY <1>4, <1>5, <3>1
      <3> QED
        BY <1>1, <3>2 DEF Ahead
    <2>3. PICK A : A = Ahead(d, l, q, s[p])
      OBVIOUS
    <2>4. PICK B : B = {s[i] : i \in 1 .. p - 1}
      OBVIOUS
    <2>5. A \subseteq B
      BY <2>1, <2>3, <2>4
    <2>6. B \subseteq A
      BY <2>2, <2>3, <2>4
    <2>7. A = B
      BY ONLY <2>5, <2>6
    <2> QED
      BY <2>3, <2>4, <2>7 DEF Before
  <1>8. Cardinality(Before(s, p)) = p - 1
    <2>1. /\ n \in Nat /\ p \in 1 .. n
          /\ \A i, j \in 1 .. n : s[i] = s[j] => i = j
      BY ONLY <1>4
    <2> QED
      BY ONLY <2>1, FirstAreAsMany, ZenonT(60)
  <1> QED
    BY <1>4, <1>7, <1>8

\* Each change keeps the tables typed, the rows there and what lists are ordered by.
LEMMA CreateMarketItemKeeps ==
    ASSUME db \in Tables, now \in Nat, NEW u \in Users, NEW y \in BOOLEAN, CreateMarketItem(u, y)
    PROVE  \E e \in Tables : Kept(db, e) /\ Changing(e)
  <1>1. PICK x : x = [owner |-> u, titled |-> y, show |-> TRUE, deleted |-> FALSE, at |-> now]
    OBVIOUS
  <1>2. x \in ItemRow
    BY <1>1 DEF ItemRow
  <1>3. PICK t : t = Append(db.items, x)
    OBVIOUS
  <1>4. t \in Seq(ItemRow) /\ \A k \in DOMAIN db.items : k \in DOMAIN t /\ t[k] = db.items[k]
    BY <1>2, <1>3, TablesTyped, Appended
  <1>5. PICK e : e = [db EXCEPT !.items = t]
    OBVIOUS
  <1>6. /\ e \in Tables /\ e.items = t
        /\ e.sales = db.sales
        /\ e.lives = db.lives
        /\ e.accounts = db.accounts
        /\ e.payments = db.payments
        /\ e.stocks = db.stocks
    BY <1>4, <1>5 DEF Tables
  <1>7. Kept(db, e)
    BY <1>4, <1>6 DEF Kept
  <1>8. Changing(e)
    BY <1>1, <1>3, <1>5 DEF CreateMarketItem, Add
  <1> QED
    BY <1>6, <1>7, <1>8

LEMMA ShowMarketItemKeeps ==
    ASSUME db \in Tables, now \in Nat, NEW i \in DOMAIN db.items, ShowMarketItem(i)
    PROVE  \E e \in Tables : Kept(db, e) /\ Changing(e)
  <1>1. db.items \in Seq(ItemRow) /\ db.items[i] \in ItemRow
    BY TablesTyped, RowsHaveIds
  <1>2. PICK x : x = [db.items[i] EXCEPT !.show = ~@]
    OBVIOUS
  <1>3. x \in ItemRow /\ x.at = db.items[i].at
    BY <1>1, <1>2 DEF ItemRow
  <1>4. PICK t : t = [db.items EXCEPT ![i] = x]
    OBVIOUS
  <1>5. t \in Seq(ItemRow) /\ \A k \in DOMAIN db.items : k \in DOMAIN t /\ t[k].at = db.items[k].at
    BY <1>1, <1>3, <1>4, Replaced
  <1>6. PICK e : e = [db EXCEPT !.items = t]
    OBVIOUS
  <1>7. /\ e \in Tables /\ e.items = t
        /\ e.sales = db.sales
        /\ e.lives = db.lives
        /\ e.accounts = db.accounts
        /\ e.payments = db.payments
        /\ e.stocks = db.stocks
    BY <1>5, <1>6 DEF Tables
  <1>8. Kept(db, e)
    BY <1>5, <1>7 DEF Kept
  <1>9. Changing(e)
    BY <1>2, <1>4, <1>6 DEF ShowMarketItem, Change
  <1> QED
    BY <1>7, <1>8, <1>9

LEMMA DeleteMarketItemKeeps ==
    ASSUME db \in Tables, now \in Nat, NEW i \in DOMAIN db.items, DeleteMarketItem(i)
    PROVE  \E e \in Tables : Kept(db, e) /\ Changing(e)
  <1>1. db.items \in Seq(ItemRow) /\ db.items[i] \in ItemRow
    BY TablesTyped, RowsHaveIds
  <1>2. PICK x : x = [db.items[i] EXCEPT !.deleted = TRUE, !.show = FALSE]
    OBVIOUS
  <1>3. x \in ItemRow /\ x.at = db.items[i].at
    BY <1>1, <1>2 DEF ItemRow
  <1>4. PICK t : t = [db.items EXCEPT ![i] = x]
    OBVIOUS
  <1>5. t \in Seq(ItemRow) /\ \A k \in DOMAIN db.items : k \in DOMAIN t /\ t[k].at = db.items[k].at
    BY <1>1, <1>3, <1>4, Replaced
  <1>6. PICK e : e = [db EXCEPT !.items = t]
    OBVIOUS
  <1>7. /\ e \in Tables /\ e.items = t
        /\ e.sales = db.sales
        /\ e.lives = db.lives
        /\ e.accounts = db.accounts
        /\ e.payments = db.payments
        /\ e.stocks = db.stocks
    BY <1>5, <1>6 DEF Tables
  <1>8. Kept(db, e)
    BY <1>5, <1>7 DEF Kept
  <1>9. Changing(e)
    BY <1>2, <1>4, <1>6 DEF DeleteMarketItem, Change
  <1> QED
    BY <1>7, <1>8, <1>9

LEMMA AdminDeleteKeeps ==
    ASSUME db \in Tables, now \in Nat, NEW i \in DOMAIN db.items, AdminDelete(i)
    PROVE  \E e \in Tables : Kept(db, e) /\ Changing(e)
  <1>1. db.items \in Seq(ItemRow) /\ db.items[i] \in ItemRow
    BY TablesTyped, RowsHaveIds
  <1>2. PICK x : x = [db.items[i] EXCEPT !.deleted = ~@]
    OBVIOUS
  <1>3. x \in ItemRow /\ x.at = db.items[i].at
    BY <1>1, <1>2 DEF ItemRow
  <1>4. PICK t : t = [db.items EXCEPT ![i] = x]
    OBVIOUS
  <1>5. t \in Seq(ItemRow) /\ \A k \in DOMAIN db.items : k \in DOMAIN t /\ t[k].at = db.items[k].at
    BY <1>1, <1>3, <1>4, Replaced
  <1>6. PICK e : e = [db EXCEPT !.items = t]
    OBVIOUS
  <1>7. /\ e \in Tables /\ e.items = t
        /\ e.sales = db.sales
        /\ e.lives = db.lives
        /\ e.accounts = db.accounts
        /\ e.payments = db.payments
        /\ e.stocks = db.stocks
    BY <1>5, <1>6 DEF Tables
  <1>8. Kept(db, e)
    BY <1>5, <1>7 DEF Kept
  <1>9. Changing(e)
    BY <1>2, <1>4, <1>6 DEF AdminDelete, Change
  <1> QED
    BY <1>7, <1>8, <1>9

LEMMA PurchaseKeeps ==
    ASSUME db \in Tables, now \in Nat, NEW u \in Users, NEW i \in DOMAIN db.items, Purchase(u, i)
    PROVE  \E e \in Tables : Kept(db, e) /\ Changing(e)
  <1>1. PICK x1 : x1 = [buyer |-> u, item |-> i, at |-> now, available |-> TRUE]
    OBVIOUS
  <1>2. i \in Nat
    BY TablesTyped, RowsHaveIds
  <1>3. x1 \in SaleRow
    BY <1>1, <1>2 DEF SaleRow
  <1>4. PICK t1 : t1 = Append(db.sales, x1)
    OBVIOUS
  <1>5. t1 \in Seq(SaleRow) /\ \A k \in DOMAIN db.sales : k \in DOMAIN t1 /\ t1[k] = db.sales[k]
    BY <1>3, <1>4, TablesTyped, Appended
  <1>6. PICK x2 : x2 = [user |-> u, type |-> "MARKET", ref |-> i, at |-> now]
    OBVIOUS
  <1>7. i \in Nat
    BY TablesTyped, RowsHaveIds
  <1>8. x2 \in UsageRow
    BY <1>6, <1>7 DEF UsageRow
  <1>9. PICK t2 : t2 = Append(db.usages, x2)
    OBVIOUS
  <1>10. t2 \in Seq(UsageRow) /\ \A k \in DOMAIN db.usages : k \in DOMAIN t2 /\ t2[k] = db.usages[k]
    BY <1>8, <1>9, TablesTyped, Appended
  <1>11. PICK e : e = [db EXCEPT !.sales = t1, !.usages = t2]
    OBVIOUS
  <1>12. /\ e \in Tables /\ e.sales = t1 /\ e.usages = t2
        /\ e.items = db.items
        /\ e.lives = db.lives
        /\ e.accounts = db.accounts
        /\ e.payments = db.payments
        /\ e.stocks = db.stocks
    BY <1>5, <1>10, <1>11 DEF Tables
  <1>13. Kept(db, e)
    BY <1>5, <1>10, <1>12 DEF Kept
  <1>14. Changing(e)
    BY <1>1, <1>4, <1>6, <1>9, <1>11 DEF Purchase, Add, Usage
  <1> QED
    BY <1>12, <1>13, <1>14

LEMMA ExpireDownloadKeeps ==
    ASSUME db \in Tables, now \in Nat, NEW s \in DOMAIN db.sales, ExpireDownload(s)
    PROVE  \E e \in Tables : Kept(db, e) /\ Changing(e)
  <1>1. db.sales \in Seq(SaleRow) /\ db.sales[s] \in SaleRow
    BY TablesTyped, RowsHaveIds
  <1>2. PICK x : x = [db.sales[s] EXCEPT !.available = FALSE]
    OBVIOUS
  <1>3. x \in SaleRow /\ x.at = db.sales[s].at
    BY <1>1, <1>2 DEF SaleRow
  <1>4. PICK t : t = [db.sales EXCEPT ![s] = x]
    OBVIOUS
  <1>5. t \in Seq(SaleRow) /\ \A k \in DOMAIN db.sales : k \in DOMAIN t /\ t[k].at = db.sales[k].at
    BY <1>1, <1>3, <1>4, Replaced
  <1>6. PICK e : e = [db EXCEPT !.sales = t]
    OBVIOUS
  <1>7. /\ e \in Tables /\ e.sales = t
        /\ e.items = db.items
        /\ e.lives = db.lives
        /\ e.accounts = db.accounts
        /\ e.payments = db.payments
        /\ e.stocks = db.stocks
    BY <1>5, <1>6 DEF Tables
  <1>8. Kept(db, e)
    BY <1>5, <1>7 DEF Kept
  <1>9. Changing(e)
    BY <1>2, <1>4, <1>6 DEF ExpireDownload, Change
  <1> QED
    BY <1>7, <1>8, <1>9

LEMMA AddToCartKeeps ==
    ASSUME db \in Tables, now \in Nat, NEW i \in DOMAIN db.items, AddToCart(i)
    PROVE  \E e \in Tables : Kept(db, e) /\ Changing(e)
  <1>1. PICK x : x = [user |-> Me, item |-> i, gone |-> FALSE]
    OBVIOUS
  <1>2. i \in Nat
    BY TablesTyped, RowsHaveIds
  <1>3. x \in CartRow
    BY <1>1, <1>2, PageAssumption DEF CartRow
  <1>4. PICK t : t = Append(db.carts, x)
    OBVIOUS
  <1>5. t \in Seq(CartRow) /\ \A k \in DOMAIN db.carts : k \in DOMAIN t /\ t[k] = db.carts[k]
    BY <1>3, <1>4, TablesTyped, Appended
  <1>6. PICK e : e = [db EXCEPT !.carts = t]
    OBVIOUS
  <1>7. /\ e \in Tables /\ e.carts = t
        /\ e.items = db.items
        /\ e.sales = db.sales
        /\ e.lives = db.lives
        /\ e.accounts = db.accounts
        /\ e.payments = db.payments
        /\ e.stocks = db.stocks
    BY <1>5, <1>6 DEF Tables
  <1>8. Kept(db, e)
    BY <1>5, <1>7 DEF Kept
  <1>9. Changing(e)
    BY <1>1, <1>4, <1>6 DEF AddToCart, Add
  <1> QED
    BY <1>7, <1>8, <1>9

LEMMA RemoveFromCartKeeps ==
    ASSUME db \in Tables, now \in Nat, NEW c \in DOMAIN db.carts, RemoveFromCart(c)
    PROVE  \E e \in Tables : Kept(db, e) /\ Changing(e)
  <1>1. db.carts \in Seq(CartRow) /\ db.carts[c] \in CartRow
    BY TablesTyped, RowsHaveIds
  <1>2. PICK x : x = [db.carts[c] EXCEPT !.gone = TRUE]
    OBVIOUS
  <1>3. x \in CartRow
    BY <1>1, <1>2 DEF CartRow
  <1>4. PICK t : t = [db.carts EXCEPT ![c] = x]
    OBVIOUS
  <1>5. t \in Seq(CartRow)
    BY <1>1, <1>3, <1>4, Replaced
  <1>6. PICK e : e = [db EXCEPT !.carts = t]
    OBVIOUS
  <1>7. /\ e \in Tables /\ e.carts = t
        /\ e.items = db.items
        /\ e.sales = db.sales
        /\ e.lives = db.lives
        /\ e.accounts = db.accounts
        /\ e.payments = db.payments
        /\ e.stocks = db.stocks
    BY <1>5, <1>6 DEF Tables
  <1>8. Kept(db, e)
    BY <1>5, <1>7 DEF Kept
  <1>9. Changing(e)
    BY <1>2, <1>4, <1>6 DEF RemoveFromCart, Change
  <1> QED
    BY <1>7, <1>8, <1>9

LEMMA CreateVideoKeeps ==
    ASSUME db \in Tables, now \in Nat, NEW u \in Users, NEW t \in BOOLEAN, CreateVideo(u, t)
    PROVE  \E e \in Tables : Kept(db, e) /\ Changing(e)
  <1>1. PICK x1 : x1 = [owner |-> u, titled |-> t, deleted |-> FALSE]
    OBVIOUS
  <1>2. x1 \in VideoRow
    BY <1>1 DEF VideoRow
  <1>3. PICK t1 : t1 = Append(db.videos, x1)
    OBVIOUS
  <1>4. t1 \in Seq(VideoRow) /\ \A k \in DOMAIN db.videos : k \in DOMAIN t1 /\ t1[k] = db.videos[k]
    BY <1>2, <1>3, TablesTyped, Appended
  <1>5. PICK x2 : x2 = [user |-> u, type |-> "PROMPT", ref |-> 0, at |-> now]
    OBVIOUS
  <1>6. x2 \in UsageRow
    BY <1>5 DEF UsageRow
  <1>7. PICK t2 : t2 = Append(db.usages, x2)
    OBVIOUS
  <1>8. t2 \in Seq(UsageRow) /\ \A k \in DOMAIN db.usages : k \in DOMAIN t2 /\ t2[k] = db.usages[k]
    BY <1>6, <1>7, TablesTyped, Appended
  <1>9. PICK e : e = [db EXCEPT !.videos = t1, !.usages = t2]
    OBVIOUS
  <1>10. /\ e \in Tables /\ e.videos = t1 /\ e.usages = t2
        /\ e.items = db.items
        /\ e.sales = db.sales
        /\ e.lives = db.lives
        /\ e.accounts = db.accounts
        /\ e.payments = db.payments
        /\ e.stocks = db.stocks
    BY <1>4, <1>8, <1>9 DEF Tables
  <1>11. Kept(db, e)
    BY <1>4, <1>8, <1>10 DEF Kept
  <1>12. Changing(e)
    BY <1>1, <1>3, <1>5, <1>7, <1>9 DEF CreateVideo, Add, Usage
  <1> QED
    BY <1>10, <1>11, <1>12

LEMMA DeleteVideoKeeps ==
    ASSUME db \in Tables, now \in Nat, NEW v \in DOMAIN db.videos, DeleteVideo(v)
    PROVE  \E e \in Tables : Kept(db, e) /\ Changing(e)
  <1>1. db.videos \in Seq(VideoRow) /\ db.videos[v] \in VideoRow
    BY TablesTyped, RowsHaveIds
  <1>2. PICK x : x = [db.videos[v] EXCEPT !.deleted = TRUE]
    OBVIOUS
  <1>3. x \in VideoRow
    BY <1>1, <1>2 DEF VideoRow
  <1>4. PICK t : t = [db.videos EXCEPT ![v] = x]
    OBVIOUS
  <1>5. t \in Seq(VideoRow)
    BY <1>1, <1>3, <1>4, Replaced
  <1>6. PICK e : e = [db EXCEPT !.videos = t]
    OBVIOUS
  <1>7. /\ e \in Tables /\ e.videos = t
        /\ e.items = db.items
        /\ e.sales = db.sales
        /\ e.lives = db.lives
        /\ e.accounts = db.accounts
        /\ e.payments = db.payments
        /\ e.stocks = db.stocks
    BY <1>5, <1>6 DEF Tables
  <1>8. Kept(db, e)
    BY <1>5, <1>7 DEF Kept
  <1>9. Changing(e)
    BY <1>2, <1>4, <1>6 DEF DeleteVideo, Change
  <1> QED
    BY <1>7, <1>8, <1>9

LEMMA OpenStockKeeps ==
    ASSUME db \in Tables, now \in Nat, NEW u \in Users, NEW t \in BOOLEAN, NEW p \in 1 .. 2, OpenStock(u, t, p)
    PROVE  \E e \in Tables : Kept(db, e) /\ Changing(e)
  <1>1. PICK x1 : x1 = [owner |-> u, titled |-> t, show |-> TRUE, deleted |-> FALSE, at |-> now, price |-> p]
    OBVIOUS
  <1>2. x1 \in StockRow
    BY <1>1 DEF StockRow
  <1>3. PICK t1 : t1 = Append(db.stocks, x1)
    OBVIOUS
  <1>4. t1 \in Seq(StockRow) /\ \A k \in DOMAIN db.stocks : k \in DOMAIN t1 /\ t1[k] = db.stocks[k]
    BY <1>2, <1>3, TablesTyped, Appended
  <1>5. PICK x2 : x2 = [user |-> u, stock |-> Len(db.stocks) + 1, volume |-> 2, at |-> now, touched |-> now]
    OBVIOUS
  <1>6. Len(db.stocks) + 1 \in Nat
    BY TablesTyped, RowsHaveIds
  <1>7. x2 \in AccountRow
    BY <1>5, <1>6 DEF AccountRow
  <1>8. PICK t2 : t2 = Append(db.accounts, x2)
    OBVIOUS
  <1>9. t2 \in Seq(AccountRow) /\ \A k \in DOMAIN db.accounts : k \in DOMAIN t2 /\ t2[k] = db.accounts[k]
    BY <1>7, <1>8, TablesTyped, Appended
  <1>10. PICK x3 : x3 = [user |-> u, type |-> "SELL", stock |-> Len(db.stocks) + 1, volume |-> 1, open |-> TRUE, at |-> now]
    OBVIOUS
  <1>11. Len(db.stocks) + 1 \in Nat
    BY TablesTyped, RowsHaveIds
  <1>12. x3 \in OrderRow
    BY <1>10, <1>11 DEF OrderRow
  <1>13. PICK t3 : t3 = Append(db.lives, x3)
    OBVIOUS
  <1>14. t3 \in Seq(OrderRow) /\ \A k \in DOMAIN db.lives : k \in DOMAIN t3 /\ t3[k] = db.lives[k]
    BY <1>12, <1>13, TablesTyped, Appended
  <1>15. PICK e : e = [db EXCEPT !.stocks = t1, !.accounts = t2, !.lives = t3]
    OBVIOUS
  <1>16. /\ e \in Tables /\ e.stocks = t1 /\ e.accounts = t2 /\ e.lives = t3
        /\ e.items = db.items
        /\ e.sales = db.sales
        /\ e.payments = db.payments
    BY <1>4, <1>9, <1>14, <1>15 DEF Tables
  <1>17. Kept(db, e)
    BY <1>4, <1>9, <1>14, <1>16 DEF Kept
  <1>18. Changing(e)
    BY <1>1, <1>3, <1>5, <1>8, <1>10, <1>13, <1>15 DEF OpenStock, Add
  <1> QED
    BY <1>16, <1>17, <1>18

LEMMA ShowStockKeeps ==
    ASSUME db \in Tables, now \in Nat, NEW s \in DOMAIN db.stocks, ShowStock(s)
    PROVE  \E e \in Tables : Kept(db, e) /\ Changing(e)
  <1>1. db.stocks \in Seq(StockRow) /\ db.stocks[s] \in StockRow
    BY TablesTyped, RowsHaveIds
  <1>2. PICK x : x = [db.stocks[s] EXCEPT !.show = ~@]
    OBVIOUS
  <1>3. x \in StockRow /\ x.price = db.stocks[s].price
    BY <1>1, <1>2 DEF StockRow
  <1>4. PICK t : t = [db.stocks EXCEPT ![s] = x]
    OBVIOUS
  <1>5. t \in Seq(StockRow) /\ \A k \in DOMAIN db.stocks : k \in DOMAIN t /\ t[k].price = db.stocks[k].price
    BY <1>1, <1>3, <1>4, Replaced
  <1>6. PICK e : e = [db EXCEPT !.stocks = t]
    OBVIOUS
  <1>7. /\ e \in Tables /\ e.stocks = t
        /\ e.items = db.items
        /\ e.sales = db.sales
        /\ e.lives = db.lives
        /\ e.accounts = db.accounts
        /\ e.payments = db.payments
    BY <1>5, <1>6 DEF Tables
  <1>8. Kept(db, e)
    BY <1>5, <1>7 DEF Kept
  <1>9. Changing(e)
    BY <1>2, <1>4, <1>6 DEF ShowStock, Change
  <1> QED
    BY <1>7, <1>8, <1>9

LEMMA AdminDeleteStockKeeps ==
    ASSUME db \in Tables, now \in Nat, NEW s \in DOMAIN db.stocks, AdminDeleteStock(s)
    PROVE  \E e \in Tables : Kept(db, e) /\ Changing(e)
  <1>1. db.stocks \in Seq(StockRow) /\ db.stocks[s] \in StockRow
    BY TablesTyped, RowsHaveIds
  <1>2. PICK x : x = [db.stocks[s] EXCEPT !.deleted = ~@]
    OBVIOUS
  <1>3. x \in StockRow /\ x.price = db.stocks[s].price
    BY <1>1, <1>2 DEF StockRow
  <1>4. PICK t : t = [db.stocks EXCEPT ![s] = x]
    OBVIOUS
  <1>5. t \in Seq(StockRow) /\ \A k \in DOMAIN db.stocks : k \in DOMAIN t /\ t[k].price = db.stocks[k].price
    BY <1>1, <1>3, <1>4, Replaced
  <1>6. PICK e : e = [db EXCEPT !.stocks = t]
    OBVIOUS
  <1>7. /\ e \in Tables /\ e.stocks = t
        /\ e.items = db.items
        /\ e.sales = db.sales
        /\ e.lives = db.lives
        /\ e.accounts = db.accounts
        /\ e.payments = db.payments
    BY <1>5, <1>6 DEF Tables
  <1>8. Kept(db, e)
    BY <1>5, <1>7 DEF Kept
  <1>9. Changing(e)
    BY <1>2, <1>4, <1>6 DEF AdminDeleteStock, Change
  <1> QED
    BY <1>7, <1>8, <1>9

LEMMA BuyKeeps ==
    ASSUME db \in Tables, now \in Nat, NEW u \in Users, NEW s \in DOMAIN db.stocks, Buy(u, s)
    PROVE  \E e \in Tables : Kept(db, e) /\ Changing(e)
  <1>1. PICK x : x = [user |-> u, type |-> "BUY", stock |-> s, volume |-> 1, open |-> TRUE, at |-> now]
    OBVIOUS
  <1>2. s \in Nat
    BY TablesTyped, RowsHaveIds
  <1>3. x \in OrderRow
    BY <1>1, <1>2 DEF OrderRow
  <1>4. PICK t : t = Append(db.lives, x)
    OBVIOUS
  <1>5. t \in Seq(OrderRow) /\ \A k \in DOMAIN db.lives : k \in DOMAIN t /\ t[k] = db.lives[k]
    BY <1>3, <1>4, TablesTyped, Appended
  <1>6. PICK e : e = [db EXCEPT !.lives = t]
    OBVIOUS
  <1>7. /\ e \in Tables /\ e.lives = t
        /\ e.items = db.items
        /\ e.sales = db.sales
        /\ e.accounts = db.accounts
        /\ e.payments = db.payments
        /\ e.stocks = db.stocks
    BY <1>5, <1>6 DEF Tables
  <1>8. Kept(db, e)
    BY <1>5, <1>7 DEF Kept
  <1>9. Changing(e)
    BY <1>1, <1>4, <1>6 DEF Buy, Add
  <1> QED
    BY <1>7, <1>8, <1>9

LEMMA CancelOrderKeeps ==
    ASSUME db \in Tables, now \in Nat, NEW o \in DOMAIN db.lives, CancelOrder(o)
    PROVE  \E e \in Tables : Kept(db, e) /\ Changing(e)
  <1>1. db.lives \in Seq(OrderRow) /\ db.lives[o] \in OrderRow
    BY TablesTyped, RowsHaveIds
  <1>2. PICK x : x = [db.lives[o] EXCEPT !.open = FALSE]
    OBVIOUS
  <1>3. x \in OrderRow /\ x.at = db.lives[o].at
    BY <1>1, <1>2 DEF OrderRow
  <1>4. PICK t : t = [db.lives EXCEPT ![o] = x]
    OBVIOUS
  <1>5. t \in Seq(OrderRow) /\ \A k \in DOMAIN db.lives : k \in DOMAIN t /\ t[k].at = db.lives[k].at
    BY <1>1, <1>3, <1>4, Replaced
  <1>6. PICK e : e = [db EXCEPT !.lives = t]
    OBVIOUS
  <1>7. /\ e \in Tables /\ e.lives = t
        /\ e.items = db.items
        /\ e.sales = db.sales
        /\ e.accounts = db.accounts
        /\ e.payments = db.payments
        /\ e.stocks = db.stocks
    BY <1>5, <1>6 DEF Tables
  <1>8. Kept(db, e)
    BY <1>5, <1>7 DEF Kept
  <1>9. Changing(e)
    BY <1>2, <1>4, <1>6 DEF CancelOrder, Change
  <1> QED
    BY <1>7, <1>8, <1>9

LEMMA PrepareKeeps ==
    ASSUME db \in Tables, now \in Nat, NEW u \in Users, Prepare(u)
    PROVE  \E e \in Tables : Kept(db, e) /\ Changing(e)
  <1>1. PICK x : x = [user |-> u, status |-> "PENDING", at |-> now]
    OBVIOUS
  <1>2. x \in PaymentRow
    BY <1>1 DEF PaymentRow
  <1>3. PICK t : t = Append(db.payments, x)
    OBVIOUS
  <1>4. t \in Seq(PaymentRow) /\ \A k \in DOMAIN db.payments : k \in DOMAIN t /\ t[k] = db.payments[k]
    BY <1>2, <1>3, TablesTyped, Appended
  <1>5. PICK e : e = [db EXCEPT !.payments = t]
    OBVIOUS
  <1>6. /\ e \in Tables /\ e.payments = t
        /\ e.items = db.items
        /\ e.sales = db.sales
        /\ e.lives = db.lives
        /\ e.accounts = db.accounts
        /\ e.stocks = db.stocks
    BY <1>4, <1>5 DEF Tables
  <1>7. Kept(db, e)
    BY <1>4, <1>6 DEF Kept
  <1>8. Changing(e)
    BY <1>1, <1>3, <1>5 DEF Prepare, Add
  <1> QED
    BY <1>6, <1>7, <1>8

LEMMA PayKeeps ==
    ASSUME db \in Tables, now \in Nat, NEW p \in DOMAIN db.payments, Pay(p)
    PROVE  \E e \in Tables : Kept(db, e) /\ Changing(e)
  <1>1. db.payments \in Seq(PaymentRow) /\ db.payments[p] \in PaymentRow
    BY TablesTyped, RowsHaveIds
  <1>2. PICK x : x = [db.payments[p] EXCEPT !.status = "PAID"]
    OBVIOUS
  <1>3. x \in PaymentRow /\ x.at = db.payments[p].at
    BY <1>1, <1>2 DEF PaymentRow
  <1>4. PICK t : t = [db.payments EXCEPT ![p] = x]
    OBVIOUS
  <1>5. t \in Seq(PaymentRow) /\ \A k \in DOMAIN db.payments : k \in DOMAIN t /\ t[k].at = db.payments[k].at
    BY <1>1, <1>3, <1>4, Replaced
  <1>6. PICK e : e = [db EXCEPT !.payments = t]
    OBVIOUS
  <1>7. /\ e \in Tables /\ e.payments = t
        /\ e.items = db.items
        /\ e.sales = db.sales
        /\ e.lives = db.lives
        /\ e.accounts = db.accounts
        /\ e.stocks = db.stocks
    BY <1>5, <1>6 DEF Tables
  <1>8. Kept(db, e)
    BY <1>5, <1>7 DEF Kept
  <1>9. Changing(e)
    BY <1>2, <1>4, <1>6 DEF Pay, Change
  <1> QED
    BY <1>7, <1>8, <1>9

LEMMA RequestOutflowKeeps ==
    ASSUME db \in Tables, now \in Nat, NEW u \in Users, NEW y \in {"REFUND", "SETTLEMENT"}, RequestOutflow(u, y)
    PROVE  \E e \in Tables : Kept(db, e) /\ Changing(e)
  <1>1. PICK x : x = [user |-> u, type |-> y, status |-> "PENDING", at |-> now]
    OBVIOUS
  <1>2. x \in OutflowRow
    BY <1>1 DEF OutflowRow
  <1>3. PICK t : t = Append(db.outflows, x)
    OBVIOUS
  <1>4. t \in Seq(OutflowRow) /\ \A k \in DOMAIN db.outflows : k \in DOMAIN t /\ t[k] = db.outflows[k]
    BY <1>2, <1>3, TablesTyped, Appended
  <1>5. PICK e : e = [db EXCEPT !.outflows = t]
    OBVIOUS
  <1>6. /\ e \in Tables /\ e.outflows = t
        /\ e.items = db.items
        /\ e.sales = db.sales
        /\ e.lives = db.lives
        /\ e.accounts = db.accounts
        /\ e.payments = db.payments
        /\ e.stocks = db.stocks
    BY <1>4, <1>5 DEF Tables
  <1>7. Kept(db, e)
    BY <1>4, <1>6 DEF Kept
  <1>8. Changing(e)
    BY <1>1, <1>3, <1>5 DEF RequestOutflow, Add
  <1> QED
    BY <1>6, <1>7, <1>8

LEMMA ConfirmOutflowKeeps ==
    ASSUME db \in Tables, now \in Nat, NEW o \in DOMAIN db.outflows, ConfirmOutflow(o)
    PROVE  \E e \in Tables : Kept(db, e) /\ Changing(e)
  <1>1. db.outflows \in Seq(OutflowRow) /\ db.outflows[o] \in OutflowRow
    BY TablesTyped, RowsHaveIds
  <1>2. PICK x1 : x1 = [db.outflows[o] EXCEPT !.status = "CONFIRMED"]
    OBVIOUS
  <1>3. x1 \in OutflowRow
    BY <1>1, <1>2 DEF OutflowRow
  <1>4. PICK t1 : t1 = [db.outflows EXCEPT ![o] = x1]
    OBVIOUS
  <1>5. t1 \in Seq(OutflowRow)
    BY <1>1, <1>3, <1>4, Replaced
  <1>6. PICK x2 : x2 = [user |-> db.outflows[o].user, status |-> "OUTFLOW", at |-> now]
    OBVIOUS
  <1>7. db.outflows[o].user \in Users
    <2>1. db.outflows[o] \in OutflowRow
      BY TablesTyped, RowsHaveIds
    <2> QED
      BY <2>1 DEF OutflowRow
  <1>8. x2 \in PaymentRow
    BY <1>6, <1>7 DEF PaymentRow
  <1>9. PICK t2 : t2 = Append(db.payments, x2)
    OBVIOUS
  <1>10. t2 \in Seq(PaymentRow) /\ \A k \in DOMAIN db.payments : k \in DOMAIN t2 /\ t2[k] = db.payments[k]
    BY <1>8, <1>9, TablesTyped, Appended
  <1>11. PICK e : e = [db EXCEPT !.outflows = t1, !.payments = t2]
    OBVIOUS
  <1>12. /\ e \in Tables /\ e.outflows = t1 /\ e.payments = t2
        /\ e.items = db.items
        /\ e.sales = db.sales
        /\ e.lives = db.lives
        /\ e.accounts = db.accounts
        /\ e.stocks = db.stocks
    BY <1>5, <1>10, <1>11 DEF Tables
  <1>13. Kept(db, e)
    BY <1>5, <1>10, <1>12 DEF Kept
  <1>14. Changing(e)
    BY <1>2, <1>4, <1>6, <1>9, <1>11 DEF ConfirmOutflow, Add
  <1> QED
    BY <1>12, <1>13, <1>14

LEMMA CancelOutflowKeeps ==
    ASSUME db \in Tables, now \in Nat, NEW o \in DOMAIN db.outflows, CancelOutflow(o)
    PROVE  \E e \in Tables : Kept(db, e) /\ Changing(e)
  <1>1. db.outflows \in Seq(OutflowRow) /\ db.outflows[o] \in OutflowRow
    BY TablesTyped, RowsHaveIds
  <1>2. PICK x : x = [db.outflows[o] EXCEPT !.status = "CANCELED"]
    OBVIOUS
  <1>3. x \in OutflowRow
    BY <1>1, <1>2 DEF OutflowRow
  <1>4. PICK t : t = [db.outflows EXCEPT ![o] = x]
    OBVIOUS
  <1>5. t \in Seq(OutflowRow)
    BY <1>1, <1>3, <1>4, Replaced
  <1>6. PICK e : e = [db EXCEPT !.outflows = t]
    OBVIOUS
  <1>7. /\ e \in Tables /\ e.outflows = t
        /\ e.items = db.items
        /\ e.sales = db.sales
        /\ e.lives = db.lives
        /\ e.accounts = db.accounts
        /\ e.payments = db.payments
        /\ e.stocks = db.stocks
    BY <1>5, <1>6 DEF Tables
  <1>8. Kept(db, e)
    BY <1>5, <1>7 DEF Kept
  <1>9. Changing(e)
    BY <1>2, <1>4, <1>6 DEF CancelOutflow, Change
  <1> QED
    BY <1>7, <1>8, <1>9

LEMMA SignUpKeeps ==
    ASSUME db \in Tables, now \in Nat, NEW y \in BOOLEAN, SignUp(y)
    PROVE  \E e \in Tables : Kept(db, e) /\ Changing(e)
  <1>1. PICK x : x = [titled |-> y]
    OBVIOUS
  <1>2. x \in PersonRow
    BY <1>1 DEF PersonRow
  <1>3. PICK t : t = Append(db.people, x)
    OBVIOUS
  <1>4. t \in Seq(PersonRow) /\ \A k \in DOMAIN db.people : k \in DOMAIN t /\ t[k] = db.people[k]
    BY <1>2, <1>3, TablesTyped, Appended
  <1>5. PICK e : e = [db EXCEPT !.people = t]
    OBVIOUS
  <1>6. /\ e \in Tables /\ e.people = t
        /\ e.items = db.items
        /\ e.sales = db.sales
        /\ e.lives = db.lives
        /\ e.accounts = db.accounts
        /\ e.payments = db.payments
        /\ e.stocks = db.stocks
    BY <1>4, <1>5 DEF Tables
  <1>7. Kept(db, e)
    BY <1>4, <1>6 DEF Kept
  <1>8. Changing(e)
    BY <1>1, <1>3, <1>5 DEF SignUp, Add
  <1> QED
    BY <1>6, <1>7, <1>8

LEMMA AskKeeps ==
    ASSUME db \in Tables, now \in Nat, NEW u \in Users, NEW y \in {"customer", "business"}, Ask(u, y)
    PROVE  \E e \in Tables : Kept(db, e) /\ Changing(e)
  <1>1. PICK x : x = [user |-> u, kind |-> y, status |-> "PENDING", at |-> now]
    OBVIOUS
  <1>2. x \in QuestionRow
    BY <1>1 DEF QuestionRow
  <1>3. PICK t : t = Append(db.asks, x)
    OBVIOUS
  <1>4. t \in Seq(QuestionRow) /\ \A k \in DOMAIN db.asks : k \in DOMAIN t /\ t[k] = db.asks[k]
    BY <1>2, <1>3, TablesTyped, Appended
  <1>5. PICK e : e = [db EXCEPT !.asks = t]
    OBVIOUS
  <1>6. /\ e \in Tables /\ e.asks = t
        /\ e.items = db.items
        /\ e.sales = db.sales
        /\ e.lives = db.lives
        /\ e.accounts = db.accounts
        /\ e.payments = db.payments
        /\ e.stocks = db.stocks
    BY <1>4, <1>5 DEF Tables
  <1>7. Kept(db, e)
    BY <1>4, <1>6 DEF Kept
  <1>8. Changing(e)
    BY <1>1, <1>3, <1>5 DEF Ask, Add
  <1> QED
    BY <1>6, <1>7, <1>8

LEMMA AnswerQuestionKeeps ==
    ASSUME db \in Tables, now \in Nat, NEW a \in DOMAIN db.asks, AnswerQuestion(a)
    PROVE  \E e \in Tables : Kept(db, e) /\ Changing(e)
  <1>1. db.asks \in Seq(QuestionRow) /\ db.asks[a] \in QuestionRow
    BY TablesTyped, RowsHaveIds
  <1>2. PICK x : x = [db.asks[a] EXCEPT !.status = "CONFIRMED"]
    OBVIOUS
  <1>3. x \in QuestionRow
    BY <1>1, <1>2 DEF QuestionRow
  <1>4. PICK t : t = [db.asks EXCEPT ![a] = x]
    OBVIOUS
  <1>5. t \in Seq(QuestionRow)
    BY <1>1, <1>3, <1>4, Replaced
  <1>6. PICK e : e = [db EXCEPT !.asks = t]
    OBVIOUS
  <1>7. /\ e \in Tables /\ e.asks = t
        /\ e.items = db.items
        /\ e.sales = db.sales
        /\ e.lives = db.lives
        /\ e.accounts = db.accounts
        /\ e.payments = db.payments
        /\ e.stocks = db.stocks
    BY <1>5, <1>6 DEF Tables
  <1>8. Kept(db, e)
    BY <1>5, <1>7 DEF Kept
  <1>9. Changing(e)
    BY <1>2, <1>4, <1>6 DEF AnswerQuestion, Change
  <1> QED
    BY <1>7, <1>8, <1>9

LEMMA CreateFaqKeeps ==
    ASSUME db \in Tables, now \in Nat, CreateFaq
    PROVE  \E e \in Tables : Kept(db, e) /\ Changing(e)
  <1>1. PICK x : x = [gone |-> FALSE]
    OBVIOUS
  <1>2. x \in FaqRow
    BY <1>1 DEF FaqRow
  <1>3. PICK t : t = Append(db.faqs, x)
    OBVIOUS
  <1>4. t \in Seq(FaqRow) /\ \A k \in DOMAIN db.faqs : k \in DOMAIN t /\ t[k] = db.faqs[k]
    BY <1>2, <1>3, TablesTyped, Appended
  <1>5. PICK e : e = [db EXCEPT !.faqs = t]
    OBVIOUS
  <1>6. /\ e \in Tables /\ e.faqs = t
        /\ e.items = db.items
        /\ e.sales = db.sales
        /\ e.lives = db.lives
        /\ e.accounts = db.accounts
        /\ e.payments = db.payments
        /\ e.stocks = db.stocks
    BY <1>4, <1>5 DEF Tables
  <1>7. Kept(db, e)
    BY <1>4, <1>6 DEF Kept
  <1>8. Changing(e)
    BY <1>1, <1>3, <1>5 DEF CreateFaq, Add
  <1> QED
    BY <1>6, <1>7, <1>8

LEMMA DeleteFaqKeeps ==
    ASSUME db \in Tables, now \in Nat, NEW f \in DOMAIN db.faqs, DeleteFaq(f)
    PROVE  \E e \in Tables : Kept(db, e) /\ Changing(e)
  <1>1. db.faqs \in Seq(FaqRow) /\ db.faqs[f] \in FaqRow
    BY TablesTyped, RowsHaveIds
  <1>2. PICK x : x = [db.faqs[f] EXCEPT !.gone = TRUE]
    OBVIOUS
  <1>3. x \in FaqRow
    BY <1>1, <1>2 DEF FaqRow
  <1>4. PICK t : t = [db.faqs EXCEPT ![f] = x]
    OBVIOUS
  <1>5. t \in Seq(FaqRow)
    BY <1>1, <1>3, <1>4, Replaced
  <1>6. PICK e : e = [db EXCEPT !.faqs = t]
    OBVIOUS
  <1>7. /\ e \in Tables /\ e.faqs = t
        /\ e.items = db.items
        /\ e.sales = db.sales
        /\ e.lives = db.lives
        /\ e.accounts = db.accounts
        /\ e.payments = db.payments
        /\ e.stocks = db.stocks
    BY <1>5, <1>6 DEF Tables
  <1>8. Kept(db, e)
    BY <1>5, <1>7 DEF Kept
  <1>9. Changing(e)
    BY <1>2, <1>4, <1>6 DEF DeleteFaq, Change
  <1> QED
    BY <1>7, <1>8, <1>9

LEMMA CreateMemoKeeps ==
    ASSUME db \in Tables, now \in Nat, NEW u \in Users, CreateMemo(u)
    PROVE  \E e \in Tables : Kept(db, e) /\ Changing(e)
  <1>1. PICK x : x = [user |-> u]
    OBVIOUS
  <1>2. x \in MemoRow
    BY <1>1 DEF MemoRow
  <1>3. PICK t : t = Append(db.memos, x)
    OBVIOUS
  <1>4. t \in Seq(MemoRow) /\ \A k \in DOMAIN db.memos : k \in DOMAIN t /\ t[k] = db.memos[k]
    BY <1>2, <1>3, TablesTyped, Appended
  <1>5. PICK e : e = [db EXCEPT !.memos = t]
    OBVIOUS
  <1>6. /\ e \in Tables /\ e.memos = t
        /\ e.items = db.items
        /\ e.sales = db.sales
        /\ e.lives = db.lives
        /\ e.accounts = db.accounts
        /\ e.payments = db.payments
        /\ e.stocks = db.stocks
    BY <1>4, <1>5 DEF Tables
  <1>7. Kept(db, e)
    BY <1>4, <1>6 DEF Kept
  <1>8. Changing(e)
    BY <1>1, <1>3, <1>5 DEF CreateMemo, Add
  <1> QED
    BY <1>6, <1>7, <1>8

LEMMA CloseStockKeeps ==
    ASSUME db \in Tables, now \in Nat, NEW s \in DOMAIN db.stocks, CloseStock(s)
    PROVE  \E e \in Tables : Kept(db, e) /\ Changing(e)
  <1>1. db.stocks \in Seq(StockRow) /\ db.stocks[s] \in StockRow
    BY TablesTyped, RowsHaveIds
  <1>2. PICK x : x = [[db.stocks[s] EXCEPT !.deleted = TRUE] EXCEPT !.show = FALSE]
    OBVIOUS
  <1>3. x \in StockRow /\ x.price = db.stocks[s].price
    BY <1>1, <1>2 DEF StockRow
  <1>4. PICK t1 : t1 = [db.stocks EXCEPT ![s] = x]
    OBVIOUS
  <1>5. t1 \in Seq(StockRow) /\ \A k \in DOMAIN db.stocks : k \in DOMAIN t1 /\ t1[k].price = db.stocks[k].price
    BY <1>1, <1>3, <1>4, Replaced
  <1>6. PICK t2 : t2 = [o \in DOMAIN db.lives |->
                IF db.lives[o].stock = s THEN [db.lives[o] EXCEPT !.open = FALSE] ELSE db.lives[o]]
    OBVIOUS
  <1>7. ASSUME NEW o \in DOMAIN db.lives
        PROVE  t2[o] \in OrderRow /\ t2[o].at = db.lives[o].at
    <2>1. db.lives[o] \in OrderRow
      BY TablesTyped, RowsHaveIds
    <2>2. PICK y : y = [db.lives[o] EXCEPT !.open = FALSE]
      OBVIOUS
    <2>3. y \in OrderRow /\ y.at = db.lives[o].at
      BY <2>1, <2>2 DEF OrderRow
    <2>4. t2[o] = y \/ t2[o] = db.lives[o]
      BY <1>6, <2>2
    <2> QED
      BY <2>1, <2>3, <2>4
  <1>8. t2 \in Seq(OrderRow) /\ DOMAIN t2 = DOMAIN db.lives
    <2>1. DOMAIN t2 = DOMAIN db.lives /\ t2 = [i \in DOMAIN t2 |-> t2[i]]
      BY <1>6
    <2>2. db.lives \in Seq(OrderRow)
      BY TablesTyped
    <2> QED
      BY <1>7, <2>1, <2>2, Mapped
  <1>9. PICK e : e = [db EXCEPT !.stocks = t1, !.lives = t2]
    OBVIOUS
  <1>10. /\ e \in Tables /\ e.stocks = t1 /\ e.lives = t2
        /\ e.items = db.items
        /\ e.sales = db.sales
        /\ e.accounts = db.accounts
        /\ e.payments = db.payments
    BY <1>5, <1>8, <1>9 DEF Tables
  <1>11. Kept(db, e)
    BY <1>5, <1>7, <1>8, <1>10 DEF Kept
  <1>12. Changing(e)
    <2>1. Changing([db EXCEPT
            !.stocks[s].deleted = TRUE, !.stocks[s].show = FALSE,
            !.lives = [o \in DOMAIN @ |->
                IF @[o].stock = s THEN [@[o] EXCEPT !.open = FALSE] ELSE @[o]]])
      BY DEF CloseStock, Change
    <2>2. e = [db EXCEPT
            !.stocks[s].deleted = TRUE, !.stocks[s].show = FALSE,
            !.lives = [o \in DOMAIN @ |->
                IF @[o].stock = s THEN [@[o] EXCEPT !.open = FALSE] ELSE @[o]]]
      BY <1>1, <1>2, <1>4, <1>6, <1>9
    <2> QED
      BY <2>1, <2>2
  <1> QED
    BY <1>10, <1>11, <1>12

LEMMA MatchKeeps ==
    ASSUME db \in Tables, now \in Nat, NEW b \in DOMAIN db.lives, NEW s \in DOMAIN db.lives,
           Match(b, s)
    PROVE  \E e \in Tables : Kept(db, e) /\ Changing(e)
  <1>1. PICK buy : buy = db.lives[b]
    OBVIOUS
  <1>2. PICK sell : sell = db.lives[s]
    OBVIOUS
  <1>3. db.lives \in Seq(OrderRow) /\ buy \in OrderRow /\ sell \in OrderRow
    BY <1>1, <1>2, TablesTyped, RowsHaveIds
  <1>4. b # s
    BY DEF Match
  <1>5. PICK x : x = [buy EXCEPT !.volume = 0, !.open = FALSE]
    OBVIOUS
  <1>6. PICK y : y = [sell EXCEPT !.volume = 0, !.open = FALSE]
    OBVIOUS
  <1>7. x \in OrderRow /\ x.at = buy.at /\ y \in OrderRow /\ y.at = sell.at
    BY <1>3, <1>5, <1>6 DEF OrderRow
  <1>8. PICK t0 : t0 = [db.lives EXCEPT ![b] = x]
    OBVIOUS
  <1>9. /\ t0 \in Seq(OrderRow) /\ DOMAIN t0 = DOMAIN db.lives /\ t0[s] = sell
        /\ \A k \in DOMAIN db.lives : t0[k].at = db.lives[k].at
    BY <1>1, <1>2, <1>3, <1>4, <1>7, <1>8, Replaced
  <1>10. PICK t1 : t1 = [t0 EXCEPT ![s] = y]
    OBVIOUS
  <1>11. t1 \in Seq(OrderRow) /\ \A k \in DOMAIN db.lives : k \in DOMAIN t1 /\ t1[k].at = db.lives[k].at
    BY <1>7, <1>9, <1>10, Replaced
  <1>12. PICK give : give = [a \in DOMAIN db.accounts |->
            IF db.accounts[a].stock # buy.stock THEN db.accounts[a]
            ELSE CASE db.accounts[a].user = sell.user ->
                        [db.accounts[a] EXCEPT !.volume = @ - 1, !.touched = now]
                   [] db.accounts[a].user = buy.user ->
                        [db.accounts[a] EXCEPT !.volume = @ + 1, !.touched = now]
                   [] OTHER -> db.accounts[a]]
    OBVIOUS
  <1>13. buy.user # sell.user
    BY <1>1, <1>2 DEF Match
  <1>14. ASSUME NEW a \in DOMAIN db.accounts
         PROVE  give[a] \in AccountRow /\ give[a].at = db.accounts[a].at
    <2>1. db.accounts[a] \in AccountRow
      BY TablesTyped, RowsHaveIds
    <2>2. PICK f : f = [db.accounts[a] EXCEPT !.volume = @ - 1, !.touched = now]
      OBVIOUS
    <2>3. PICK g : g = [db.accounts[a] EXCEPT !.volume = @ + 1, !.touched = now]
      OBVIOUS
    <2>4. /\ f \in AccountRow /\ f.at = db.accounts[a].at
          /\ g \in AccountRow /\ g.at = db.accounts[a].at
      <3>1. PICK row \in AccountRow : row = db.accounts[a]
        BY <2>1
      <3>2. row.volume - 1 \in Int /\ row.volume + 1 \in Int
        BY DEF AccountRow
      <3>3. f \in AccountRow /\ f.at = row.at
        BY <2>2, <3>1, <3>2 DEF AccountRow
      <3>4. g \in AccountRow /\ g.at = row.at
        BY <2>3, <3>1, <3>2 DEF AccountRow
      <3> QED
        BY <3>1, <3>3, <3>4
    <2>5. give[a] = db.accounts[a] \/ give[a] = f \/ give[a] = g
      BY <1>12, <1>13, <2>2, <2>3
    <2> QED
      BY <2>1, <2>4, <2>5
  <1>15. give \in Seq(AccountRow) /\ DOMAIN give = DOMAIN db.accounts
    <2>1. DOMAIN give = DOMAIN db.accounts /\ give = [i \in DOMAIN give |-> give[i]]
      <3> DEFINE Row(a) ==
            IF db.accounts[a].stock # buy.stock THEN db.accounts[a]
            ELSE CASE db.accounts[a].user = sell.user ->
                        [db.accounts[a] EXCEPT !.volume = @ - 1, !.touched = now]
                   [] db.accounts[a].user = buy.user ->
                        [db.accounts[a] EXCEPT !.volume = @ + 1, !.touched = now]
                   [] OTHER -> db.accounts[a]
      <3>1. give = [a \in DOMAIN db.accounts |-> Row(a)]
        BY <1>12
      <3> HIDE DEF Row
      <3> QED
        BY <3>1
    <2>2. db.accounts \in Seq(AccountRow)
      BY TablesTyped
    <2> QED
      BY <1>14, <2>1, <2>2, Mapped
  <1>16. PICK z : z = [user |-> buy.user, stock |-> buy.stock, volume |-> 1, at |-> now, touched |-> now]
    OBVIOUS
  <1>17. z \in AccountRow
    BY <1>3, <1>16 DEF OrderRow, AccountRow
  <1>18. PICK t2 : t2 = IF \E a \in DOMAIN give : give[a].user = buy.user /\ give[a].stock = buy.stock
                        THEN give ELSE Append(give, z)
    OBVIOUS
  <1>19. t2 \in Seq(AccountRow) /\ \A k \in DOMAIN db.accounts : k \in DOMAIN t2 /\ t2[k].at = db.accounts[k].at
    <2>1. PICK t3 : t3 = Append(give, z)
      OBVIOUS
    <2>2. t3 \in Seq(AccountRow) /\ \A k \in DOMAIN give : k \in DOMAIN t3 /\ t3[k] = give[k]
      BY <1>15, <1>17, <2>1, Appended
    <2>3. t2 = give \/ t2 = t3
      BY <1>18, <2>1
    <2> QED
      BY <1>14, <1>15, <2>2, <2>3
  <1>20. PICK m : m = [seller |-> sell.user, buyer |-> buy.user, stock |-> buy.stock, at |-> now]
    OBVIOUS
  <1>21. m \in MatchRow
    BY <1>3, <1>20 DEF OrderRow, MatchRow
  <1>22. PICK t4 : t4 = Append(db.matches, m)
    OBVIOUS
  <1>23. t4 \in Seq(MatchRow)
    BY <1>21, <1>22, TablesTyped, Appended
  <1>24. PICK u : u = Usage(buy.user, "STOCK_MATCH_BUY", buy.stock)
    OBVIOUS
  <1>25. u \in UsageRow
    BY <1>3, <1>24 DEF OrderRow, UsageRow, Usage
  <1>26. PICK t5 : t5 = Append(db.usages, u)
    OBVIOUS
  <1>27. t5 \in Seq(UsageRow)
    BY <1>25, <1>26, TablesTyped, Appended
  <1>28. PICK e : e = [db EXCEPT !.lives = t1, !.accounts = t2, !.matches = t4, !.usages = t5]
    OBVIOUS
  <1>29. /\ e \in Tables /\ e.lives = t1 /\ e.accounts = t2
        /\ e.items = db.items
        /\ e.sales = db.sales
        /\ e.stocks = db.stocks
        /\ e.payments = db.payments
    BY <1>11, <1>19, <1>23, <1>27, <1>28 DEF Tables
  <1>30. Kept(db, e)
    BY <1>11, <1>19, <1>29 DEF Kept
  <1>31. Changing(e)
    <2> DEFINE New == [db EXCEPT
                        !.lives[b] = Filled(db.lives[b]), !.lives[s] = Filled(db.lives[s]),
                        !.accounts = Transferred(db.lives[b], db.lives[s]),
                        !.matches = Append(@, [seller |-> db.lives[s].user,
                                               buyer |-> db.lives[b].user,
                                               stock |-> db.lives[b].stock, at |-> now]),
                        !.usages = Append(@, Usage(db.lives[b].user, "STOCK_MATCH_BUY",
                                                   db.lives[b].stock))]
    <2>1. Changing(New)
      BY DEF Match, Add
    <2>2. Transferred(buy, sell) = t2
      BY <1>12, <1>16, <1>18 DEF Transferred
    <2>3. New = e
      BY <1>1, <1>2, <1>5, <1>6, <1>8, <1>10, <1>20, <1>22, <1>24, <1>26, <1>28, <2>2 DEF Filled
    <2> HIDE DEF New
    <2> QED
      BY <2>1, <2>3
  <1> QED
    BY <1>29, <1>30, <1>31

\* So does each step that is not one of the client.
LEMMA ChangesKeep ==
    ASSUME db \in Tables, now \in Nat, Sell \/ Trade \/ Money \/ Desk
    PROVE  \E e \in Tables : Kept(db, e) /\ Changing(e)
  <1>1. CASE Sell
    <2>1. CASE \E u \in Users, t \in BOOLEAN : CreateMarketItem(u, t) \/ CreateVideo(u, t)
      BY <2>1, CreateMarketItemKeeps, CreateVideoKeeps
    <2>2. CASE \E i \in DOMAIN db.items :
                  \/ ShowMarketItem(i) \/ DeleteMarketItem(i) \/ AdminDelete(i) \/ AddToCart(i)
                  \/ \E u \in Users : Purchase(u, i)
      BY <2>2, ShowMarketItemKeeps, DeleteMarketItemKeeps, AdminDeleteKeeps, AddToCartKeeps,
         PurchaseKeeps
    <2>3. CASE \E s \in DOMAIN db.sales : ExpireDownload(s)
      BY <2>3, ExpireDownloadKeeps
    <2>4. CASE \E c \in DOMAIN db.carts : RemoveFromCart(c)
      BY <2>4, RemoveFromCartKeeps
    <2>5. CASE \E v \in DOMAIN db.videos : DeleteVideo(v)
      BY <2>5, DeleteVideoKeeps
    <2> QED
      BY <1>1, <2>1, <2>2, <2>3, <2>4, <2>5 DEF Sell
  <1>2. CASE Trade
    <2>1. CASE \E u \in Users, t \in BOOLEAN, p \in 1..2 : OpenStock(u, t, p)
      BY <2>1, OpenStockKeeps
    <2>2. CASE \E s \in DOMAIN db.stocks :
                  \/ ShowStock(s) \/ CloseStock(s) \/ AdminDeleteStock(s)
                  \/ \E u \in Users : Buy(u, s)
      BY <2>2, ShowStockKeeps, CloseStockKeeps, AdminDeleteStockKeeps, BuyKeeps
    <2>3. CASE \E o \in DOMAIN db.lives :
                  \/ CancelOrder(o)
                  \/ \E s \in DOMAIN db.lives : Match(o, s)
      BY <2>3, CancelOrderKeeps, MatchKeeps
    <2> QED
      BY <1>2, <2>1, <2>2, <2>3 DEF Trade
  <1>3. CASE Money
    <2>1. CASE \E u \in Users :
                  Prepare(u) \/ \E t \in {"REFUND", "SETTLEMENT"} : RequestOutflow(u, t)
      BY <2>1, PrepareKeeps, RequestOutflowKeeps
    <2>2. CASE \E p \in DOMAIN db.payments : Pay(p)
      BY <2>2, PayKeeps
    <2>3. CASE \E o \in DOMAIN db.outflows : ConfirmOutflow(o) \/ CancelOutflow(o)
      BY <2>3, ConfirmOutflowKeeps, CancelOutflowKeeps
    <2> QED
      BY <1>3, <2>1, <2>2, <2>3 DEF Money
  <1>4. CASE Desk
    <2>1. CASE \E t \in BOOLEAN : SignUp(t)
      BY <2>1, SignUpKeeps
    <2>2. CASE \E u \in Users : CreateMemo(u) \/ \E k \in {"customer", "business"} : Ask(u, k)
      BY <2>2, CreateMemoKeeps, AskKeeps
    <2>3. CASE \E a \in DOMAIN db.asks : AnswerQuestion(a)
      BY <2>3, AnswerQuestionKeeps
    <2>4. CASE CreateFaq
      BY <2>4, CreateFaqKeeps
    <2>5. CASE \E f \in DOMAIN db.faqs : DeleteFaq(f)
      BY <2>5, DeleteFaqKeeps
    <2> QED
      BY <1>4, <2>1, <2>2, <2>3, <2>4, <2>5 DEF Desk
  <1> QED
    BY <1>1, <1>2, <1>3, <1>4

\* The lists the client may be given: as the query orders them, and the accounts as
\* the answer sorts them.
Current(d, l, q) == IF l = "accounts" THEN {Entries(d, l, q)} ELSE Orders(d, l, q)

\* A query asks for pages of some rows.
LEMMA QueriesTyped ==
    ASSUME NEW l, NEW q \in Queries(l)
    PROVE  /\ q.size \in Nat \ {0} /\ q.option \in Options(l) \cup {"none"}
  BY PageAssumption DEF Queries

\* What the client may be given has all of the list, once.
LEMMA CurrentIsListed ==
    ASSUME NEW d \in Tables, NEW l \in ListNames, NEW q \in Queries(l), NEW s \in Current(d, l, q)
    PROVE  /\ s \in Orders(d, l, q) /\ s \in Seq(Nat) /\ Len(s) = Len(Entries(d, l, q))
           /\ ToSet(s) = ToSet(Entries(d, l, q))
  <1>1. s \in Orders(d, l, q)
    <2>1. CASE l = "accounts"
      <3>1. q.option \in {"volume", "none"}
        BY <2>1, QueriesTyped DEF Options
      <3> QED
        BY <2>1, <3>1, AccountsInOrder DEF Current
    <2>2. CASE l # "accounts"
      BY <2>2 DEF Current
    <2> QED
      BY <2>1, <2>2
  <1>2. PICK E : E = ToSet(Entries(d, l, q))
    OBVIOUS
  <1>3. Listing(s, E)
    BY <1>1, <1>2, OrdersList
  <1>4. s \in Seq(E) /\ Len(s) = Cardinality(E) /\ ToSet(s) = E
    BY <1>3, ListedAreMembers
  <1>5. Listing(Entries(d, l, q), E) /\ E \subseteq Nat
    BY <1>2, EntriesAreListed
  <1>6. Len(Entries(d, l, q)) = Cardinality(E)
    BY <1>5, ListedAreMembers
  <1> QED
    BY <1>1, <1>2, <1>4, <1>5, <1>6

\* Where the query leaves one order only, it is the one given.
LEMMA OneIsCurrent ==
    ASSUME NEW d \in Tables, NEW l \in ListNames, NEW q \in Queries(l), NEW s,
           Orders(d, l, q) = {s}
    PROVE  Current(d, l, q) = {s}
  <1>1. CASE l = "accounts"
    <2>1. Entries(d, l, q) \in Current(d, l, q)
      BY <1>1 DEF Current
    <2>2. Entries(d, l, q) = s
      BY <2>1, CurrentIsListed
    <2> QED
      BY <1>1, <2>2 DEF Current
  <1>2. CASE l # "accounts"
    BY <1>2 DEF Current
  <1> QED
    BY <1>1, <1>2

\* When the rows of a list stay, so does what the client may be given.
LEMMA CurrentStays ==
    ASSUME NEW d \in Tables, NEW e \in Tables, Kept(d, e), NEW l \in ListNames,
           NEW q \in Queries(l), Entries(e, l, q) = Entries(d, l, q)
    PROVE  Current(e, l, q) = Current(d, l, q)
  <1>1. CASE l = "accounts"
    BY <1>1 DEF Current
  <1>2. CASE l # "accounts"
    <2>1. \A k \in ToSet(Entries(d, l, q)) : Key(e, l, q, k) = Key(d, l, q, k)
      BY <1>2, KeysKept
    <2>2. Orders(e, l, q) = Orders(d, l, q)
      BY <2>1, OrdersSame
    <2> QED
      BY <1>2, <2>2 DEF Current
  <1> QED
    BY <1>1, <1>2

\* The smaller of two numbers.
LEMMA Smaller ==
    ASSUME NEW a \in Nat, NEW b \in Nat
    PROVE  Min({a, b}) = IF a <= b THEN a ELSE b
  <1>1. \A x \in {a, b} : (\A y \in {a, b} : x <= y) => x = IF a <= b THEN a ELSE b
    OBVIOUS
  <1>2. \E x \in {a, b} : \A y \in {a, b} : x <= y
    OBVIOUS
  <1> QED
    BY <1>1, <1>2 DEF Min

\* A factor keeps the order.
LEMMA Multiplied ==
    ASSUME NEW a \in Nat, NEW b \in Nat, a <= b, NEW c \in Nat
    PROVE  a * c <= b * c /\ a * c \in Nat /\ b * c \in Nat
  OBVIOUS

\* The last page is the first that ends at or after the total.
LEMMA LastPage ==
    ASSUME NEW q, q.size \in Nat \ {0}, NEW page \in Nat, NEW total \in Nat
    PROVE  page >= TotalPage(q, total) <=> page * q.size + q.size >= total
  <1>1. PICK size \in Nat \ {0} : size = q.size
    OBVIOUS
  <1>2. PICK pages : pages = (total + size - 1) \div size
    OBVIOUS
  <1>3. /\ pages \in Nat /\ size * pages <= total + size - 1
        /\ total + size - 1 < size * pages + size
    <2>1. PICK n \in Nat : n = total + size - 1
      OBVIOUS
    <2>2. pages = n \div size
      BY <1>2, <2>1
    <2>3. pages \in Nat /\ size * pages <= n /\ n < size * pages + size
      BY <2>2, Z3
    <2> QED
      BY <2>1, <2>3
  <1>4. PICK off \in Nat : off = page * size
    OBVIOUS
  <1>5. (page + 1) * size = off + size /\ (page + 2) * size = off + 2 * size
    BY <1>4
  <1>6. size * pages = pages * size /\ size * pages \in Nat
    BY <1>3
  <1>7. CASE pages > 0
    <2>1. TotalPage(q, total) = pages - 1
      BY <1>1, <1>2, <1>7 DEF TotalPage
    <2>2. CASE page >= pages - 1
      <3>1. pages * size <= (page + 1) * size
        BY <1>3, <2>2, Multiplied
      <3>2. off + size >= total
        BY <1>3, <1>5, <1>6, <3>1
      <3> QED
        BY <1>1, <1>4, <2>1, <2>2, <3>2
    <2>3. CASE page < pages - 1
      <3>1. (page + 2) * size <= pages * size
        BY <1>3, <2>3, Multiplied
      <3>2. off + size < total
        BY <1>3, <1>5, <1>6, <3>1
      <3> QED
        BY <1>1, <1>3, <1>4, <2>1, <2>3, <3>2
    <2> QED
      BY <1>3, <2>2, <2>3
  <1>8. CASE pages = 0
    <2>1. TotalPage(q, total) = 0
      BY <1>1, <1>2, <1>8 DEF TotalPage
    <2>2. total = 0
      BY <1>3, <1>8
    <2> QED
      BY <1>1, <1>4, <2>1, <2>2
  <1> QED
    BY <1>3, <1>7, <1>8

\* The tables and the walk are typed.
WalkTyped(d, w) == d \in Tables /\ w \in WalkRow /\ w.query \in Queries(w.list)

\* While nothing comes or goes the client may be given what it might have been at
\* first; after some pages, what was given once in one order has been seen as far as
\* these pages go, and the page that is read is the next part of it.
SoundList(l) == l \notin NumberedByOffset \cup {"cart", "performance"}
PageStart(w) == w.page * w.query.size
PageEnd(w, s) == Min({PageStart(w) + w.query.size, Len(s)})
ReadSoFar(w, s) ==
    /\ w.phase # "done" => PageStart(w) <= Len(s) /\ w.seen = SubSeq(s, 1, PageStart(w))
    /\ w.phase \in {"total", "answer"} => w.rows = SubSeq(s, PageStart(w) + 1, PageEnd(w, s))
    /\ w.phase \in {"rows", "answer"} => w.total = Len(s)
    /\ w.phase = "done" => w.seen = s /\ w.total = Len(s)
ExactWalk(d, w) ==
    SoundList(w.list) /\ ~w.came /\ ~w.left =>
        /\ Current(d, w.list, w.query) \subseteq w.first
        /\ ~w.tied =>
              /\ \A s \in Current(d, w.list, w.query) : ReadSoFar(w, s)
              /\ w.phase \in {"total", "answer", "done"} => Current(d, w.list, w.query) # {}

\* While none goes, a row that stayed has been seen or comes on a page that has not
\* been read; the total that follows the rows counts it, too.
Later(d, w, e, n) == Cardinality(Ahead(d, w.list, w.query, e)) >= n
Shown(w, e) == e \in ToSet(w.seen) \cup ToSet(w.rows)
StaysInView(d, w, e) ==
    /\ w.phase = "ask" => e \in ToSet(w.seen) \/ Later(d, w, e, PageStart(w))
    /\ w.phase \in {"total", "answer"} =>
          Shown(w, e) \/ Later(d, w, e, PageStart(w) + w.query.size)
    /\ w.phase = "answer" => Shown(w, e) \/ PageStart(w) + w.query.size < w.total
    /\ w.phase = "done" => e \in ToSet(w.seen)
StayingWalk(d, w) ==
    SoundList(w.list) /\ w.list \notin CountedFirst /\ ~w.left =>
        /\ w.kept \subseteq ToSet(Entries(d, w.list, w.query)) /\ w.phase # "rows"
        /\ ~w.tied => \A e \in w.kept : StaysInView(d, w, e)

\* What a walk consists of.
LEMMA WalkFields ==
    ASSUME NEW d, NEW w, WalkTyped(d, w)
    PROVE  /\ d \in Tables /\ w.list \in Lists /\ w.list \in ListNames
           /\ w.query \in Queries(w.list) /\ w.query.size \in Nat \ {0}
           /\ w.phase \in Phases /\ w.page \in Nat /\ w.rows \in Seq(Nat) /\ w.total \in Nat
           /\ w.seen \in Seq(Nat) /\ w.kept \in SUBSET Nat /\ PageStart(w) \in Nat
  <1>1. /\ d \in Tables /\ w.list \in Lists /\ w.query \in Queries(w.list)
        /\ w.phase \in Phases /\ w.page \in Nat /\ w.rows \in Seq(Nat) /\ w.total \in Nat
        /\ w.seen \in Seq(Nat) /\ w.kept \in SUBSET Nat
    BY DEF WalkTyped, WalkRow
  <1>2. w.list \in ListNames
    BY <1>1, StartAssumption
  <1>3. w.query.size \in Nat \ {0}
    BY <1>1, QueriesTyped
  <1>4. PICK page \in Nat, size \in Nat : page = w.page /\ size = w.query.size
    BY <1>1, <1>3
  <1>5. PageStart(w) \in Nat
    BY <1>4 DEF PageStart
  <1> QED
    BY <1>1, <1>2, <1>3, <1>5

\* A sequence of some numbers is one of numbers.
LEMMA NumbersStay ==
    ASSUME NEW E \in SUBSET Nat, NEW s \in Seq(E)
    PROVE  s \in Seq(Nat)
  <1>1. PICK n \in Nat : n = Len(s)
    OBVIOUS
  <1>2. s \in [1 .. n -> E]
    BY <1>1
  <1>3. s \in [1 .. n -> Nat]
    BY <1>2
  <1> QED
    BY <1>3, SeqDef

\* Two sequences in a row.
LEMMA InARow ==
    ASSUME NEW m \in Nat, NEW n \in Nat, NEW a \in Seq(Nat), NEW b \in Seq(Nat),
           Len(a) = m, Len(b) = n, NEW c, c = a \o b
    PROVE  /\ c \in Seq(Nat) /\ Len(c) = m + n /\ DOMAIN c = 1 .. m + n
           /\ \A i \in 1 .. m : c[i] = a[i]
           /\ \A i \in 1 .. n : c[m + i] = b[i]
  <1>1. c \in Seq(Nat) /\ Len(c) = m + n
    OBVIOUS
  <1>2. DOMAIN c = 1 .. m + n
    BY <1>1
  <1>3. \A i \in 1 .. m : c[i] = a[i]
    OBVIOUS
  <1>4. \A i \in 1 .. n : c[m + i] = b[i]
    OBVIOUS
  <1> QED
    BY <1>1, <1>2, <1>3, <1>4

\* Sequences of the same elements are the same.
LEMMA SameSequence ==
    ASSUME NEW n \in Nat, NEW s \in Seq(Nat), NEW t \in Seq(Nat), Len(s) = n, Len(t) = n,
           \A i \in 1 .. n : s[i] = t[i]
    PROVE  s = t
  <1>1. s \in [1 .. n -> Nat] /\ t \in [1 .. n -> Nat]
    OBVIOUS
  <1> QED
    BY <1>1

\* The elements of a sequence and of two in a row.
LEMMA ToSetOfTwo ==
    ASSUME NEW a \in Seq(Nat), NEW b \in Seq(Nat)
    PROVE  a \o b \in Seq(Nat) /\ ToSet(a \o b) = ToSet(a) \cup ToSet(b)
  <1>1. PICK m \in Nat, n \in Nat : m = Len(a) /\ n = Len(b)
    OBVIOUS
  <1>2. PICK c : c = a \o b
    OBVIOUS
  <1>3. /\ DOMAIN a = 1 .. m /\ DOMAIN b = 1 .. n /\ DOMAIN c = 1 .. m + n /\ c \in Seq(Nat)
        /\ \A i \in 1 .. m : c[i] = a[i]
        /\ \A i \in 1 .. n : c[m + i] = b[i]
    BY <1>1, <1>2, InARow
  <1>4. \A i \in 1 .. m + n : i \in 1 .. m \/ (i - m \in 1 .. n /\ m + (i - m) = i)
    OBVIOUS
  <1>5. \A i \in 1 .. m + n : c[i] \in ToSet(a) \cup ToSet(b)
    BY <1>3, <1>4 DEF ToSet
  <1>6. \A i \in 1 .. m : \E j \in DOMAIN c : c[j] = a[i]
    <2> TAKE i \in 1 .. m
    <2>1. i \in 1 .. m + n
      BY <1>1
    <2>2. i \in DOMAIN c /\ c[i] = a[i]
      BY <1>3, <2>1
    <2> QED
      BY <2>2
  <1>7. \A i \in 1 .. n : \E j \in DOMAIN c : c[j] = b[i]
    <2> TAKE i \in 1 .. n
    <2>1. m + i \in DOMAIN c
      BY <1>3
    <2> QED
      BY <1>3, <2>1
  <1>8. ToSet(c) \subseteq ToSet(a) \cup ToSet(b)
    BY <1>3, <1>5 DEF ToSet
  <1>9. ToSet(a) \subseteq ToSet(c) /\ ToSet(b) \subseteq ToSet(c)
    BY <1>3, <1>6, <1>7 DEF ToSet
  <1> QED
    BY <1>2, <1>3, <1>8, <1>9

\* A part of a sequence.
LEMMA PartOf ==
    ASSUME NEW s \in Seq(Nat), NEW off \in Nat, NEW m \in Nat, m <= Len(s),
           NEW part, part = SubSeq(s, off + 1, m)
    PROVE  /\ part \in Seq(Nat) /\ Len(part) = IF off <= m THEN m - off ELSE 0
           /\ \A i \in 1 .. m - off : part[i] = s[off + i]
  <1>1. Len(part) = IF off <= m THEN m - off ELSE 0
    OBVIOUS
  <1>2. \A i \in 1 .. m - off : part[i] = s[off + i]
    BY SMTT(30)
  <1>3. part \in Seq(Nat)
    BY SMTT(30)
  <1> QED
    BY <1>1, <1>2, <1>3

\* A page goes on where the ones before it end.
LEMMA NextPage ==
    ASSUME NEW s \in Seq(Nat), NEW off \in Nat, NEW size \in Nat, off <= Len(s)
    PROVE  /\ Min({off + size, Len(s)}) = IF off + size <= Len(s) THEN off + size ELSE Len(s)
           /\ SubSeq(s, off + 1, Min({off + size, Len(s)})) \in Seq(Nat)
           /\ SubSeq(s, 1, off) \o SubSeq(s, off + 1, Min({off + size, Len(s)}))
                = SubSeq(s, 1, Min({off + size, Len(s)}))
           /\ SubSeq(s, 1, Len(s)) = s
  <1>1. PICK n \in Nat : n = Len(s)
    OBVIOUS
  <1>2. PICK m : m = Min({off + size, n})
    OBVIOUS
  <1>3. m = IF off + size <= n THEN off + size ELSE n
    BY <1>1, <1>2, Smaller
  <1>4. m \in Nat /\ off <= m /\ m <= n
    BY <1>1, <1>3
  <1>5. PICK a \in Seq(Nat) : a = SubSeq(s, 1, off)
    <2>1. SubSeq(s, 1, off) \in Seq(Nat)
      BY <1>1, <1>4
    <2> QED
      BY <2>1
  <1>6. PICK b \in Seq(Nat) : b = SubSeq(s, off + 1, m)
    <2>1. SubSeq(s, off + 1, m) \in Seq(Nat)
      BY <1>1, <1>4
    <2> QED
      BY <2>1
  <1>7. PICK c : c = SubSeq(s, 1, m)
    OBVIOUS
  <1>8. a \in Seq(Nat) /\ Len(a) = off /\ \A i \in 1 .. off : a[i] = s[i]
    BY <1>1, <1>4, <1>5
  <1>9. b \in Seq(Nat) /\ Len(b) = m - off /\ \A i \in 1 .. m - off : b[i] = s[off + i]
    BY <1>1, <1>4, <1>6
  <1>10. c \in Seq(Nat) /\ Len(c) = m /\ \A i \in 1 .. m : c[i] = s[i]
    BY <1>1, <1>4, <1>7
  <1>11. a \o b = c
    <2>1. PICK t : t = a \o b
      OBVIOUS
    <2>2. /\ t \in Seq(Nat) /\ Len(t) = off + (m - off)
          /\ \A i \in 1 .. off : t[i] = a[i]
          /\ \A i \in 1 .. m - off : t[off + i] = b[i]
      <3>1. PICK k \in Nat : k = m - off
        BY <1>4
      <3>2. Len(a) = off /\ Len(b) = k
        BY <1>8, <1>9, <3>1
      <3>3. /\ t \in Seq(Nat) /\ Len(t) = off + k
            /\ \A i \in 1 .. off : t[i] = a[i]
            /\ \A i \in 1 .. k : t[off + i] = b[i]
        <4>1. t \in Seq(Nat)
          BY <2>1
        <4>2. Len(t) = Len(a) + Len(b)
          BY <2>1
        <4>3. \A i \in 1 .. Len(a) : t[i] = a[i]
          BY <2>1
        <4>4. \A i \in 1 .. Len(b) : t[Len(a) + i] = b[i]
          BY <2>1
        <4> QED
          BY <3>2, <4>1, <4>2, <4>3, <4>4
      <3> QED
        BY <3>1, <3>3
    <2>3. ASSUME NEW i \in 1 .. m PROVE t[i] = c[i]
      <3>1. CASE i <= off
        <4>1. i \in 1 .. off
          BY <1>4, <3>1
        <4> QED
          BY <1>8, <1>10, <2>2, <4>1
      <3>2. CASE i > off
        <4>1. PICK j \in 1 .. m - off : i = off + j
          <5>1. i - off \in 1 .. m - off /\ off + (i - off) = i
            BY <1>4, <3>2
          <5> QED
            BY <5>1
        <4> QED
          BY <1>9, <1>10, <2>2, <4>1
      <3> QED
        BY <1>4, <3>1, <3>2
    <2>4. Len(t) = m
      BY <1>4, <2>2
    <2>5. t = c
      BY <1>4, <1>10, <2>2, <2>3, <2>4, SameSequence
    <2> QED
      BY <2>1, <2>5
  <1>12. SubSeq(s, 1, n) = s
    BY <1>1
  <1> QED
    BY <1>1, <1>2, <1>3, <1>5, <1>6, <1>7, <1>9, <1>11, <1>12

\* A row whose turn it is comes on the page.
LEMMA OnThePage ==
    ASSUME NEW s \in Seq(Nat), NEW off \in Nat, NEW size \in Nat, NEW p \in 1 .. Len(s),
           off < p, p <= off + size, NEW part, part = SubSeq(s, off + 1, Min({off + size, Len(s)}))
    PROVE  s[p] \in ToSet(part)
  <1>1. PICK n \in Nat : n = Len(s)
    OBVIOUS
  <1>2. PICK end \in Nat : end = off + size
    OBVIOUS
  <1>3. PICK m \in Nat : m = Min({end, n}) /\ m = IF end <= n THEN end ELSE n
    <2>1. Min({end, n}) = IF end <= n THEN end ELSE n
      BY Smaller
    <2>2. PICK m : m = Min({end, n})
      OBVIOUS
    <2>3. m \in Nat /\ m = IF end <= n THEN end ELSE n
      BY ONLY <2>1, <2>2, n \in Nat, end \in Nat
    <2> QED
      BY <2>2, <2>3
  <1>4. p \in Nat /\ off <= m /\ m <= n /\ p <= m
    BY ONLY <1>1, <1>2, <1>3, p \in 1 .. Len(s), off \in Nat, size \in Nat, off < p, p <= off + size, SMTT(30)
  <1>5. part = SubSeq(s, off + 1, m)
    BY ONLY part = SubSeq(s, off + 1, Min({off + size, Len(s)})), <1>1, <1>2, <1>3
  <1>6. /\ part \in Seq(Nat) /\ Len(part) = m - off
        /\ \A i \in 1 .. m - off : part[i] = s[off + i]
    <2>1. m <= Len(s) /\ part = SubSeq(s, off + 1, m)
      BY <1>1, <1>4, <1>5
    <2>2. part \in Seq(Nat) /\ Len(part) = IF off <= m THEN m - off ELSE 0
      BY ONLY <2>1, PartOf, s \in Seq(Nat), off \in Nat, m \in Nat
    <2>3. \A i \in 1 .. m - off : part[i] = s[off + i]
      BY ONLY <2>1, PartOf, s \in Seq(Nat), off \in Nat, m \in Nat
    <2>4. off <= m
      BY <1>4
    <2> QED
      BY ONLY <2>2, <2>3, <2>4
  <1>7. p - off \in 1 .. m - off /\ off + (p - off) = p
    BY <1>4
  <1>8. DOMAIN part = 1 .. m - off
    BY ONLY <1>4, <1>6, off \in Nat, m \in Nat, SMTT(30)
  <1> QED
    BY <1>6, <1>7, <1>8 DEF ToSet

\* A page is a list of rows.
LEMMA PagesAreLists ==
    ASSUME NEW s \in Seq(Nat), NEW off \in Nat, NEW end \in Nat
    PROVE  SubSeq(s, off + 1, Min({end, Len(s)})) \in Seq(Nat)
  <1>1. PICK n \in Nat : n = Len(s)
    OBVIOUS
  <1>2. PICK m \in Nat : m = Min({end, n}) /\ m <= n
    <2>1. Min({end, n}) = IF end <= n THEN end ELSE n
      BY Smaller
    <2> QED
      BY <2>1
  <1>3. SubSeq(s, off + 1, m) \in Seq(Nat)
    BY <1>1, <1>2, PartOf
  <1> QED
    BY <1>1, <1>2, <1>3

\* A list has a number of rows.
LEMMA TotalsAreNumbers ==
    ASSUME NEW d \in Tables, NEW l \in ListNames, NEW q
    PROVE  Total(d, l, q) \in Nat /\ Len(Entries(d, l, q)) \in Nat
  <1>1. Len(Entries(d, l, q)) \in Nat
    BY EntriesAreListed, ListedAreMembers
  <1>2. PerformanceTotal(d, q) \in Nat
    <2>1. PICK n \in Nat : DOMAIN d.usages = 1 .. n
      BY TablesTyped, RowsHaveIds
    <2>2. PICK ids : ids = {i \in DOMAIN d.usages : InWindow(DayOf(d.usages[i].at))}
      OBVIOUS
    <2>3. Cardinality(ids) \in Nat
      BY <2>1, <2>2, IdsAreFinite
    <2> QED
      BY <2>2, <2>3 DEF PerformanceTotal, Rows
  <1> QED
    BY <1>1, <1>2 DEF Total

\* The total is read.
LEMMA TotalRead ==
    ASSUME NEW d, NEW w, WalkTyped(d, w), ExactWalk(d, w), StayingWalk(d, w),
           w.phase = IF w.list \in CountedFirst THEN "ask" ELSE "total",
           NEW v, v = [w EXCEPT
                !.total = Total(d, w.list, w.query),
                !.phase = IF w.list \in CountedFirst THEN "rows" ELSE "answer"]
    PROVE  WalkTyped(d, v) /\ ExactWalk(d, v) /\ StayingWalk(d, v)
  <1>1. /\ d \in Tables /\ w.list \in ListNames /\ w.query \in Queries(w.list) /\ w.page \in Nat
        /\ w.query.size \in Nat \ {0}
    BY WalkFields
  <1>2. PICK total \in Nat : total = Total(d, w.list, w.query)
    BY <1>1, TotalsAreNumbers
  <1>3. PICK phase \in Phases : phase = IF w.list \in CountedFirst THEN "rows" ELSE "answer"
    BY DEF Phases
  <1>4. v = [[w EXCEPT !.total = total] EXCEPT !.phase = phase]
    BY <1>2, <1>3
  <1>5. w \in WalkRow
    BY DEF WalkTyped
  <1>6. /\ v \in WalkRow /\ v.total = total /\ v.phase = phase
        /\ v.list = w.list /\ v.query = w.query /\ v.page = w.page /\ v.rows = w.rows
        /\ v.seen = w.seen /\ v.first = w.first /\ v.kept = w.kept
        /\ v.came = w.came /\ v.left = w.left /\ v.tied = w.tied
    BY <1>4, <1>5 DEF WalkRow
  <1>7. WalkTyped(d, v)
    BY <1>1, <1>6 DEF WalkTyped
  <1>8. PageStart(v) = PageStart(w) /\ \A s : PageEnd(v, s) = PageEnd(w, s)
    BY <1>6 DEF PageStart, PageEnd
  <1>9. w.list # "performance" => total = Len(Entries(d, w.list, w.query))
    BY <1>2 DEF Total
  <1>10. ExactWalk(d, v)
    <2> SUFFICES ASSUME SoundList(v.list), ~v.came, ~v.left
                 PROVE  /\ Current(d, v.list, v.query) \subseteq v.first
                        /\ ~v.tied =>
                              /\ \A s \in Current(d, v.list, v.query) : ReadSoFar(v, s)
                              /\ v.phase \in {"total", "answer", "done"} =>
                                    Current(d, v.list, v.query) # {}
      BY DEF ExactWalk
    <2>1. PICK C : C = Current(d, w.list, w.query)
      OBVIOUS
    <2>2. /\ C \subseteq w.first
          /\ ~w.tied => /\ \A s \in C : ReadSoFar(w, s)
                        /\ w.phase \in {"total", "answer", "done"} => C # {}
      BY <1>6, <2>1 DEF ExactWalk
    <2>3. ASSUME ~w.tied, NEW s \in C PROVE ReadSoFar(v, s)
      <3>1. ReadSoFar(w, s)
        BY <2>2, <2>3
      <3>2. total = Len(s)
        BY <1>1, <1>6, <1>9, <2>1, CurrentIsListed DEF SoundList
      <3> QED
        BY <1>3, <1>6, <1>8, <3>1, <3>2 DEF ReadSoFar
    <2>4. v.phase \in {"total", "answer", "done"} => w.phase = "total"
      BY <1>3, <1>6
    <2> QED
      BY <1>6, <2>1, <2>2, <2>3, <2>4
  <1>11. StayingWalk(d, v)
    <2> SUFFICES ASSUME SoundList(v.list), v.list \notin CountedFirst, ~v.left
                 PROVE  /\ v.kept \subseteq ToSet(Entries(d, v.list, v.query))
                        /\ v.phase # "rows"
                        /\ ~v.tied => \A e \in v.kept : StaysInView(d, v, e)
      BY DEF StayingWalk
    <2>1. /\ w.kept \subseteq ToSet(Entries(d, w.list, w.query))
          /\ ~w.tied => \A e \in w.kept : StaysInView(d, w, e)
      BY <1>6 DEF StayingWalk
    <2>2. phase = "answer" /\ w.phase = "total"
      BY <1>3, <1>6
    <2>3. ASSUME ~w.tied, NEW e \in w.kept PROVE StaysInView(d, v, e)
      <3>1. Shown(w, e) \/ Later(d, w, e, PageStart(w) + w.query.size)
        BY <2>1, <2>2, <2>3 DEF StaysInView
      <3>2. Shown(v, e) <=> Shown(w, e)
        BY <1>6 DEF Shown
      <3>3. \A n : Later(d, v, e, n) <=> Later(d, w, e, n)
        BY <1>6 DEF Later
      <3>4. Later(d, w, e, PageStart(w) + w.query.size) => PageStart(w) + w.query.size < total
        <4>1. PICK A \in Nat : A = Cardinality(Ahead(d, w.list, w.query, e))
          BY <1>1, AheadIsFinite
        <4>2. A < total
          <5>1. w.list # "performance"
            BY <1>6 DEF SoundList
          <5>2. e \in ToSet(Entries(d, w.list, w.query))
            BY <2>1, <2>3
          <5>3. w.list \in ListNames \ CountedFirst
            BY <1>1, <1>6
          <5> QED
            BY <1>1, <1>9, <4>1, <5>1, <5>2, <5>3, AheadOfTotal
        <4>3. PICK m \in Nat : m = PageStart(w) + w.query.size
          BY WalkFields
        <4> QED
          BY <4>1, <4>2, <4>3 DEF Later
      <3> QED
        BY <1>6, <1>8, <2>2, <3>1, <3>2, <3>3, <3>4 DEF StaysInView
    <2> QED
      BY <1>6, <2>1, <2>2, <2>3
  <1> QED
    BY <1>7, <1>10, <1>11

\* The rows of a page are read, in one of the orders.
LEMMA RowsRead ==
    ASSUME NEW d, NEW w, WalkTyped(d, w), ExactWalk(d, w), StayingWalk(d, w),
           w.phase = IF w.list \in CountedFirst THEN "rows" ELSE "ask",
           NEW rows \in Orders(d, w.list, w.query),
           NEW v, v = [w EXCEPT
                !.rows = IF w.list \in CountedFirst /\ w.total = 0 THEN <<>>
                         ELSE PageOf(w.list, w.query, rows, w.page),
                !.tied = @ \/ Orders(d, w.list, w.query) # {rows},
                !.phase = IF w.list \in CountedFirst THEN "answer" ELSE "total"]
    PROVE  WalkTyped(d, v) /\ ExactWalk(d, v) /\ StayingWalk(d, v)
  <1>1. /\ d \in Tables /\ w.list \in ListNames /\ w.query \in Queries(w.list) /\ w.page \in Nat
        /\ w.query.size \in Nat \ {0} /\ PageStart(w) \in Nat /\ w.total \in Nat
    BY WalkFields
  <1>2. PICK off \in Nat, size \in Nat : off = PageStart(w) /\ size = w.query.size
    BY <1>1
  <1>3. rows \in Seq(Nat) /\ ToSet(rows) = ToSet(Entries(d, w.list, w.query))
    <2>1. PICK E : E = ToSet(Entries(d, w.list, w.query))
      OBVIOUS
    <2>2. Listing(rows, E)
      BY <1>1, <2>1, OrdersList
    <2>3. rows \in Seq(E) /\ ToSet(rows) = E
      BY <2>2, ListedAreMembers
    <2>4. E \subseteq Nat
      BY <1>1, <2>1, EntriesAreListed
    <2> QED
      BY <2>1, <2>3, <2>4
  <1>4. PICK n \in Nat : n = Len(rows)
    BY <1>3
  <1>5. PICK part : part = SubSeq(rows, off + 1, Min({off + size, n}))
    OBVIOUS
  <1>6. part \in Seq(Nat)
    <2>1. PICK end \in Nat : end = off + size
      OBVIOUS
    <2> QED
      BY <1>3, <1>4, <1>5, <2>1, PagesAreLists
  <1>7. w.list # "cart" => PageOf(w.list, w.query, rows, w.page) = part
    BY <1>2, <1>4, <1>5 DEF PageOf, Offset, PageStart
  <1>8. PICK page : page = IF w.list \in CountedFirst /\ w.total = 0 THEN <<>>
                           ELSE PageOf(w.list, w.query, rows, w.page)
    OBVIOUS
  <1>9. page \in Seq(Nat)
    <2>1. CASE w.list \in CountedFirst /\ w.total = 0
      BY <1>8, <2>1
    <2>2. CASE ~(w.list \in CountedFirst /\ w.total = 0) /\ w.list # "cart"
      BY <1>6, <1>7, <1>8, <2>2
    <2>3. CASE w.list = "cart"
      BY <1>3, <1>8, <2>3 DEF CountedFirst, PageOf
    <2> QED
      BY <2>1, <2>2, <2>3
  <1>10. PICK phase \in Phases : phase = IF w.list \in CountedFirst THEN "answer" ELSE "total"
    BY DEF Phases
  <1>11. w \in WalkRow
    BY DEF WalkTyped
  <1>12. PICK tied \in BOOLEAN : tied = (w.tied \/ Orders(d, w.list, w.query) # {rows})
    OBVIOUS
  <1>13. v = [[[w EXCEPT !.rows = page] EXCEPT !.tied = tied] EXCEPT !.phase = phase]
    BY <1>8, <1>10, <1>12, ZenonT(60)
  <1>14. /\ v \in WalkRow /\ v.rows = page /\ v.phase = phase /\ v.tied = tied
         /\ v.list = w.list /\ v.query = w.query /\ v.page = w.page /\ v.total = w.total
         /\ v.seen = w.seen /\ v.first = w.first /\ v.kept = w.kept
         /\ v.came = w.came /\ v.left = w.left
    BY ONLY <1>9, <1>11, <1>13, phase \in Phases, tied \in BOOLEAN DEF WalkRow
  <1>15. WalkTyped(d, v)
    BY <1>1, <1>14 DEF WalkTyped
  <1>16. PageStart(v) = PageStart(w) /\ \A s : PageEnd(v, s) = PageEnd(w, s)
    BY <1>14 DEF PageStart, PageEnd
  <1>17. ~v.tied => ~w.tied /\ Orders(d, w.list, w.query) = {rows}
    BY <1>12, <1>14
  <1>18. ExactWalk(d, v)
    <2> SUFFICES ASSUME SoundList(v.list), ~v.came, ~v.left
                 PROVE  /\ Current(d, v.list, v.query) \subseteq v.first
                        /\ ~v.tied =>
                              /\ \A s \in Current(d, v.list, v.query) : ReadSoFar(v, s)
                              /\ v.phase \in {"total", "answer", "done"} =>
                                    Current(d, v.list, v.query) # {}
      BY DEF ExactWalk
    <2>1. PICK C : C = Current(d, w.list, w.query)
      OBVIOUS
    <2>2. /\ C \subseteq w.first
          /\ ~w.tied => \A s \in C : ReadSoFar(w, s)
      BY <1>14, <2>1 DEF ExactWalk
    <2>3. ~v.tied => C = {rows}
      BY <1>1, <1>17, <2>1, OneIsCurrent
    <2>4. ASSUME ~v.tied PROVE ReadSoFar(v, rows)
      <3>1. ReadSoFar(w, rows) /\ w.phase \in {"ask", "rows"}
        BY <1>17, <2>2, <2>3, <2>4
      <3>2. off <= n /\ w.seen = SubSeq(rows, 1, off)
        BY <1>2, <1>4, <3>1 DEF ReadSoFar
      <3>3. page = part
        <4>1. CASE w.list \in CountedFirst /\ w.total = 0
          <5>1. n = 0 /\ off = 0
            BY <1>2, <1>4, <3>1, <3>2, <4>1 DEF ReadSoFar
          <5>2. Min({off + size, n}) = 0
            BY <1>2, <1>4, <5>1, Smaller
          <5>3. part = <<>>
            BY <1>3, <1>4, <1>5, <5>1, <5>2
          <5> QED
            BY <1>8, <4>1, <5>3
        <4>2. CASE ~(w.list \in CountedFirst /\ w.total = 0)
          BY <1>7, <1>8, <1>14, <4>2 DEF SoundList
        <4> QED
          BY <4>1, <4>2
      <3>4. page = SubSeq(rows, PageStart(v) + 1, PageEnd(v, rows))
        BY <1>2, <1>4, <1>5, <1>16, <3>3 DEF PageEnd
      <3>5. phase = "answer" => w.total = Len(rows)
        BY <1>10, <3>1 DEF ReadSoFar
      <3> QED
        BY <1>2, <1>4, <1>10, <1>14, <1>16, <3>2, <3>4, <3>5 DEF ReadSoFar
    <2> QED
      BY <1>14, <1>17, <2>1, <2>2, <2>3, <2>4
  <1>19. StayingWalk(d, v)
    <2> SUFFICES ASSUME SoundList(v.list), v.list \notin CountedFirst, ~v.left
                 PROVE  /\ v.kept \subseteq ToSet(Entries(d, v.list, v.query))
                        /\ v.phase # "rows"
                        /\ ~v.tied => \A e \in v.kept : StaysInView(d, v, e)
      BY DEF StayingWalk
    <2>1. /\ w.kept \subseteq ToSet(Entries(d, w.list, w.query))
          /\ ~w.tied => \A e \in w.kept : StaysInView(d, w, e)
      BY <1>14 DEF StayingWalk
    <2>2. phase = "total" /\ w.phase = "ask" /\ page = part
      BY <1>7, <1>8, <1>10, <1>14 DEF SoundList
    <2>3. ASSUME ~v.tied, NEW e \in w.kept PROVE StaysInView(d, v, e)
      <3>1. e \in ToSet(w.seen) \/ Later(d, w, e, off)
        BY <1>2, <1>17, <2>1, <2>2, <2>3 DEF StaysInView
      <3>2. PICK p \in 1 .. n : e = rows[p]
        <4>1. e \in ToSet(rows)
          BY <1>3, <2>1, <2>3
        <4> QED
          BY <1>3, <1>4, <4>1 DEF ToSet
      <3>3. Cardinality(Ahead(d, w.list, w.query, e)) = p - 1
        <4>1. p \in DOMAIN rows
          BY <1>3, <1>4
        <4>2. w.list \in ListNames \ CountedFirst
          BY <1>1, <1>14
        <4> QED
          BY <1>1, <1>17, <2>3, <3>2, <4>1, <4>2, PlaceIsCount
      <3>4. \A k : Later(d, v, e, k) <=> p - 1 >= k
        BY <1>14, <3>3 DEF Later
      <3>5. Later(d, w, e, off) <=> p - 1 >= off
        BY <3>3 DEF Later
      <3>6. CASE e \in ToSet(w.seen)
        BY <1>14, <2>2, <3>6 DEF StaysInView, Shown
      <3>7. CASE p - 1 >= off
        <4>1. CASE p <= off + size
          <5>1. off < p
            BY <3>7
          <5>2. p \in 1 .. Len(rows) /\ part = SubSeq(rows, off + 1, Min({off + size, Len(rows)}))
            BY <1>4, <1>5
          <5>3. rows[p] \in ToSet(part)
            BY <1>3, <4>1, <5>1, <5>2, OnThePage
          <5> QED
            BY <1>14, <2>2, <3>2, <5>3 DEF StaysInView, Shown
        <4>2. CASE p > off + size
          <5>1. Later(d, v, e, off + size)
            <6>1. p - 1 >= off + size
              BY <4>2
            <6> QED
              BY <3>4, <6>1
          <5>2. PageStart(v) + v.query.size = off + size
            BY <1>2, <1>14, <1>16
          <5> QED
            BY <1>14, <2>2, <5>1, <5>2 DEF StaysInView
        <4> QED
          BY <4>1, <4>2
      <3> QED
        BY <3>1, <3>5, <3>6, <3>7
    <2> QED
      BY <1>14, <2>1, <2>2, <2>3
  <1> QED
    BY <1>15, <1>18, <1>19

\* The client shows the page and asks for the next, or stops at the last.
LEMMA PageShown ==
    ASSUME NEW d, NEW w, WalkTyped(d, w), ExactWalk(d, w), StayingWalk(d, w),
           w.phase = "answer",
           NEW v, v = [w EXCEPT
                !.seen = @ \o w.rows, !.rows = <<>>,
                !.page = IF IsLast(w.list, w.query, w.page, w.total) THEN @ ELSE @ + 1,
                !.phase = IF IsLast(w.list, w.query, w.page, w.total) THEN "done" ELSE "ask"]
    PROVE  WalkTyped(d, v) /\ ExactWalk(d, v) /\ StayingWalk(d, v)
  <1>1. /\ d \in Tables /\ w.list \in ListNames /\ w.query \in Queries(w.list) /\ w.page \in Nat
        /\ w.query.size \in Nat \ {0} /\ PageStart(w) \in Nat /\ w.total \in Nat
        /\ w.seen \in Seq(Nat) /\ w.rows \in Seq(Nat)
    BY WalkFields
  <1>2. PICK off \in Nat, size \in Nat : off = PageStart(w) /\ size = w.query.size
    BY <1>1
  <1>3. PICK final \in BOOLEAN : final <=> IsLast(w.list, w.query, w.page, w.total)
    OBVIOUS
  <1>4. PICK seen \in Seq(Nat) : seen = w.seen \o w.rows
    BY <1>1, ToSetOfTwo
  <1>5. ToSet(seen) = ToSet(w.seen) \cup ToSet(w.rows)
    BY <1>1, <1>4, ToSetOfTwo
  <1>6. PICK page \in Nat : page = IF final THEN w.page ELSE w.page + 1
    BY <1>1
  <1>7. PICK phase \in Phases : phase = IF final THEN "done" ELSE "ask"
    BY DEF Phases
  <1>8. w \in WalkRow
    BY DEF WalkTyped
  <1>9. v = [[[[w EXCEPT !.seen = seen] EXCEPT !.rows = <<>>] EXCEPT !.page = page]
                EXCEPT !.phase = phase]
    BY <1>3, <1>4, <1>6, <1>7
  <1>10. /\ v \in WalkRow /\ v.seen = seen /\ v.page = page /\ v.phase = phase
         /\ v.list = w.list /\ v.query = w.query /\ v.total = w.total
         /\ v.first = w.first /\ v.kept = w.kept
         /\ v.came = w.came /\ v.left = w.left /\ v.tied = w.tied
    <2>1. <<>> \in Seq(Nat)
      OBVIOUS
    <2> QED
      BY ONLY <1>8, <1>9, <2>1, seen \in Seq(Nat), page \in Nat, phase \in Phases DEF WalkRow
  <1>11. WalkTyped(d, v)
    BY <1>1, <1>10 DEF WalkTyped
  <1>12. PageStart(v) = IF final THEN off ELSE off + size
    <2>1. CASE final
      BY <1>2, <1>6, <1>10, <2>1 DEF PageStart
    <2>2. CASE ~final
      <3>1. PICK p \in Nat : p = w.page
        BY <1>1
      <3>2. (p + 1) * size = p * size + size
        OBVIOUS
      <3> QED
        BY <1>2, <1>6, <1>10, <2>2, <3>1, <3>2 DEF PageStart
    <2> QED
      BY <2>1, <2>2
  <1>13. SoundList(w.list) => (final <=> off + size >= w.total)
    <2>1. SoundList(w.list) => (final <=> w.page >= TotalPage(w.query, w.total))
      BY <1>3 DEF SoundList, IsLast, CurrentPage
    <2>2. w.page >= TotalPage(w.query, w.total) <=> w.page * w.query.size + w.query.size >= w.total
      BY <1>1, LastPage
    <2> QED
      BY <1>2, <2>1, <2>2 DEF PageStart
  <1>14. ExactWalk(d, v)
    <2> SUFFICES ASSUME SoundList(v.list), ~v.came, ~v.left
                 PROVE  /\ Current(d, v.list, v.query) \subseteq v.first
                        /\ ~v.tied =>
                              /\ \A s \in Current(d, v.list, v.query) : ReadSoFar(v, s)
                              /\ v.phase \in {"total", "answer", "done"} =>
                                    Current(d, v.list, v.query) # {}
      BY DEF ExactWalk
    <2>1. PICK C : C = Current(d, w.list, w.query)
      OBVIOUS
    <2>2. /\ C \subseteq w.first
          /\ ~w.tied => C # {} /\ \A s \in C : ReadSoFar(w, s)
      BY <1>10, <2>1 DEF ExactWalk
    <2>3. ASSUME ~w.tied, NEW s \in C PROVE ReadSoFar(v, s)
      <3>1. ReadSoFar(w, s)
        BY <2>2, <2>3
      <3>2. s \in Seq(Nat)
        BY <1>1, <2>1, CurrentIsListed
      <3>3. PICK n \in Nat : n = Len(s)
        BY ONLY <3>2
      <3>4. PICK m : m = Min({off + size, n})
        OBVIOUS
      <3>5. off <= n /\ w.seen = SubSeq(s, 1, off) /\ w.rows = SubSeq(s, off + 1, m) /\ w.total = n
        BY <1>2, <3>1, <3>3, <3>4 DEF ReadSoFar, PageEnd
      <3>6. m = (IF off + size <= n THEN off + size ELSE n) /\ seen = SubSeq(s, 1, m)
            /\ SubSeq(s, 1, n) = s
        <4>1. off <= Len(s)
          BY <3>3, <3>5
        <4>2. /\ Min({off + size, Len(s)}) = IF off + size <= Len(s) THEN off + size ELSE Len(s)
              /\ SubSeq(s, 1, off) \o SubSeq(s, off + 1, Min({off + size, Len(s)}))
                   = SubSeq(s, 1, Min({off + size, Len(s)}))
              /\ SubSeq(s, 1, Len(s)) = s
          BY <3>2, <4>1, NextPage, ZenonT(30)
        <4>3. w.seen \o w.rows = SubSeq(s, 1, m)
          BY <3>3, <3>4, <3>5, <4>2
        <4> QED
          BY <1>4, <3>3, <3>4, <4>2, <4>3
      <3>7. final <=> off + size >= n
        BY <1>10, <1>13, <3>5
      <3>8. CASE final
        <4>1. m = n
          BY <3>6, <3>7, <3>8
        <4> QED
          BY <1>7, <1>10, <3>3, <3>5, <3>6, <3>8, <4>1 DEF ReadSoFar
      <3>9. CASE ~final
        <4>1. m = off + size /\ off + size <= n
          BY <3>6, <3>7, <3>9
        <4> QED
          BY <1>7, <1>10, <1>12, <3>3, <3>6, <3>9, <4>1 DEF ReadSoFar
      <3> QED
        BY <3>8, <3>9
    <2> QED
      BY <1>10, <2>1, <2>2, <2>3
  <1>15. StayingWalk(d, v)
    <2> SUFFICES ASSUME SoundList(v.list), v.list \notin CountedFirst, ~v.left
                 PROVE  /\ v.kept \subseteq ToSet(Entries(d, v.list, v.query))
                        /\ v.phase # "rows"
                        /\ ~v.tied => \A e \in v.kept : StaysInView(d, v, e)
      BY DEF StayingWalk
    <2>1. /\ w.kept \subseteq ToSet(Entries(d, w.list, w.query))
          /\ ~w.tied => \A e \in w.kept : StaysInView(d, w, e)
      BY <1>10 DEF StayingWalk
    <2>2. phase # "rows"
      BY <1>7
    <2>3. ASSUME ~w.tied, NEW e \in w.kept PROVE StaysInView(d, v, e)
      <3>1. /\ Shown(w, e) \/ Later(d, w, e, off + size)
            /\ Shown(w, e) \/ off + size < w.total
        BY <1>2, <2>1, <2>3 DEF StaysInView
      <3>2. Shown(w, e) <=> e \in ToSet(v.seen)
        BY <1>5, <1>10 DEF Shown
      <3>3. \A k : Later(d, v, e, k) <=> Later(d, w, e, k)
        BY <1>10 DEF Later
      <3>4. CASE final
        <4>1. ~(off + size < w.total)
          BY <1>1, <1>10, <1>13, <3>4
        <4> QED
          BY <1>7, <1>10, <3>1, <3>2, <3>4, <4>1 DEF StaysInView
      <3>5. CASE ~final
        BY <1>7, <1>10, <1>12, <3>1, <3>2, <3>3, <3>5 DEF StaysInView
      <3> QED
        BY <3>4, <3>5
    <2> QED
      BY <1>10, <2>1, <2>2, <2>3
  <1> QED
    BY <1>11, <1>14, <1>15

\* What a walk notes of a list that changes.
Noted(w, before, after) ==
    [w EXCEPT
        !.kept = @ \cap ToSet(after),
        !.came = @ \/ ToSet(after) \ ToSet(before) # {},
        !.left = @ \/ IF ToSet(after) \ ToSet(before) = {} THEN after # before
                      ELSE ~(ToSet(before) \subseteq ToSet(after))]

\* Rows come, change or go.
LEMMA RowsChanged ==
    ASSUME NEW d, NEW w, WalkTyped(d, w), ExactWalk(d, w), StayingWalk(d, w), w.phase # "done",
           NEW e \in Tables, Kept(d, e),
           NEW before, before = Entries(d, w.list, w.query),
           NEW after, after = Entries(e, w.list, w.query),
           NEW v, v = Noted(w, before, after)
    PROVE  WalkTyped(e, v) /\ ExactWalk(e, v) /\ StayingWalk(e, v)
  <1>1. /\ d \in Tables /\ w.list \in ListNames /\ w.query \in Queries(w.list)
        /\ w.kept \in SUBSET Nat
    BY WalkFields
  <1>2. PICK came \in BOOLEAN : came = (w.came \/ ToSet(after) \ ToSet(before) # {})
    OBVIOUS
  <1>3. PICK left \in BOOLEAN :
            left = (w.left \/ IF ToSet(after) \ ToSet(before) = {} THEN after # before
                              ELSE ~(ToSet(before) \subseteq ToSet(after)))
    OBVIOUS
  <1>4. PICK kept \in SUBSET Nat : kept = w.kept \cap ToSet(after)
    BY <1>1
  <1>5. w \in WalkRow
    BY DEF WalkTyped
  <1>6. v = [[[w EXCEPT !.kept = kept] EXCEPT !.came = came] EXCEPT !.left = left]
    BY <1>2, <1>3, <1>4 DEF Noted
  <1>7. /\ v \in WalkRow /\ v.kept = kept /\ v.came = came /\ v.left = left
        /\ v.list = w.list /\ v.query = w.query /\ v.page = w.page /\ v.rows = w.rows
        /\ v.seen = w.seen /\ v.first = w.first /\ v.total = w.total /\ v.phase = w.phase
        /\ v.tied = w.tied
    BY <1>5, <1>6 DEF WalkRow
  <1>8. WalkTyped(e, v)
    BY <1>1, <1>7 DEF WalkTyped
  <1>9. PageStart(v) = PageStart(w) /\ \A s : PageEnd(v, s) = PageEnd(w, s)
    BY <1>7 DEF PageStart, PageEnd
  <1>10. ExactWalk(e, v)
    <2> SUFFICES ASSUME SoundList(v.list), ~v.came, ~v.left
                 PROVE  /\ Current(e, v.list, v.query) \subseteq v.first
                        /\ ~v.tied =>
                              /\ \A s \in Current(e, v.list, v.query) : ReadSoFar(v, s)
                              /\ v.phase \in {"total", "answer", "done"} =>
                                    Current(e, v.list, v.query) # {}
      BY DEF ExactWalk
    <2>1. PICK C : C = Current(d, w.list, w.query)
      OBVIOUS
    <2>2. ~w.came /\ ~w.left /\ after = before
      BY <1>2, <1>3, <1>7
    <2>3. Current(e, w.list, w.query) = C
      <3>1. Entries(e, w.list, w.query) = Entries(d, w.list, w.query)
        BY <2>2
      <3> QED
        BY <1>1, <2>1, <3>1, CurrentStays
    <2>4. /\ C \subseteq w.first
          /\ ~w.tied => /\ \A s \in C : ReadSoFar(w, s)
                        /\ w.phase \in {"total", "answer", "done"} => C # {}
      BY <1>7, <2>1, <2>2 DEF ExactWalk
    <2>5. \A s : ReadSoFar(v, s) <=> ReadSoFar(w, s)
      BY <1>7, <1>9 DEF ReadSoFar
    <2> QED
      BY <1>7, <2>3, <2>4, <2>5
  <1>11. StayingWalk(e, v)
    <2> SUFFICES ASSUME SoundList(v.list), v.list \notin CountedFirst, ~v.left
                 PROVE  /\ v.kept \subseteq ToSet(Entries(e, v.list, v.query))
                        /\ v.phase # "rows"
                        /\ ~v.tied => \A k \in v.kept : StaysInView(e, v, k)
      BY DEF StayingWalk
    <2>1. ~w.left /\ ToSet(before) \subseteq ToSet(after)
      BY <1>3, <1>7
    <2>2. /\ w.kept \subseteq ToSet(before) /\ w.phase # "rows"
          /\ ~w.tied => \A k \in w.kept : StaysInView(d, w, k)
      BY <1>7, <2>1 DEF StayingWalk
    <2>3. ASSUME ~w.tied, NEW k \in kept PROVE StaysInView(e, v, k)
      <3>1. k \in w.kept /\ k \in ToSet(before)
        BY <1>4, <2>2
      <3>2. PICK a \in Nat, b \in Nat :
                /\ a = Cardinality(Ahead(d, w.list, w.query, k))
                /\ b = Cardinality(Ahead(e, w.list, w.query, k))
        BY <1>1, AheadIsFinite
      <3>3. a <= b
        <4>1. w.list \in ListNames \ CountedFirst
          BY <1>1, <1>7
        <4> QED
          BY <1>1, <2>1, <3>1, <3>2, <4>1, AheadGrows
      <3>4. ASSUME NEW n \in Nat, Later(d, w, k, n) PROVE Later(e, v, k, n)
        BY <1>7, <3>2, <3>3, <3>4 DEF Later
      <3>5. PageStart(w) \in Nat /\ PageStart(w) + w.query.size \in Nat
        BY WalkFields
      <3>6. Shown(v, k) <=> Shown(w, k)
        BY <1>7 DEF Shown
      <3>7. StaysInView(d, w, k)
        BY <2>2, <2>3, <3>1
      <3> QED
        BY <1>7, <1>9, <3>4, <3>5, <3>6, <3>7 DEF StaysInView
    <2> QED
      BY <1>4, <1>7, <2>2, <2>3
  <1> QED
    BY <1>8, <1>10, <1>11

\* The invariant of the walks, which implies that they are exact and miss nothing
\* that stays.
WalkInv == now \in Nat /\ WalkTyped(db, walk) /\ ExactWalk(db, walk) /\ StayingWalk(db, walk)

\* It holds when the first page is asked for.
LEMMA WalkInvInit == HistoriesInit => WalkInv
  <1> SUFFICES ASSUME HistoriesInit PROVE WalkInv
    OBVIOUS
  <1>1. db \in Tables /\ now \in Nat
    BY StartAssumption DEF HistoriesInit
  <1>2. PICK l \in Lists : \E q \in Queries(l) : walk = Begin(l, q)
    BY DEF HistoriesInit
  <1>3. PICK q \in Queries(l) : walk = Begin(l, q)
    BY <1>2
  <1>4. l \in ListNames
    BY StartAssumption
  <1>5. Orders(db, l, q) \in SUBSET Seq(Nat)
    <2>1. PICK E : E = ToSet(Entries(db, l, q))
      OBVIOUS
    <2>2. E \subseteq Nat
      BY <1>1, <1>4, <2>1, EntriesAreListed
    <2>3. ASSUME NEW s \in Orders(db, l, q) PROVE s \in Seq(Nat)
      <3>1. Listing(s, E)
        BY <1>1, <1>4, <2>1, OrdersList
      <3>2. s \in Seq(E)
        BY <3>1, ListedAreMembers
      <3> QED
        BY <2>2, <3>2, NumbersStay
    <2> QED
      BY <2>3
  <1>6. PICK first \in SUBSET Seq(Nat) : first = Orders(db, l, q)
    BY <1>5
  <1>7. PICK kept \in SUBSET Nat : kept = ToSet(Entries(db, l, q))
    BY <1>1, <1>4, EntriesAreListed
  <1>8. walk = [list |-> l, query |-> q, phase |-> "ask", page |-> 0, rows |-> <<>>,
                total |-> 0, seen |-> <<>>, first |-> first, kept |-> kept,
                came |-> FALSE, left |-> FALSE, tied |-> FALSE]
    BY <1>3, <1>6, <1>7 DEF Begin
  <1>9. walk \in WalkRow
    <2>1. <<>> \in Seq(Nat) /\ "ask" \in Phases /\ q \in UNION {Queries(k) : k \in Lists}
      BY DEF Phases
    <2> QED
      BY <1>8, <2>1 DEF WalkRow
  <1>10. /\ walk.list = l /\ walk.query = q /\ walk.phase = "ask" /\ walk.page = 0
         /\ walk.seen = <<>> /\ walk.first = first /\ walk.kept = kept /\ ~walk.tied
    BY <1>8
  <1>11. WalkTyped(db, walk)
    BY <1>1, <1>9, <1>10 DEF WalkTyped
  <1>12. PageStart(walk) = 0
    <2>1. PICK size \in Nat : size = q.size
      BY QueriesTyped
    <2>2. 0 * size = 0
      OBVIOUS
    <2> QED
      BY <1>10, <2>1, <2>2 DEF PageStart
  <1>13. ExactWalk(db, walk)
    <2>1. ASSUME NEW s \in Current(db, l, q) PROVE s \in first /\ ReadSoFar(walk, s)
      <3>1. s \in first /\ s \in Seq(Nat)
        BY <1>1, <1>4, <1>6, CurrentIsListed
      <3>2. 0 <= Len(s) /\ SubSeq(s, 1, 0) = <<>>
        BY <3>1
      <3> QED
        BY <1>10, <1>12, <3>1, <3>2 DEF ReadSoFar
    <2> QED
      BY <1>10, <2>1 DEF ExactWalk
  <1>14. StayingWalk(db, walk)
    <2>1. ASSUME NEW k \in kept PROVE StaysInView(db, walk, k)
      <3>1. Cardinality(Ahead(db, l, q, k)) \in Nat
        BY <1>1, <1>4, AheadIsFinite
      <3>2. Later(db, walk, k, PageStart(walk))
        BY <1>10, <1>12, <3>1 DEF Later
      <3> QED
        BY <1>10, <3>2 DEF StaysInView
    <2> QED
      BY <1>7, <1>10, <2>1 DEF StayingWalk
  <1> QED
    BY <1>1, <1>11, <1>13, <1>14 DEF WalkInv

\* Every step keeps it.
LEMMA WalkInvStep == WalkInv /\ [HistoriesNext]_historiesVars => WalkInv'
  <1> SUFFICES ASSUME WalkInv, [HistoriesNext]_historiesVars PROVE WalkInv'
    OBVIOUS
  <1>1. now \in Nat /\ WalkTyped(db, walk) /\ ExactWalk(db, walk) /\ StayingWalk(db, walk)
    BY DEF WalkInv
  <1>2. db \in Tables
    BY <1>1 DEF WalkTyped
  <1>3. CASE ReadTotal
    BY <1>1, <1>3, TotalRead DEF ReadTotal, ReadsTotal, WalkInv
  <1>4. CASE ReadRows
    BY <1>1, <1>4, RowsRead DEF ReadRows, ReadsRows, WalkInv
  <1>5. CASE ShowPage
    BY <1>1, <1>5, PageShown DEF ShowPage, WalkInv
  <1>6. CASE Sell \/ Trade \/ Money \/ Desk
    <2>1. PICK e \in Tables : Kept(db, e) /\ Changing(e)
      BY <1>1, <1>2, <1>6, ChangesKeep
    <2>2. db' = e /\ walk' = Watched(e) /\ now' = now /\ walk.phase # "done"
      BY <2>1 DEF Changing
    <2>3. WalkTyped(e, walk') /\ ExactWalk(e, walk') /\ StayingWalk(e, walk')
      <3>1. PICK before : before = Entries(db, walk.list, walk.query)
        OBVIOUS
      <3>2. PICK after : after = Entries(e, walk.list, walk.query)
        OBVIOUS
      <3>3. walk' = Noted(walk, before, after)
        BY <2>2, <3>1, <3>2 DEF Watched, Noted
      <3>4. PICK v : v = walk'
        OBVIOUS
      <3>5. WalkTyped(e, v) /\ ExactWalk(e, v) /\ StayingWalk(e, v)
        BY <1>1, <2>1, <2>2, <3>1, <3>2, <3>3, <3>4, RowsChanged
      <3> QED
        BY <3>4, <3>5
    <2> QED
      BY <1>1, <2>2, <2>3 DEF WalkInv
  <1>7. CASE Tick
    BY <1>1, <1>7 DEF Tick, WalkInv
  <1>8. CASE UNCHANGED historiesVars
    BY <1>1, <1>8 DEF historiesVars, WalkInv
  <1> QED
    BY <1>3, <1>4, <1>5, <1>6, <1>7, <1>8 DEF HistoriesNext

\* The tables keep their columns through every change of the site and of the
\* administration, and every walk is one of a list with a query that it may have.
THEOREM HistoriesTypeCorrect == HistoriesSpec => []HistoriesTypeOK
  <1>1. WalkInv => HistoriesTypeOK
    BY DEF WalkInv, WalkTyped, HistoriesTypeOK
  <1> QED
    BY <1>1, WalkInvInit, WalkInvStep, PTL DEF HistoriesSpec

\* A walk during which nothing comes or goes and no order leaves a choice has seen
\* the list, in its order and nothing else, and was told its length, for any tables,
\* lists, page sizes and any changes (PagenationRes, PageRequest.getOffset and the
\* query of each list).
THEOREM UndisturbedWalksAreExact == HistoriesSpec => []UndisturbedWalkIsExact
  <1>1. WalkInv => UndisturbedWalkIsExact
    <2> SUFFICES ASSUME WalkInv, Done, Sound, ~walk.came, ~walk.left, ~walk.tied
                 PROVE  walk.seen \in walk.first /\ walk.total = Len(walk.seen)
      BY DEF UndisturbedWalkIsExact
    <2>1. SoundList(walk.list)
      BY DEF Sound, SoundList
    <2>2. PICK s \in Current(db, walk.list, walk.query) : ReadSoFar(walk, s) /\ s \in walk.first
      BY <2>1 DEF WalkInv, ExactWalk, Done
    <2> QED
      BY <2>2 DEF ReadSoFar, Done
  <1> QED
    BY <1>1, WalkInvInit, WalkInvStep, PTL DEF HistoriesSpec

\* What is in the list from the first to the last page is seen by the walk also when
\* rows come meanwhile, as long as none goes and no order leaves a choice, in the
\* lists that read the rows before the total.
THEOREM WhatStaysIsSeen == HistoriesSpec => []StayingIsSeen
  <1>1. WalkInv => StayingIsSeen
    BY DEF WalkInv, StayingWalk, StaysInView, StayingIsSeen, Done, Sound, SoundList
  <1> QED
    BY <1>1, WalkInvInit, WalkInvStep, PTL DEF HistoriesSpec
=============================================================================
