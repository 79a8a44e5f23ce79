------------------------------ MODULE MatchQueue ------------------------------
\* Request and reply between the HTTP processes and the matching daemon, over
\* two SQS FIFO queues: app-daemon.service.ts and admin-daemon.service.ts send
\* a command and wait for the answer with its UUID, matching-daemon.service.ts
\* executes commands in batches, sqs-consumer.service.ts is the polling.
\*
\* Each queue has one message group (one constant is passed for it), so that
\* SQS gives its messages out from the front, and gives out nothing while some
\* of them are in flight, that is received and neither deleted nor timed out.
\* A queue is therefore a log, its front and the number of messages in flight.
\* What executing a command does to the tables is module StockMatch; here it is
\* counted.  A command is its UUID, and so is its answer.
EXTENDS Naturals, Sequences, FiniteSets

CONSTANTS
    Requests,      \* commands that may be sent, each once
    AppRequests,   \* those sent by the app process, which runs the daemon too;
                   \* the others are sent by the administration process
    BatchSize,     \* most messages batchConsume receives at a time (10)
    FlushSize,     \* messages received by the flush at start (10)
    MaxFaults      \* bound on crashes, failed calls and late deletions

ASSUME QueueAssumption ==
    /\ AppRequests \subseteq Requests
    /\ BatchSize \in Nat \ {0} /\ FlushSize \in Nat \ {0}
    /\ MaxFaults \in Nat

VARIABLES
    accepted,   \* every message the in queue accepted, in order
    deleted,    \* how many of them, from the front, were deleted
    held,       \* how many of the rest are in flight
    daemon,     \* what batchConsume is doing
    next,       \* the position in accepted of the message to handle next
    last,       \* the position of the last message of the batch
    outq,       \* the out queue
    outHeld,    \* how many of its first messages are in flight
    waiter,     \* where the call of defferedResult for a command is
    flush,      \* where the flush at start is
    executed,   \* how often a command was executed
    faults      \* faults so far

inQueue == <<accepted, deleted, held>>
batch == <<daemon, next, last>>
outQueue == <<outq, outHeld>>
vars == <<inQueue, batch, outQueue, waiter, flush, executed, faults>>

Init ==
    /\ accepted = <<>> /\ deleted = 0 /\ held = 0
    /\ daemon = "receiving" /\ next = 1 /\ last = 0
    /\ outq = <<>> /\ outHeld = 0
    /\ waiter = [r \in Requests |-> "idle"]
    /\ flush = "timer"
    /\ executed = [r \in Requests |-> 0]
    /\ faults = 0

\* A step that takes a fault from the budget.
Faulty == faults < MaxFaults /\ faults' = faults + 1
Flawless == UNCHANGED faults

Least(a, b) == IF a <= b THEN a ELSE b
From(s, n) == SubSeq(s, n + 1, Len(s))

-----------------------------------------------------------------------------
\* The sending process.

\* send: the message is produced, and its UUID is what the caller waits for.
Send(r) ==
    /\ waiter[r] = "idle"
    /\ accepted' = Append(accepted, r)
    /\ waiter' = [waiter EXCEPT ![r] = "waiting"]
    /\ Flawless
    /\ UNCHANGED <<deleted, held, batch, outQueue, flush, executed>>

\* send fails and returns null, after the queue took the message or without.
\* defferedResult does not look at it and waits for the UUID null.
SendFails(r) ==
    /\ waiter[r] = "idle"
    /\ \/ accepted' = accepted
       \/ accepted' = Append(accepted, r)
    /\ waiter' = [waiter EXCEPT ![r] = "deaf"]
    /\ Faulty
    /\ UNCHANGED <<deleted, held, batch, outQueue, flush, executed>>

\* A poll for answers: something is at the front and not in flight.
Visible == outHeld = 0 /\ outq # <<>>

\* consumeByCommandUuid receives the answer with its own UUID.
ReceiveOwnFault(r) ==       \* the UUID is not compared
    /\ waiter[r] = "waiting" /\ Visible
    /\ waiter' = [waiter EXCEPT ![r] = "taking"]
    /\ outHeld' = 1
    /\ Flawless
    /\ UNCHANGED <<inQueue, batch, outq, flush, executed>>

ReceiveOwn(r) ==
    /\ waiter[r] = "waiting" /\ Visible /\ Head(outq) = r
    /\ waiter' = [waiter EXCEPT ![r] = "taking"]
    /\ outHeld' = 1
    /\ Flawless
    /\ UNCHANGED <<inQueue, batch, outq, flush, executed>>

\* It receives the answer of another command: the message stays in flight and
\* the loop goes on.
ReceiveOtherFault(r) ==     \* the message is deleted before it is compared
    /\ waiter[r] \in {"waiting", "deaf"} /\ Visible
    /\ waiter[r] = "waiting" => Head(outq) # r
    /\ outq' = Tail(outq)
    /\ Flawless
    /\ UNCHANGED <<inQueue, batch, outHeld, waiter, flush, executed>>

ReceiveOther(r) ==
    /\ waiter[r] \in {"waiting", "deaf"} /\ Visible
    /\ waiter[r] = "waiting" => Head(outq) # r
    /\ outHeld' = 1
    /\ Flawless
    /\ UNCHANGED <<inQueue, batch, outq, waiter, flush, executed>>

\* It deletes the answer and returns the result of the callback.
DeleteOwn(r) ==
    /\ waiter[r] = "taking"
    /\ outq' = Tail(outq) /\ outHeld' = 0
    /\ waiter' = [waiter EXCEPT ![r] = "returned"]
    /\ Flawless
    /\ UNCHANGED <<inQueue, batch, flush, executed>>

\* The receipt has timed out: SQS refuses to delete, and null is returned.
DeleteLate(r) ==
    /\ waiter[r] = "late"
    /\ waiter' = [waiter EXCEPT ![r] = "failed"]
    /\ Flawless
    /\ UNCHANGED <<inQueue, batch, outQueue, flush, executed>>

\* A call of SQS fails: the loop is left and null is returned.
PollFails(r) ==
    /\ waiter[r] \in {"waiting", "deaf", "taking"}
    /\ waiter' = [waiter EXCEPT ![r] = "failed"]
    /\ Faulty
    /\ UNCHANGED <<inQueue, batch, outQueue, flush, executed>>

-----------------------------------------------------------------------------
\* The matching daemon.

\* batchConsume receives some of the messages at the front.
ReceiveFullFault ==         \* it waits until a whole batch is there
    /\ daemon = "receiving" /\ held = 0
    /\ deleted + BatchSize <= Len(accepted)
    /\ held' = BatchSize /\ next' = deleted + 1 /\ last' = deleted + BatchSize
    /\ daemon' = "executing"
    /\ Flawless
    /\ UNCHANGED <<accepted, deleted, outQueue, waiter, flush, executed>>

ReceiveDeletesFault ==      \* messages are deleted before they are executed
    /\ daemon = "receiving" /\ held = 0
    /\ \E n \in 1 .. Least(BatchSize, Len(accepted) - deleted) :
          /\ deleted' = deleted + n
          /\ next' = deleted + 1 /\ last' = deleted + n
    /\ daemon' = "executing"
    /\ Flawless
    /\ UNCHANGED <<accepted, held, outQueue, waiter, flush, executed>>

ReceiveUnorderedFault ==    \* the batch need not begin at the front
    /\ daemon = "receiving" /\ held = 0 /\ deleted < Len(accepted)
    /\ \E i \in deleted + 1 .. Len(accepted) :
          /\ next' = i /\ last' = i /\ held' = 1
    /\ daemon' = "executing"
    /\ Flawless
    /\ UNCHANGED <<accepted, deleted, outQueue, waiter, flush, executed>>

Receive ==
    /\ daemon = "receiving" /\ held = 0
    /\ \E n \in 1 .. Least(BatchSize, Len(accepted) - deleted) :
          /\ held' = n
          /\ next' = deleted + 1 /\ last' = deleted + n
    /\ daemon' = "executing"
    /\ Flawless
    /\ UNCHANGED <<accepted, deleted, outQueue, waiter, flush, executed>>

\* The next command of the batch is executed and its transaction ends.
Execute ==
    /\ daemon = "executing"
    /\ executed' = [executed EXCEPT ![accepted[next]] = @ + 1]
    /\ daemon' = "answering"
    /\ Flawless
    /\ UNCHANGED <<inQueue, next, last, outQueue, waiter, flush>>

\* What follows a command that was answered.
AfterAnswer ==
    /\ next' = next + 1
    /\ daemon' = IF next < last THEN "executing" ELSE "deleting"

\* Its result is produced to the out queue, which drops it when it equals the
\* result of an earlier execution (content based deduplication).
AnswerLastFault ==          \* the callback answers once for the whole batch
    /\ daemon = "answering" /\ AfterAnswer
    /\ outq' = IF next = last THEN Append(outq, accepted[next]) ELSE outq
    /\ Flawless
    /\ UNCHANGED <<inQueue, last, outHeld, waiter, flush, executed>>

Answer ==
    /\ daemon = "answering" /\ AfterAnswer
    /\ \/ outq' = Append(outq, accepted[next])
       \/ executed[accepted[next]] > 1 /\ outq' = outq
    /\ Flawless
    /\ UNCHANGED <<inQueue, last, outHeld, waiter, flush, executed>>

\* produce fails and returns null, which the daemon does not look at.
AnswerFails ==
    /\ daemon = "answering" /\ AfterAnswer
    /\ Faulty
    /\ UNCHANGED <<inQueue, last, outQueue, waiter, flush, executed>>

DeleteFirstFault ==         \* only the first message of the batch
    /\ daemon = "deleting"
    /\ deleted' = deleted + Least(1, held) /\ held' = 0
    /\ daemon' = "receiving"
    /\ Flawless
    /\ UNCHANGED <<accepted, next, last, outQueue, waiter, flush, executed>>

\* The batch is deleted, as far as its receipts have not timed out.
DeleteBatch ==
    /\ daemon = "deleting"
    /\ deleted' = deleted + held /\ held' = 0
    /\ daemon' = "receiving"
    /\ Flawless
    /\ UNCHANGED <<accepted, next, last, outQueue, waiter, flush, executed>>

\* A call of SQS or the query for the user throws: batchConsume catches it
\* outside its loop and returns.  Nothing calls it again.
DaemonStops ==
    /\ daemon \in {"receiving", "executing", "deleting"}
    /\ daemon' = "stopped"
    /\ Faulty
    /\ UNCHANGED <<inQueue, next, last, outQueue, waiter, flush, executed>>

-----------------------------------------------------------------------------
\* The flush of the out queue, one second after the daemon's process started:
\* flush receives and deletes once, then consume once more with a callback that
\* returns nothing, so that the retry at line 71 is never taken.

FlushReceive ==
    /\ \/ flush = "timer" /\ flush' = "flushing"
          /\ \E n \in 1 .. Least(FlushSize, Len(outq)) : outHeld' = n
       \/ flush = "check" /\ flush' = "checking"
          /\ outHeld' = 1
    /\ Visible
    /\ Flawless
    /\ UNCHANGED <<inQueue, batch, outq, waiter, executed>>

FlushFollower == IF flush \in {"timer", "flushing", "flushLate"}
                 THEN "check" ELSE "done"

FlushDelete ==
    /\ flush \in {"flushing", "checking"}
    /\ outq' = From(outq, outHeld) /\ outHeld' = 0
    /\ flush' = FlushFollower
    /\ Flawless
    /\ UNCHANGED <<inQueue, batch, waiter, executed>>

\* Nothing can be received, or the receipts have timed out.
FlushNothing ==
    /\ \/ flush \in {"timer", "check"} /\ ~Visible
       \/ flush \in {"flushLate", "checkLate"}
    /\ flush' = FlushFollower
    /\ Flawless
    /\ UNCHANGED <<inQueue, batch, outQueue, waiter, executed>>

\* A call of SQS fails.
FlushFails ==
    /\ flush # "done"
    /\ flush' = FlushFollower
    /\ Faulty
    /\ UNCHANGED <<inQueue, batch, outQueue, waiter, executed>>

-----------------------------------------------------------------------------
\* Time and crashes.

\* After a crash or an exception, the visibility timeout brings the messages of
\* the batch back.
InTimeout ==
    /\ held > 0 /\ daemon \in {"receiving", "stopped"}
    /\ held' = 0
    /\ Flawless
    /\ UNCHANGED <<accepted, deleted, batch, outQueue, waiter, flush, executed>>

\* The daemon works on a batch for longer than the visibility timeout.
BatchTimeout ==
    /\ held > 0 /\ daemon \in {"executing", "answering", "deleting"}
    /\ held' = 0
    /\ Faulty
    /\ UNCHANGED <<accepted, deleted, batch, outQueue, waiter, flush, executed>>

\* An answer that was received by a request it is not for, or by one that
\* failed or died, comes back with the visibility timeout.
OutTimeout ==
    /\ outHeld > 0
    /\ flush \notin {"flushing", "checking"}
    /\ \A r \in Requests : waiter[r] # "taking"
    /\ outHeld' = 0
    /\ Flawless
    /\ UNCHANGED <<inQueue, batch, outq, waiter, flush, executed>>

\* The receipt of one who is about to delete an answer times out.
ReceiptTimeout ==
    /\ outHeld > 0
    /\ flush \in {"flushing", "checking"} \/ \E r \in Requests : waiter[r] = "taking"
    /\ outHeld' = 0
    /\ waiter' = [r \in Requests |->
                     IF waiter[r] = "taking" THEN "late" ELSE waiter[r]]
    /\ flush' = CASE flush = "flushing" -> "flushLate"
                  [] flush = "checking" -> "checkLate"
                  [] OTHER -> flush
    /\ Faulty
    /\ UNCHANGED <<inQueue, batch, outq, executed>>

Lost(rs) ==
    [r \in Requests |->
        IF r \in rs /\ waiter[r] \notin {"idle", "returned", "failed"}
        THEN "gone" ELSE waiter[r]]

\* The app process dies and is started again: the daemon, the flush and the
\* waiting requests were its memory.
AppCrash ==
    /\ Faulty
    /\ daemon' = "receiving" /\ next' = 1 /\ last' = 0
    /\ flush' = "timer"
    /\ waiter' = Lost(AppRequests)
    /\ UNCHANGED <<inQueue, outQueue, executed>>

\* The administration process dies and is started again.
AdminCrash ==
    /\ Faulty
    /\ waiter' = Lost(Requests \ AppRequests)
    /\ UNCHANGED <<inQueue, batch, outQueue, flush, executed>>

Next ==
    \/ \E r \in Requests :
          \/ Send(r) \/ SendFails(r)
          \/ ReceiveOwn(r) \/ ReceiveOther(r)
          \/ DeleteOwn(r) \/ DeleteLate(r) \/ PollFails(r)
    \/ Receive \/ Execute \/ Answer \/ AnswerFails \/ DeleteBatch \/ DaemonStops
    \/ FlushReceive \/ FlushDelete \/ FlushNothing \/ FlushFails
    \/ InTimeout \/ BatchTimeout \/ OutTimeout \/ ReceiptTimeout
    \/ AppCrash \/ AdminCrash

\* The loops go on as long as the process lives, timers fire, and a request that
\* polls again and again is not always beaten to the message it waits for.
Fairness ==
    /\ WF_vars(Receive) /\ WF_vars(Execute)
    /\ WF_vars(Answer) /\ WF_vars(DeleteBatch)
    /\ WF_vars(FlushReceive) /\ WF_vars(FlushDelete) /\ WF_vars(FlushNothing)
    /\ WF_vars(InTimeout) /\ WF_vars(OutTimeout)
    /\ \A r \in Requests :
          SF_vars(ReceiveOwn(r)) /\ WF_vars(DeleteOwn(r)) /\ WF_vars(DeleteLate(r))

Spec == Init /\ [][Next]_vars
FairSpec == Spec /\ Fairness

-----------------------------------------------------------------------------
\* Properties.

\* The commands, queues and loops have their types; the queue never deletes
\* more than it accepted and holds no more than is left.
TypeOK ==
    /\ accepted \in Seq(Requests)
    /\ deleted \in Nat /\ held \in Nat /\ deleted + held <= Len(accepted)
    /\ daemon \in {"receiving", "executing", "answering", "deleting", "stopped"}
    /\ next \in Nat /\ last \in Nat /\ last <= Len(accepted)
    /\ outq \in Seq(Requests)
    /\ outHeld \in Nat /\ outHeld <= Len(outq)
    /\ waiter \in [Requests -> {"idle", "waiting", "deaf", "taking", "late",
                                "returned", "failed", "gone"}]
    /\ flush \in {"timer", "flushing", "flushLate", "check", "checking",
                  "checkLate", "done"}
    /\ executed \in [Requests -> Nat]
    /\ faults \in Nat

Executed == {r \in Requests : executed[r] > 0}

\* A command that the queue accepted is still in the queue or was executed:
\* batchConsume deletes only after its callback, so neither a crash nor an
\* exception in the middle of a batch loses a command.
NothingIsLost ==
    \A i \in 1 .. deleted : accepted[i] \in Executed

\* A command is executed again only because of a fault: a crash, a failed
\* deletion or a batch that took longer than the visibility timeout.
RepeatsNeedFaults == \A r \in Requests : executed[r] <= 1 + faults

\* Only an executed command has an answer, and a request gets none but its own.
AnswersFollowExecution ==
    /\ \A i \in DOMAIN outq : outq[i] \in Executed
    /\ \A r \in Requests : waiter[r] \in {"taking", "late", "returned"}
                              => r \in Executed

\* An answer leaves the queue to the request it is for, or to the flush:
\* consumeByCommandUuid leaves what it receives for others in the queue.
AnswersLeaveToTheirRequest ==
    [][Len(outq') < Len(outq) =>
          \/ flush \in {"flushing", "checking"} /\ flush' # flush
          \/ /\ waiter[Head(outq)] = "taking"
             /\ waiter'[Head(outq)] = "returned"
             /\ outq' = Tail(outq)]_vars

\* The daemon executes the accepted commands in their order, each at least once.
Log == INSTANCE CommandLog WITH ran <- Executed
ImplementsLog == Log!LogSpec

InQueue(r) == \E i \in deleted + 1 .. Len(accepted) : accepted[i] = r

\* A command in the queue is executed, whatever crashes and timeouts come
\* before, unless the loop of the daemon has ended with an exception.
EveryCommandIsExecuted ==
    \A r \in Requests :
        InQueue(r) ~> (r \in Executed \/ daemon = "stopped")

\* While nothing fails, a request that is sent after the flush gets its answer,
\* although any other request may receive that answer first.
EveryAnswerIsTaken ==
    \A r \in Requests :
        (waiter[r] = "waiting" /\ InQueue(r) /\ r \notin Executed
            /\ flush = "done" /\ faults = 0)
        ~> (waiter[r] = "returned" \/ faults > 0)

=============================================================================
