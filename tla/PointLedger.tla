---------------------------- MODULE PointLedger ----------------------------
(* The points of one user: payments, outflows and prompts of the app process, *)
(* settlements of the administration process.  Each process has a pool of     *)
(* database connections.  A handler that returns its connection with the      *)
(* transaction open leaves the work on it: the next START TRANSACTION on that *)
(* connection commits it, the death of the process rolls it back, and until   *)
(* then the rows it wrote are locked for all others.                          *)
EXTENDS Integers, FiniteSets, Sums

CONSTANTS
    AppConns, AdminConns,   \* the connections of the two pools
    Outflows, Payments, Prompts,
    Amount,                 \* originAmount, chargeAmount or price of each of them
    Opening,                \* the balance at the start
    MaxUpdates,             \* bound: calls of updateOutFlowStatus
    MaxCalls,               \* bound: calls of complete and cancel
    MaxCrashes              \* bound: deaths of a process

Conns == AppConns \cup AdminConns
Items == Outflows \cup Payments \cup Prompts

ASSUME LedgerAssumption ==
    /\ AppConns \cap AdminConns = {}
    /\ Outflows \cap Payments = {} /\ Prompts \cap (Outflows \cup Payments) = {}
    /\ IsFiniteSet(Items)   \* the rows of tables
    /\ {"account", "none"} \cap Items = {}
    /\ Amount \in [Items -> Nat \ {0}] /\ Opening \in Nat

VARIABLES
    db,         \* the tables as committed
    conn,       \* each connection: is a transaction open, and its uncommitted work
    task,       \* the handler that is using a connection, between two queries
    asked,      \* history: effects on outflows that were requested
    told,       \* history: the last status of an outflow reported as done
    unchecked,  \* history: was the balance ever lowered on no check, or a stale one
    budget      \* what is left of the bounds

vars == <<db, conn, task, asked, told, unchecked, budget>>

OutflowStatuses == {"PENDING", "PROGRESS", "CONFIRMED", "CANCELED"}
Account == "account"
Idle == [row |-> "none", to |-> "none", seen |-> 0]
Work(t) == [row |-> t.row, to |-> t.to]

(* What a connection holds: whether a transaction is open on it, the one      *)
(* piece of work a prompt or a settlement has left in it (each begins with a  *)
(* START TRANSACTION), and the payments that plain updates cancelled in it.   *)
NoWork == [row |-> "none", to |-> "none"]
Clean == [open |-> FALSE, work |-> NoWork, cancelled |-> {}]
Begun == [Clean EXCEPT !.open = TRUE]

(* The effect of one piece of work on the tables: the new status of an        *)
(* outflow with its payout row or its refund, a cancelled payment, a prompt.  *)
Move(d, delta) == [d EXCEPT !.balance = @ + delta, !.rows = @ + delta]
WithStatus(d, w) == [d EXCEPT !.status[w.row] = w.to]
ApplyUnpaidFault(d, w) ==   \* the payout row is forgotten
    IF w.row \in Prompts THEN Move([d EXCEPT !.charged = @ \cup {w.row}], -Amount[w.row])
    ELSE IF w.row \in Outflows /\ w.to = "CANCELED"
    THEN Move([WithStatus(d, w) EXCEPT !.refunds[w.row] = @ + 1], Amount[w.row])
    ELSE WithStatus(d, w)
Apply(d, w) ==
    IF w.row \in Prompts THEN Move([d EXCEPT !.charged = @ \cup {w.row}], -Amount[w.row])
    ELSE CASE w.row \in Outflows /\ w.to = "CONFIRMED" ->
                 [WithStatus(d, w) EXCEPT !.payouts[w.row] = @ + 1]
           [] w.row \in Outflows /\ w.to = "CANCELED" ->
                 Move([WithStatus(d, w) EXCEPT !.refunds[w.row] = @ + 1], Amount[w.row])
           [] OTHER -> WithStatus(d, w)

Moves(w) == w.row \in Prompts \/ (w.row \in Outflows /\ w.to = "CANCELED")
Touched(w) == ({w.row} \ {NoWork.row}) \cup (IF Moves(w) THEN {Account} ELSE {})
Locked(c) == Touched(conn[c].work) \cup conn[c].cancelled
FreeFor(c, rows) == \A other \in Conns \ {c} : Locked(other) \cap rows = {}

(* START TRANSACTION commits what the connection still holds.                 *)
Cancelled(d, ps) ==
    [d EXCEPT !.status = [r \in DOMAIN @ |-> IF r \in ps THEN "CANCELED" ELSE @[r]]]
Flushed(c) ==
    Cancelled(IF conn[c].work = NoWork THEN db ELSE Apply(db, conn[c].work),
              conn[c].cancelled)

Init ==
    /\ db = [balance |-> Opening, rows |-> 0, charged |-> {},
             status |-> [r \in Outflows \cup Payments |-> "NONE"],
             payouts |-> [o \in Outflows |-> 0], refunds |-> [o \in Outflows |-> 0],
             credits |-> [p \in Payments |-> 0]]
    /\ conn = [c \in Conns |-> Clean]
    /\ task = [c \in Conns |-> Idle]
    /\ asked = [o \in Outflows |-> 0]
    /\ told = [o \in Outflows |-> "NONE"]
    /\ unchecked = FALSE
    /\ budget = [updates |-> MaxUpdates, calls |-> MaxCalls, crashes |-> MaxCrashes]

----------------------------------------------------------------------------
(* Outflows, requested by the user: the row, the withdrawal and its history   *)
(* in one transaction, without a look at the balance.                         *)

Requested(o) == [row |-> o, to |-> "PENDING"]

CreateOutflow(c, o) ==
    LET d == Flushed(c) IN
    /\ task[c] = Idle /\ d.status[o] = "NONE" /\ FreeFor(c, {Account})
    /\ db' = Move(WithStatus(d, Requested(o)), -Amount[o])
    /\ conn' = [conn EXCEPT ![c] = Clean]
    /\ unchecked' = TRUE
    /\ UNCHANGED <<task, asked, told, budget>>

----------------------------------------------------------------------------
(* Payments.  complete does not look at the status of the row nor at the      *)
(* result of the deposit.                                                     *)

Prepared(p) == [row |-> p, to |-> "READY"]

PreparePayment(c, p) ==
    LET d == Flushed(c) IN
    /\ task[c] = Idle /\ d.status[p] = "NONE"
    /\ db' = WithStatus(d, Prepared(p))
    /\ conn' = [conn EXCEPT ![c] = Clean]
    /\ UNCHANGED <<task, asked, told, unchecked, budget>>

Call == budget.calls > 0 /\ budget' = [budget EXCEPT !.calls = @ - 1]

DepositedFault(d, p) ==   \* without its history row
    [d EXCEPT !.credits[p] = @ + 1, !.balance = @ + Amount[p]]
Deposited(d, p) == Move([d EXCEPT !.credits[p] = @ + 1], Amount[p])

CompletePayment(c, p) ==
    LET d == Flushed(c)  paid == WithStatus(d, [row |-> p, to |-> "PAID"]) IN
    /\ task[c] = Idle /\ d.status[p] # "NONE" /\ Call
    /\ FreeFor(c, {p})
    \* the deposit gives up when the account stays locked, and is not looked at
    /\ db' = IF FreeFor(c, {Account}) THEN Deposited(paid, p) ELSE paid
    /\ conn' = [conn EXCEPT ![c] = Clean]
    /\ UNCHANGED <<task, asked, told, unchecked>>

(* A payment row that stays locked is an exception and a rollback: what is    *)
(* left is OtherTransaction, as it is for an outflow whose account is locked. *)

(* An unknown merchantUid: returns with the transaction open.                 *)
CompleteUnknown(c) ==
    /\ task[c] = Idle /\ Call
    /\ db' = Flushed(c)
    /\ conn' = [conn EXCEPT ![c] = Begun]
    /\ UNCHANGED <<task, asked, told, unchecked>>

(* The prices of the day: on a day without matches the batch returns with the *)
(* transaction open too, and commits with matches (OtherTransaction).         *)
BatchUpdateStockItemOpenPrice(c) ==
    /\ task[c] = Idle
    /\ db' = Flushed(c)
    /\ conn' = [conn EXCEPT ![c] = Begun]
    /\ UNCHANGED <<task, asked, told, unchecked, budget>>

(* A plain update: committed at once unless a transaction was left open here. *)
CancelPayment(c, p) ==
    /\ task[c] = Idle /\ db.status[p] # "NONE" /\ FreeFor(c, {p}) /\ Call
    /\ IF conn[c].open
       THEN conn' = [conn EXCEPT ![c].cancelled = @ \cup {p}] /\ UNCHANGED db
       ELSE db' = Cancelled(db, {p}) /\ UNCHANGED conn
    /\ UNCHANGED <<task, asked, told, unchecked>>

----------------------------------------------------------------------------
(* Prompts: the balance is read, then charged; nothing commits.               *)

PromptCheckFault(c, q) ==   \* the balance is not looked at
    /\ task[c] = Idle
    /\ \A other \in Conns : task[other].row # q /\ q \notin Locked(other)
    /\ q \notin Flushed(c).charged
    /\ db' = Flushed(c)
    /\ conn' = [conn EXCEPT ![c] = Begun]
    /\ task' = [task EXCEPT ![c] = [row |-> q, to |-> "charge", seen |-> db'.balance]]
    /\ UNCHANGED <<asked, told, unchecked, budget>>

PromptCheck(c, q) ==
    LET d == Flushed(c) IN
    /\ task[c] = Idle
    /\ \A other \in Conns : task[other].row # q /\ q \notin Locked(other)
    /\ q \notin d.charged
    /\ db' = d
    /\ conn' = [conn EXCEPT ![c] = Begun]
    /\ task' = IF d.balance < Amount[q] THEN task
               ELSE [task EXCEPT ![c] = [row |-> q, to |-> "charge", seen |-> d.balance]]
    /\ UNCHANGED <<asked, told, unchecked, budget>>

PromptCharge(c) ==
    /\ task[c].row \in Prompts /\ FreeFor(c, {Account})
    /\ conn' = [conn EXCEPT ![c].work = Work(task[c])]
    /\ task' = [task EXCEPT ![c] = Idle]
    /\ unchecked' = (unchecked \/ db.balance < task[c].seen)
    /\ UNCHANGED <<db, asked, told, budget>>

(* The wait for the account ends: refused, the empty transaction stays open.  *)
PromptTimesOut(c) ==
    /\ task[c].row \in Prompts /\ ~FreeFor(c, {Account})
    /\ task' = [task EXCEPT ![c] = Idle]
    /\ UNCHANGED <<db, conn, asked, told, unchecked, budget>>

----------------------------------------------------------------------------
(* Settlements: the administration reads an outflow, decides by what it has   *)
(* read, writes, and returns its connection without a commit.                 *)

Decided(seen, to) == seen # to /\ ~(to = "CANCELED" /\ seen = "CONFIRMED")

UpdateCheck(c, o, to) ==
    LET d == Flushed(c) IN
    /\ task[c] = Idle /\ d.status[o] # "NONE" /\ budget.updates > 0
    /\ budget' = [budget EXCEPT !.updates = @ - 1]
    /\ db' = d
    /\ conn' = [conn EXCEPT ![c] = Begun]
    /\ task' = IF Decided(d.status[o], to)
               THEN [task EXCEPT ![c] = [row |-> o, to |-> to, seen |-> 0]] ELSE task
    /\ UNCHANGED <<asked, told, unchecked>>

(* What the administrator is shown and, if confirmed, the user gets a mail of. *)
Reported(w) == told' = [told EXCEPT ![w.row] = w.to]

UpdateWrite(c) ==
    LET w == Work(task[c]) IN
    /\ w.row \in Outflows /\ FreeFor(c, Touched(w))
    /\ conn' = [conn EXCEPT ![c].work = w]
    /\ task' = [task EXCEPT ![c] = Idle]
    /\ asked' = [asked EXCEPT ![w.row] = @ + 1]
    /\ Reported(w)
    /\ UNCHANGED <<db, unchecked, budget>>

UpdateTimesOutFault(c) == FALSE   \* nothing ends the wait

(* A row stays locked: the exception rolls the transaction back.              *)
UpdateTimesOut(c) ==
    /\ task[c].row \in Outflows /\ ~FreeFor(c, Touched(task[c]))
    /\ task' = [task EXCEPT ![c] = Idle]
    /\ conn' = [conn EXCEPT ![c] = Clean]
    /\ UNCHANGED <<db, asked, told, unchecked, budget>>

----------------------------------------------------------------------------
(* Any other transaction of the process, and the death of a process.          *)

OtherTransaction(c) ==
    /\ task[c] = Idle /\ conn[c].open
    /\ db' = Flushed(c)
    /\ conn' = [conn EXCEPT ![c] = Clean]
    /\ UNCHANGED <<task, asked, told, unchecked, budget>>

Crash(pool) ==
    /\ budget.crashes > 0 /\ budget' = [budget EXCEPT !.crashes = @ - 1]
    /\ conn' = [c \in Conns |-> IF c \in pool THEN Clean ELSE conn[c]]
    /\ task' = [c \in Conns |-> IF c \in pool THEN Idle ELSE task[c]]
    /\ UNCHANGED <<db, asked, told, unchecked>>

Next ==
    \/ \E c \in AppConns :
         \/ \E o \in Outflows : CreateOutflow(c, o)
         \/ \E p \in Payments : PreparePayment(c, p) \/ CompletePayment(c, p) \/ CancelPayment(c, p)
         \/ \E q \in Prompts : PromptCheck(c, q)
         \/ CompleteUnknown(c) \/ BatchUpdateStockItemOpenPrice(c)
         \/ PromptCharge(c) \/ PromptTimesOut(c)
    \/ \E c \in AdminConns :
         \/ \E o \in Outflows, to \in OutflowStatuses : UpdateCheck(c, o, to)
         \/ UpdateWrite(c) \/ UpdateTimesOut(c)
    \/ \E c \in Conns : OtherTransaction(c)
    \/ Crash(AppConns) \/ Crash(AdminConns)

Spec == Init /\ [][Next]_vars

(* The event loop runs what can run, and the database ends a wait for a lock. *)
Fairness ==
    /\ \A c \in AppConns : WF_vars(PromptCharge(c) \/ PromptTimesOut(c))
    /\ \A c \in AdminConns : WF_vars(UpdateWrite(c) \/ UpdateTimesOut(c))
FairSpec == Spec /\ Fairness

----------------------------------------------------------------------------
(* Properties                                                                 *)

(* Every variable has its type; a connection without an open transaction      *)
(* holds nothing, and a handler that is between two queries is in a           *)
(* transaction it opened itself, which holds nothing yet.                     *)
Tables ==
    [balance : Int, rows : Int, charged : SUBSET Prompts,
     status : [Outflows \cup Payments -> OutflowStatuses \cup {"NONE", "READY", "PAID"}],
     payouts : [Outflows -> Nat], refunds : [Outflows -> Nat], credits : [Payments -> Nat]]
Works == [row : Prompts, to : {"charge"}] \cup [row : Outflows, to : OutflowStatuses]
Held == [open : BOOLEAN, work : Works \cup {NoWork}, cancelled : SUBSET Payments]
Handlers == {Idle} \cup [row : Prompts, to : {"charge"}, seen : Int]
                   \cup [row : Outflows, to : OutflowStatuses, seen : {0}]
TypeOK ==
    /\ db \in Tables /\ conn \in [Conns -> Held] /\ task \in [Conns -> Handlers]
    /\ \A c \in Conns :
         /\ ~conn[c].open => conn[c] = Clean
         /\ task[c] # Idle => conn[c] = Begun
    /\ asked \in [Outflows -> Nat] /\ unchecked \in BOOLEAN
    /\ told \in [Outflows -> OutflowStatuses \cup {"NONE"}]

(* The balance is what the account history says, and each of its rows has its *)
(* cause: a credited payment, an outflow, a refund or a prompt.  Holds in the *)
(* committed tables whatever is left open on a connection or lost with it.    *)
LedgerBalanced ==
    /\ db.balance = Opening + db.rows
    /\ db.rows = SumOver(Payments, [p \in Payments |-> db.credits[p] * Amount[p]])
                 - SumOver({o \in Outflows : db.status[o] # "NONE"}, Amount)
                 + SumOver(Outflows, [o \in Outflows |-> db.refunds[o] * Amount[o]])
                 - SumOver(db.charged, Amount)

(* Points go below zero only by an outflow, which is not checked, or by a     *)
(* prompt whose balance sank between the check and the charge.                *)
OverdrawnOnlyUnchecked == db.balance < 0 => unchecked

(* A settlement takes effect at most once for each time it was ordered, on    *)
(* whichever connection its work was left and whenever that is committed; and *)
(* a status is never committed without its effect: a confirmed outflow has a  *)
(* payout row and a cancelled one was refunded.                               *)
Pending(o) == {c \in AdminConns : /\ conn[c].work.row = o
                                 /\ conn[c].work.to \in {"CONFIRMED", "CANCELED"}}
EffectsAsAsked ==
    \A o \in Outflows : db.payouts[o] + db.refunds[o] + Cardinality(Pending(o)) <= asked[o]

StatusHasItsEffect ==
    \A o \in Outflows :
        /\ db.status[o] = "CONFIRMED" => db.payouts[o] > 0
        /\ db.status[o] = "CANCELED" => db.refunds[o] > 0
SettledAsAsked == EffectsAsAsked /\ StatusHasItsEffect

(* A handler that waits for a row another connection left locked returns: no  *)
(* request hangs although nothing unlocks the row.                            *)
HandlersReturn == \A c \in Conns : task[c] # Idle ~> task[c] = Idle

============================================================================
