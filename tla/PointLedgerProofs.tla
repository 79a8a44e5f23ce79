------------------------- MODULE PointLedgerProofs -------------------------
(***************************************************************************)
(* Theorems about money.  PointLedger, for any connections, outflows,      *)
(* payments and prompts: the account agrees with its history, points go    *)
(* below zero only unchecked, and settlements take effect as often as they *)
(* were asked for.  Profits, for any users, calendar, amounts and number   *)
(* of sales: what sellers and holders are told to have earned is what was  *)
(* sold, and the charts agree with the totals.                             *)
(***************************************************************************)
EXTENDS PointLedger, Profits, TableLemmas, FiniteSetTheorems, TLAPS

----------------------------------------------------------------------------
(* The tables                                                               *)

Statuses == OutflowStatuses \cup {"NONE", "READY", "PAID"}

\* The fields two states of the tables must share for the account to be in
\* the same balance with what caused it.
SameAccount(d, e) ==
    /\ e.balance = d.balance /\ e.rows = d.rows /\ e.charged = d.charged
    /\ e.payouts = d.payouts /\ e.refunds = d.refunds /\ e.credits = d.credits

\* A new status changes that row only.
LEMMA StatusWritten ==
    ASSUME NEW d \in Tables, NEW r \in Outflows \cup Payments, NEW s \in Statuses,
           NEW w, w.row = r, w.to = s
    PROVE  /\ WithStatus(d, w) \in Tables
           /\ SameAccount(d, WithStatus(d, w))
           /\ WithStatus(d, w).status = [d.status EXCEPT ![r] = s]
  BY DEF Tables, Statuses, SameAccount, WithStatus

\* A movement changes the balance and adds its history row.
LEMMA Moved ==
    ASSUME NEW d \in Tables, NEW n \in Int
    PROVE  /\ Move(d, n) \in Tables
           /\ Move(d, n).balance = d.balance + n
           /\ Move(d, n).rows = d.rows + n
           /\ Move(d, n).charged = d.charged /\ Move(d, n).status = d.status
           /\ Move(d, n).payouts = d.payouts /\ Move(d, n).refunds = d.refunds
           /\ Move(d, n).credits = d.credits
  <1> DEFINE e == [d EXCEPT !.balance = @ + n]
  <1>1. /\ e \in Tables /\ e.balance = d.balance + n
        /\ e.rows = d.rows /\ e.charged = d.charged /\ e.status = d.status
        /\ e.payouts = d.payouts /\ e.refunds = d.refunds /\ e.credits = d.credits
    BY DEF Tables
  <1>2. Move(d, n) = [e EXCEPT !.rows = @ + n]
    BY DEF Move
  <1> HIDE DEF e
  <1> QED
    BY <1>1, <1>2 DEF Tables

\* Cancelled payments change the status of payments only.
LEMMA PaymentsCancelled ==
    ASSUME NEW d \in Tables, NEW ps \in SUBSET Payments
    PROVE  /\ Cancelled(d, ps) \in Tables
           /\ SameAccount(d, Cancelled(d, ps))
           /\ \A o \in Outflows : Cancelled(d, ps).status[o] = d.status[o]
  <1> DEFINE st == [r \in Outflows \cup Payments |->
                      IF r \in ps THEN "CANCELED" ELSE d.status[r]]
  <1>1. DOMAIN d.status = Outflows \cup Payments
    BY DEF Tables
  <1>2. Cancelled(d, ps) = [d EXCEPT !.status = st]
    BY <1>1 DEF Cancelled
  <1>3. st \in [Outflows \cup Payments -> Statuses]
    BY DEF Tables, Statuses, OutflowStatuses
  <1>4. \A o \in Outflows : st[o] = d.status[o]
    BY LedgerAssumption
  <1> HIDE DEF st
  <1> QED
    BY <1>2, <1>3, <1>4 DEF Tables, SameAccount, Statuses

\* What a piece of work adds to the balance.
Shift(w) == IF w.row \in Prompts THEN -Amount[w.row]
            ELSE IF w.row \in Outflows /\ w.to = "CANCELED" THEN Amount[w.row] ELSE 0

\* How often a piece of work settles the outflow o like that.
Times(w, o, to) == IF w = [row |-> o, to |-> to] THEN 1 ELSE 0

\* The tables e are the tables d after the piece of work w.
Follows(d, w, e) ==
    /\ e \in Tables
    /\ e.balance = d.balance + Shift(w) /\ e.rows = d.rows + Shift(w)
    /\ e.charged = d.charged \cup (IF w.row \in Prompts THEN {w.row} ELSE {})
    /\ \A o \in Outflows :
         /\ e.status[o] = (IF w.row = o THEN w.to ELSE d.status[o])
         /\ e.payouts[o] = d.payouts[o] + Times(w, o, "CONFIRMED")
         /\ e.refunds[o] = d.refunds[o] + Times(w, o, "CANCELED")
    /\ e.credits = d.credits

\* An amount is a positive number.
LEMMA AmountIsNat ==
    /\ \A i \in Items : Amount[i] \in Nat \ {0}
    /\ \A i \in Outflows \cup Payments \cup Prompts : Amount[i] \in Nat /\ -Amount[i] \in Int
  BY LedgerAssumption DEF Items

\* A prompt is not an outflow, and no item is named as no work is.
LEMMA RowsApart ==
    /\ \A q \in Prompts : q \notin Outflows /\ q \notin Payments
    /\ \A o \in Outflows : o \notin Payments
    /\ \A i \in Items : i # "none" /\ i # Account
    /\ Account # "none"
  BY LedgerAssumption DEF Items, Account

\* Apply does what Follows says, for a prompt and for a settlement.
LEMMA Applied ==
    ASSUME NEW d \in Tables, NEW w \in Works
    PROVE  Follows(d, w, Apply(d, w))
  <1>1. CASE w.row \in Prompts
    <2> DEFINE c == [d EXCEPT !.charged = @ \cup {w.row}]
    <2>1. /\ c \in Tables /\ c.charged = d.charged \cup {w.row}
          /\ c.balance = d.balance /\ c.rows = d.rows /\ c.status = d.status
          /\ c.payouts = d.payouts /\ c.refunds = d.refunds /\ c.credits = d.credits
      BY <1>1 DEF Tables
    <2>2. Apply(d, w) = Move(c, -Amount[w.row])
      BY <1>1 DEF Apply
    <2>3. -Amount[w.row] \in Int /\ w.row \notin Outflows
      BY <1>1, AmountIsNat, RowsApart
    <2>4. \A o \in Outflows : w.row # o /\ d.payouts[o] \in Nat /\ d.refunds[o] \in Nat
      BY <2>3 DEF Tables
    <2>5. \A o \in Outflows : Times(w, o, "CONFIRMED") = 0 /\ Times(w, o, "CANCELED") = 0
      BY <2>4 DEF Times
    <2>6. Shift(w) = -Amount[w.row]
      BY <1>1 DEF Shift
    <2> DEFINE e == Apply(d, w)
    <2> HIDE DEF c
    <2>7. /\ e \in Tables /\ e.balance = d.balance + Shift(w) /\ e.rows = d.rows + Shift(w)
          /\ e.charged = d.charged \cup {w.row} /\ e.status = d.status
          /\ e.payouts = d.payouts /\ e.refunds = d.refunds /\ e.credits = d.credits
      BY <2>1, <2>2, <2>3, <2>6, Moved
    <2> HIDE DEF e
    <2>8. \A o \in Outflows : /\ e.payouts[o] = d.payouts[o] + Times(w, o, "CONFIRMED")
                              /\ e.refunds[o] = d.refunds[o] + Times(w, o, "CANCELED")
                              /\ e.status[o] = (IF w.row = o THEN w.to ELSE d.status[o])
      BY <2>4, <2>5, <2>7
    <2>9. Follows(d, w, e)
      BY <1>1, <2>7, <2>8 DEF Follows
    <2> QED
      BY <2>9 DEF e
  <1>2. CASE w.row \in Outflows
    <2> DEFINE e == WithStatus(d, w)
    <2>1. /\ w.row \notin Prompts /\ w.to \in Statuses /\ Amount[w.row] \in Int
          /\ w = [row |-> w.row, to |-> w.to]
      BY <1>2, RowsApart, AmountIsNat DEF Works, Statuses
    <2>2. /\ e \in Tables /\ SameAccount(d, e)
          /\ e.status = [d.status EXCEPT ![w.row] = w.to]
      BY <1>2, <2>1, StatusWritten
    <2>3. \A o \in Outflows : /\ e.status[o] = (IF w.row = o THEN w.to ELSE d.status[o])
                              /\ d.payouts[o] \in Nat /\ d.refunds[o] \in Nat
      BY <2>2 DEF Tables
    <2> HIDE DEF e
    <2>4. CASE w.to = "CONFIRMED"
      <3>1. Apply(d, w) = [e EXCEPT !.payouts[w.row] = @ + 1]
        BY <1>2, <2>1, <2>4 DEF Apply, e
      <3>2. Apply(d, w) \in Tables
        BY <1>2, <2>2, <3>1 DEF Tables
      <3>3. Apply(d, w).payouts = [d.payouts EXCEPT ![w.row] = @ + 1]
        BY <2>2, <3>1 DEF Tables, SameAccount
      <3>4. /\ Apply(d, w).balance = d.balance /\ Apply(d, w).rows = d.rows
            /\ Apply(d, w).charged = d.charged /\ Apply(d, w).refunds = d.refunds
            /\ Apply(d, w).credits = d.credits /\ Apply(d, w).status = e.status
        BY <2>2, <3>1 DEF Tables, SameAccount
      <3>5. Shift(w) = 0 /\ d.balance \in Int /\ d.rows \in Int
        BY <2>1, <2>4 DEF Shift, Tables
      <3>6. \A o \in Outflows :
              /\ Apply(d, w).payouts[o] =
                    d.payouts[o] + Times(w, o, "CONFIRMED")
              /\ Times(w, o, "CANCELED") = 0
        BY <2>1, <2>3, <2>4, <3>3 DEF Tables, Times
      <3> QED
        BY <2>1, <2>3, <3>2, <3>4, <3>5, <3>6 DEF Follows
    <2>5. CASE w.to = "CANCELED"
      <3> DEFINE r == [e EXCEPT !.refunds[w.row] = @ + 1]
      <3>1. Apply(d, w) = Move(r, Amount[w.row])
        BY <1>2, <2>1, <2>5 DEF Apply, e
      <3>2. r \in Tables
        <4>1. e \in Tables /\ w.row \in Outflows
          BY <1>2, <2>2
        <4> HIDE DEF e
        <4> QED
          BY <4>1 DEF Tables
      <3>3. r.refunds = [d.refunds EXCEPT ![w.row] = @ + 1]
        BY <2>2 DEF Tables, SameAccount
      <3>4. /\ r.balance = d.balance /\ r.rows = d.rows
            /\ r.charged = d.charged /\ r.payouts = d.payouts
            /\ r.credits = d.credits /\ r.status = e.status
        BY <2>2 DEF Tables, SameAccount
      <3> HIDE DEF r
      <3>5. Shift(w) = Amount[w.row]
        BY <1>2, <2>1, <2>5 DEF Shift
      <3>6. \A o \in Outflows :
              /\ r.refunds[o] =
                    d.refunds[o] + Times(w, o, "CANCELED")
              /\ Times(w, o, "CONFIRMED") = 0
        BY <2>1, <2>3, <2>5, <3>3 DEF Tables, Times
      <3> DEFINE a == Apply(d, w)
      <3>7. /\ a \in Tables /\ a.balance = d.balance + Shift(w) /\ a.rows = d.rows + Shift(w)
            /\ a.charged = d.charged /\ a.status = e.status
            /\ a.payouts = d.payouts /\ a.refunds = r.refunds /\ a.credits = d.credits
        BY <2>1, <3>1, <3>2, <3>4, <3>5, Moved
      <3> HIDE DEF a
      <3>8. \A o \in Outflows : /\ a.payouts[o] = d.payouts[o] + Times(w, o, "CONFIRMED")
                                /\ a.refunds[o] = d.refunds[o] + Times(w, o, "CANCELED")
                                /\ a.status[o] = (IF w.row = o THEN w.to ELSE d.status[o])
        BY <2>3, <3>6, <3>7
      <3>9. a.charged = d.charged \cup (IF w.row \in Prompts THEN {w.row} ELSE {})
        BY <2>1, <3>7
      <3>10. Follows(d, w, a)
        BY <3>7, <3>8, <3>9 DEF Follows
      <3> QED
        BY <3>10 DEF a
    <2>6. CASE w.to \notin {"CONFIRMED", "CANCELED"}
      <3>1. Apply(d, w) = e
        BY <1>2, <2>1, <2>6 DEF Apply, e
      <3>2. Shift(w) = 0 /\ d.balance \in Int /\ d.rows \in Int
        BY <2>1, <2>6 DEF Shift, Tables
      <3>3. \A o \in Outflows : Times(w, o, "CONFIRMED") = 0 /\ Times(w, o, "CANCELED") = 0
        BY <2>6 DEF Times
      <3>4. e.charged = d.charged \cup (IF w.row \in Prompts THEN {w.row} ELSE {})
        BY <2>1, <2>2 DEF SameAccount
      <3>5. e.balance = d.balance + Shift(w) /\ e.rows = d.rows + Shift(w)
        BY <2>2, <3>2 DEF SameAccount
      <3>6. \A o \in Outflows : /\ e.payouts[o] = d.payouts[o] + Times(w, o, "CONFIRMED")
                                /\ e.refunds[o] = d.refunds[o] + Times(w, o, "CANCELED")
        BY <2>2, <2>3, <3>3 DEF SameAccount
      <3> QED
        BY <2>2, <2>3, <3>1, <3>4, <3>5, <3>6 DEF Follows, SameAccount
    <2> QED
      BY <2>4, <2>5, <2>6
  <1> QED
    BY <1>1, <1>2 DEF Works

\* START TRANSACTION commits the work of the connection.
LEMMA FlushFollows ==
    ASSUME TypeOK, NEW c \in Conns
    PROVE  Follows(db, conn[c].work, Flushed(c))
  <1> DEFINE w == conn[c].work
             e == IF w = NoWork THEN db ELSE Apply(db, w)
  <1>1. w \in Works \cup {NoWork} /\ conn[c].cancelled \in SUBSET Payments /\ db \in Tables
    BY DEF TypeOK, Held
  <1>2. Follows(db, w, e)
    <2>1. CASE w = NoWork
      <3>1. w.row = "none" /\ w.row \notin Prompts /\ \A o \in Outflows : w.row # o
        BY <2>1, RowsApart DEF NoWork, Items
      <3>2. \A o \in Outflows : Times(w, o, "CONFIRMED") = 0 /\ Times(w, o, "CANCELED") = 0
        BY <3>1 DEF Times
      <3>3. Shift(w) = 0
        BY <3>1 DEF Shift
      <3> QED
        BY <1>1, <2>1, <3>1, <3>2, <3>3 DEF Follows, Tables
    <2>2. CASE w # NoWork
      BY <1>1, <2>2, Applied
    <2> QED
      BY <2>1, <2>2
  <1>3. Flushed(c) = Cancelled(e, conn[c].cancelled)
    BY DEF Flushed
  <1>4. e \in Tables
    BY <1>2 DEF Follows
  <1> HIDE DEF e, w
  <1>5. /\ Flushed(c) \in Tables /\ SameAccount(e, Flushed(c))
        /\ \A o \in Outflows : Flushed(c).status[o] = e.status[o]
    BY <1>1, <1>3, <1>4, PaymentsCancelled
  <1>6. Follows(db, w, Flushed(c))
    BY <1>2, <1>5 DEF Follows, SameAccount
  <1> QED
    BY <1>6 DEF w

----------------------------------------------------------------------------
(* Types                                                                    *)

\* A deposit credits the payment and moves its amount.
LEMMA Deposits ==
    ASSUME NEW d \in Tables, NEW p \in Payments
    PROVE  /\ Deposited(d, p) \in Tables
           /\ Deposited(d, p).balance = d.balance + Amount[p]
           /\ Deposited(d, p).rows = d.rows + Amount[p]
           /\ Deposited(d, p).credits = [d.credits EXCEPT ![p] = @ + 1]
           /\ Deposited(d, p).charged = d.charged /\ Deposited(d, p).status = d.status
           /\ Deposited(d, p).payouts = d.payouts /\ Deposited(d, p).refunds = d.refunds
  <1> DEFINE e == [d EXCEPT !.credits[p] = @ + 1]
  <1>1. /\ e \in Tables /\ e.balance = d.balance /\ e.rows = d.rows
        /\ e.charged = d.charged /\ e.status = d.status
        /\ e.payouts = d.payouts /\ e.refunds = d.refunds
        /\ e.credits = [d.credits EXCEPT ![p] = @ + 1]
    BY DEF Tables
  <1>2. Amount[p] \in Int
    BY AmountIsNat
  <1>3. Deposited(d, p) = Move(e, Amount[p])
    BY DEF Deposited
  <1> HIDE DEF e
  <1> QED
    BY <1>1, <1>2, <1>3, Moved

\* A request takes the outflow's amount and leaves it pending.
LEMMA Requests ==
    ASSUME NEW d \in Tables, NEW o \in Outflows, NEW e,
           e = Move(WithStatus(d, Requested(o)), -Amount[o])
    PROVE  /\ e \in Tables
           /\ e.balance = d.balance - Amount[o] /\ e.rows = d.rows - Amount[o]
           /\ e.status = [d.status EXCEPT ![o] = "PENDING"]
           /\ e.charged = d.charged /\ e.credits = d.credits
           /\ e.payouts = d.payouts /\ e.refunds = d.refunds
  <1> DEFINE s == WithStatus(d, Requested(o))
  <1>1. Requested(o).row = o /\ Requested(o).to = "PENDING" /\ "PENDING" \in Statuses
    BY DEF Requested, Statuses, OutflowStatuses
  <1>2. /\ s \in Tables /\ SameAccount(d, s)
        /\ s.status = [d.status EXCEPT ![o] = "PENDING"]
    BY <1>1, StatusWritten
  <1>3. -Amount[o] \in Int /\ Amount[o] \in Nat /\ d.balance \in Int /\ d.rows \in Int
    BY AmountIsNat DEF Tables
  <1> DEFINE n == -Amount[o]
  <1>4. e = Move(s, n) /\ n \in Int
    BY <1>3
  <1> HIDE DEF s, n
  <1>5. /\ e \in Tables /\ e.status = s.status
        /\ e.balance = s.balance + n /\ e.rows = s.rows + n
        /\ e.charged = s.charged /\ e.credits = s.credits
        /\ e.payouts = s.payouts /\ e.refunds = s.refunds
    BY <1>2, <1>4, Moved
  <1> QED
    BY <1>2, <1>3, <1>5 DEF SameAccount, n

\* The part of the type invariant about the connections and their handlers.
ConnsOK ==
    /\ conn \in [Conns -> Held] /\ task \in [Conns -> Handlers]
    /\ \A c \in Conns :
         /\ ~conn[c].open => conn[c] = Clean
         /\ task[c] # Idle => conn[c] = Begun

\* A connection on which nothing is done yet is well formed.
LEMMA FreshHeld == /\ Clean \in Held /\ Begun \in Held
                   /\ ~Clean.open /\ Begun.open
                   /\ Clean.work = NoWork /\ Begun.work = NoWork
                   /\ Clean.cancelled = {} /\ Begun.cancelled = {}
  BY DEF Clean, Begun, Held

\* A handler that begins and ends in one query leaves the connection clean or
\* with an empty transaction.
Begins(c) == task[c] = Idle /\ task' = task /\ \E k \in {Clean, Begun} : conn' = [conn EXCEPT ![c] = k]

\* A handler that begins and goes on after its first query.
Starts(c, t) == task' = [task EXCEPT ![c] = t] /\ conn' = [conn EXCEPT ![c] = Begun]

\* Either keeps the connections well formed.
LEMMA BeginTyped ==
    ASSUME TypeOK, NEW c \in Conns, Begins(c) \/ \E t \in Handlers : Starts(c, t)
    PROVE  ConnsOK'
  BY FreshHeld DEF TypeOK, ConnsOK, Begins, Starts

\* Initially.
LEMMA TypeInit == Init => TypeOK
  <1> SUFFICES ASSUME Init PROVE TypeOK
    OBVIOUS
  <1>1. db \in Tables
    BY LedgerAssumption DEF Init, Tables
  <1>2. ConnsOK
    BY FreshHeld DEF Init, ConnsOK, Handlers
  <1> QED
    BY <1>1, <1>2 DEF TypeOK, ConnsOK, Init

\* What a handler that is between two queries holds.
LEMMA HandlerTyped ==
    ASSUME TypeOK, NEW c \in Conns
    PROVE  /\ task[c] = Idle => task[c].row \notin Prompts /\ task[c].row \notin Outflows
           /\ task[c].row \in Prompts \cup Outflows => task[c] # Idle /\ conn[c] = Begun
           /\ task[c].row \in Prompts => Work(task[c]) \in [row : Prompts, to : {"charge"}]
           /\ task[c].row \in Outflows => Work(task[c]) \in [row : Outflows, to : OutflowStatuses]
           /\ Work(task[c]).row = task[c].row /\ Work(task[c]).to = task[c].to
           /\ task[c].row \in Prompts => task[c].seen \in Int
  <1>1. task[c] \in Handlers /\ (task[c] # Idle => conn[c] = Begun)
    BY DEF TypeOK
  <1>2. Idle.row \notin Prompts /\ Idle.row \notin Outflows
    BY RowsApart DEF Idle, Items
  <1> QED
    BY <1>1, <1>2, RowsApart DEF Handlers, Work

\* Every step.
LEMMA TypeNext == TypeOK /\ [Next]_vars => TypeOK'
  <1> SUFFICES ASSUME TypeOK, [Next]_vars PROVE TypeOK'
    OBVIOUS
  <1> DEFINE Rest == /\ asked \in [Outflows -> Nat] /\ unchecked \in BOOLEAN
                     /\ told \in [Outflows -> OutflowStatuses \cup {"NONE"}]
  <1>0. Rest /\ ConnsOK /\ db \in Tables /\ db.balance \in Int
    BY DEF TypeOK, ConnsOK, Tables
  <1>f. \A c \in Conns : Flushed(c) \in Tables
    BY FlushFollows DEF Follows
  <1>g. \A c \in Conns : Flushed(c).balance \in Int
    BY <1>f DEF Tables
  <1>c. AppConns \subseteq Conns /\ AdminConns \subseteq Conns
    BY DEF Conns
  <1>q. (db' \in Tables /\ ConnsOK' /\ Rest') => TypeOK'
    BY DEF TypeOK, ConnsOK
  <1>1. ASSUME NEW c \in AppConns, NEW o \in Outflows, CreateOutflow(c, o)
        PROVE  TypeOK'
    <2>1. Begins(c) /\ Rest'
      BY <1>0, <1>1 DEF CreateOutflow, Begins
    <2>2. db' \in Tables
      BY <1>1, <1>c, <1>f, Requests DEF CreateOutflow
    <2> QED
      BY <1>c, <1>q, <2>1, <2>2, BeginTyped
  <1>2. ASSUME NEW c \in AppConns, NEW p \in Payments, PreparePayment(c, p)
        PROVE  TypeOK'
    <2>1. Begins(c) /\ Rest'
      BY <1>0, <1>2 DEF PreparePayment, Begins
    <2>2. Prepared(p).row = p /\ Prepared(p).to = "READY" /\ "READY" \in Statuses
      BY DEF Prepared, Statuses
    <2>3. db' \in Tables
      BY <1>2, <1>c, <1>f, <2>2, StatusWritten DEF PreparePayment
    <2> QED
      BY <1>c, <1>q, <2>1, <2>3, BeginTyped
  <1>3. ASSUME NEW c \in AppConns, NEW p \in Payments, CompletePayment(c, p)
        PROVE  TypeOK'
    <2> DEFINE paid == WithStatus(Flushed(c), [row |-> p, to |-> "PAID"])
    <2>1. Begins(c) /\ Rest'
      BY <1>0, <1>3 DEF CompletePayment, Begins
    <2>2. paid \in Tables
      BY <1>c, <1>f, StatusWritten DEF Statuses
    <2>3. db' = Deposited(paid, p) \/ db' = paid
      BY <1>3 DEF CompletePayment
    <2> HIDE DEF paid
    <2>4. db' \in Tables
      BY <2>2, <2>3, Deposits
    <2> QED
      BY <1>c, <1>q, <2>1, <2>4, BeginTyped
  <1>4. ASSUME NEW c \in AppConns, NEW p \in Payments, CancelPayment(c, p)
        PROVE  TypeOK'
    <2>1. task[c] = Idle /\ task' = task /\ Rest' /\ c \in Conns
      BY <1>0, <1>4, <1>c DEF CancelPayment
    <2>2. CASE conn[c].open
      <3>1. conn' = [conn EXCEPT ![c].cancelled = @ \cup {p}] /\ db' = db
        BY <1>4, <2>2 DEF CancelPayment
      <3>2. conn[c] \in Held
        BY <1>0, <2>1 DEF ConnsOK
      <3>3. conn'[c] \in Held /\ conn'[c].open
        BY <1>0, <2>1, <2>2, <3>1, <3>2 DEF ConnsOK, Held
      <3>4. conn' \in [Conns -> Held] /\ \A k \in Conns \ {c} : conn'[k] = conn[k]
        BY <1>0, <2>1, <3>1, <3>3 DEF ConnsOK
      <3>5. ConnsOK'
        BY <1>0, <2>1, <3>3, <3>4 DEF ConnsOK
      <3> QED
        BY <1>0, <1>q, <2>1, <3>1, <3>5
    <2>3. CASE ~conn[c].open
      <3>1. conn' = conn /\ db' = Cancelled(db, {p})
        BY <1>4, <2>3 DEF CancelPayment
      <3>2. ConnsOK' /\ db' \in Tables
        BY <1>0, <2>1, <3>1, PaymentsCancelled DEF ConnsOK
      <3> QED
        BY <1>q, <2>1, <3>2
    <2> QED
      BY <2>2, <2>3
  <1>5. ASSUME NEW c \in AppConns, NEW q \in Prompts, PromptCheck(c, q)
        PROVE  TypeOK'
    <2> DEFINE t == [row |-> q, to |-> "charge", seen |-> Flushed(c).balance]
    <2>1. db' = Flushed(c) /\ Rest' /\ task[c] = Idle /\ c \in Conns
      BY <1>0, <1>5, <1>c DEF PromptCheck
    <2>2. conn' = [conn EXCEPT ![c] = Begun]
      BY <1>5 DEF PromptCheck
    <2>3. task' = task \/ task' = [task EXCEPT ![c] = t]
      BY <1>5 DEF PromptCheck
    <2>4. t \in Handlers
      BY <1>g, <2>1 DEF Handlers
    <2>5. Begins(c) \/ Starts(c, t)
      BY <2>1, <2>2, <2>3 DEF Begins, Starts
    <2>6. ConnsOK'
      BY <2>1, <2>4, <2>5, BeginTyped
    <2> QED
      BY <1>f, <1>q, <2>1, <2>6
  <1>6. ASSUME NEW c \in AppConns, CompleteUnknown(c) \/ BatchUpdateStockItemOpenPrice(c)
        PROVE  TypeOK'
    <2>1. Begins(c) /\ Rest' /\ db' = Flushed(c)
      BY <1>0, <1>6 DEF CompleteUnknown, BatchUpdateStockItemOpenPrice, Begins
    <2> QED
      BY <1>c, <1>f, <1>q, <2>1, BeginTyped
  <1>7. ASSUME NEW c \in AppConns, PromptCharge(c)
        PROVE  TypeOK'
    <2>1. /\ c \in Conns /\ db' = db /\ Rest' /\ task' = [task EXCEPT ![c] = Idle]
          /\ conn' = [conn EXCEPT ![c].work = Work(task[c])]
          /\ task[c].row \in Prompts
      BY <1>0, <1>7, <1>c, HandlerTyped DEF PromptCharge, Tables
    <2>2. conn[c] = Begun /\ Work(task[c]) \in Works
      BY <2>1, HandlerTyped DEF Works
    <2>3. ConnsOK'
      BY <1>0, <2>1, <2>2, FreshHeld DEF ConnsOK, Held, Handlers
    <2> QED
      BY <1>0, <1>q, <2>1, <2>3
  <1>8. ASSUME NEW c \in AppConns, PromptTimesOut(c)
        PROVE  TypeOK'
    <2>1. ConnsOK' /\ Rest' /\ db' = db
      BY <1>0, <1>8, <1>c DEF PromptTimesOut, ConnsOK, Handlers
    <2> QED
      BY <1>0, <1>q, <2>1
  <1>9. ASSUME NEW c \in AdminConns, NEW o \in Outflows, NEW to \in OutflowStatuses,
               UpdateCheck(c, o, to)
        PROVE  TypeOK'
    <2> DEFINE t == [row |-> o, to |-> to, seen |-> 0]
    <2>1. db' = Flushed(c) /\ Rest' /\ task[c] = Idle /\ c \in Conns
      BY <1>0, <1>9, <1>c DEF UpdateCheck
    <2>2. conn' = [conn EXCEPT ![c] = Begun]
      BY <1>9 DEF UpdateCheck
    <2>3. task' = task \/ task' = [task EXCEPT ![c] = t]
      BY <1>9 DEF UpdateCheck
    <2>4. t \in Handlers
      BY DEF Handlers
    <2>5. Begins(c) \/ Starts(c, t)
      BY <2>1, <2>2, <2>3 DEF Begins, Starts
    <2>6. ConnsOK'
      BY <2>1, <2>4, <2>5, BeginTyped
    <2> QED
      BY <1>f, <1>q, <2>1, <2>6
  <1>10. ASSUME NEW c \in AdminConns, UpdateWrite(c)
         PROVE  TypeOK'
    <2> DEFINE w == Work(task[c])
    <2>1. /\ c \in Conns /\ db' = db /\ task' = [task EXCEPT ![c] = Idle]
          /\ conn' = [conn EXCEPT ![c].work = w] /\ unchecked' = unchecked
          /\ asked' = [asked EXCEPT ![w.row] = @ + 1]
          /\ told' = [told EXCEPT ![w.row] = w.to]
          /\ w.row \in Outflows
      BY <1>10, <1>c DEF UpdateWrite, Reported
    <2>2. task[c].row \in Outflows
      BY <2>1, HandlerTyped
    <2>3. conn[c] = Begun /\ w \in Works /\ w.to \in OutflowStatuses
      BY <2>1, <2>2, HandlerTyped DEF Works
    <2> HIDE DEF w
    <2>4. ConnsOK'
      BY <1>0, <2>1, <2>3, FreshHeld DEF ConnsOK, Held, Handlers
    <2>5. Rest'
      BY <1>0, <2>1, <2>3
    <2> QED
      BY <1>0, <1>q, <2>1, <2>4, <2>5
  <1>11. ASSUME NEW c \in AdminConns, UpdateTimesOut(c)
         PROVE  TypeOK'
    <2>1. ConnsOK' /\ Rest' /\ db' = db
      BY <1>0, <1>11, <1>c, FreshHeld DEF UpdateTimesOut, ConnsOK, Handlers
    <2> QED
      BY <1>0, <1>q, <2>1
  <1>12. ASSUME NEW c \in Conns, OtherTransaction(c)
         PROVE  TypeOK'
    <2>1. Begins(c) /\ Rest' /\ db' = Flushed(c)
      BY <1>0, <1>12 DEF OtherTransaction, Begins
    <2> QED
      BY <1>f, <1>q, <2>1, BeginTyped
  <1>13. ASSUME NEW pool \in SUBSET Conns, Crash(pool)
         PROVE  TypeOK'
    <2>1. ConnsOK' /\ Rest' /\ db' = db
      BY <1>0, <1>13, FreshHeld DEF Crash, ConnsOK, Handlers
    <2> QED
      BY <1>0, <1>q, <2>1
  <1>14. ASSUME UNCHANGED vars
         PROVE  TypeOK'
    BY <1>14 DEF vars, TypeOK
  <1> QED
    BY <1>1, <1>2, <1>3, <1>4, <1>5, <1>6, <1>7, <1>8, <1>9, <1>10, <1>11, <1>12, <1>13,
       <1>14, <1>c DEF Next

----------------------------------------------------------------------------
(* Who has what: the rows a connection locks are locked by no other, and a  *)
(* prompt or an outflow is worked on by the connection it belongs to.       *)

Locks(h) == Touched(h.work) \cup h.cancelled
Uses(c, i) == task[c].row = i \/ conn[c].work.row = i

Apart == \A c, k \in Conns : c # k => Locked(c) \cap Locked(k) = {}
Lone == \A c, k \in Conns, q \in Prompts : c # k /\ Uses(c, q) => ~Uses(k, q)
AppOnly == \A c \in AppConns, o \in Outflows : ~Uses(c, o)
Seen == \A c \in Conns : task[c].row \in Prompts => task[c].seen >= Amount[task[c].row]
OwnInv == Apart /\ Lone /\ AppOnly /\ Seen

\* A connection without work locks nothing.
LEMMA NothingLocked ==
    /\ Locks(Clean) = {} /\ Locks(Begun) = {} /\ Touched(NoWork) = {}
    /\ NoWork.row \notin Items /\ Idle.row \notin Items
  BY FreshHeld, RowsApart DEF Locks, Touched, Moves, NoWork, Idle, Items

\* Locks stay apart when one connection gives up some and takes free ones.
LEMMA ApartKept ==
    ASSUME Apart, NEW c \in Conns, NEW R, FreeFor(c, R),
           \A k \in Conns \ {c} : conn'[k] = conn[k],
           Locks(conn'[c]) \subseteq Locks(conn[c]) \cup R
    PROVE  Apart'
  <1>1. \A k \in Conns \ {c} : Locked(k)' = Locked(k) /\ Locked(k) \cap R = {}
    BY DEF Locked, FreeFor
  <1>2. Locked(c)' \subseteq Locked(c) \cup R
    BY DEF Locked, Locks
  <1>3. \A k \in Conns \ {c} : Locked(c)' \cap Locked(k)' = {}
    BY <1>1, <1>2 DEF Apart
  <1>4. \A j, k \in Conns \ {c} : j # k => Locked(j)' \cap Locked(k)' = {}
    BY <1>1 DEF Apart
  <1> QED
    BY <1>3, <1>4 DEF Apart

\* They stay apart when none is taken.
LEMMA ApartShrinks ==
    ASSUME Apart, \A k \in Conns : Locks(conn'[k]) \subseteq Locks(conn[k])
    PROVE  Apart'
  <1>1. \A k \in Conns : Locked(k)' \subseteq Locked(k)
    BY DEF Locked, Locks
  <1> QED
    BY <1>1 DEF Apart

\* Prompts and outflows stay with their connections when no work is taken up.
LEMMA OwnShrinks ==
    ASSUME OwnInv, Apart', Seen',
           \A k \in Conns, i \in Items : Uses(k, i)' => Uses(k, i)
    PROVE  OwnInv'
  <1>1. Lone'
    BY DEF OwnInv, Lone, Items
  <1>2. AppOnly'
    BY DEF OwnInv, AppOnly, Items, Conns
  <1> QED
    BY <1>1, <1>2 DEF OwnInv

\* A handler that begins and ends lets its locks go.
LEMMA OwnBegins ==
    ASSUME TypeOK, OwnInv, NEW c \in Conns, Begins(c)
    PROVE  OwnInv'
  <1>1. PICK h \in {Clean, Begun} : conn' = [conn EXCEPT ![c] = h]
    BY DEF Begins
  <1>2. /\ conn'[c] = h /\ \A k \in Conns \ {c} : conn'[k] = conn[k]
        /\ task' = task /\ task[c] = Idle
    BY <1>1 DEF Begins, TypeOK
  <1>3. Locks(h) = {} /\ h.work = NoWork
    BY NothingLocked, FreshHeld
  <1>4. Apart'
    BY <1>2, <1>3, ApartShrinks DEF OwnInv
  <1>5. Seen'
    BY <1>2 DEF OwnInv, Seen
  <1>6. \A k \in Conns, i \in Items : Uses(k, i)' => Uses(k, i)
    BY <1>2, <1>3, NothingLocked DEF Uses
  <1> QED
    BY <1>4, <1>5, <1>6, OwnShrinks

\* A prompt whose balance suffices, and that no other connection is at, is
\* taken up; so is an outflow by the administration.
LEMMA OwnStarts ==
    ASSUME TypeOK, OwnInv, NEW c \in Conns, NEW t, Starts(c, t),
           \/ /\ t.row \in Prompts /\ t.seen >= Amount[t.row]
              /\ \A k \in Conns \ {c} : ~Uses(k, t.row)
           \/ t.row \in Outflows /\ c \notin AppConns
    PROVE  OwnInv'
  <1>1. /\ conn'[c] = Begun /\ \A k \in Conns \ {c} : conn'[k] = conn[k]
        /\ task'[c] = t /\ \A k \in Conns \ {c} : task'[k] = task[k]
    BY DEF Starts, TypeOK
  <1>2. Locks(Begun) = {} /\ Begun.work = NoWork
    BY NothingLocked, FreshHeld
  <1>3. Apart'
    BY <1>1, <1>2, ApartShrinks DEF OwnInv
  <1>4. Seen'
    BY <1>1, RowsApart DEF OwnInv, Seen
  <1>5. \A i \in Items : Uses(c, i)' => i = t.row
    BY <1>1, <1>2, NothingLocked DEF Uses
  <1>6. \A k \in Conns \ {c} : \A i \in Items : Uses(k, i)' = Uses(k, i)
    BY <1>1 DEF Uses
  <1>7. Lone'
    <2> SUFFICES ASSUME NEW j \in Conns, NEW k \in Conns, NEW q \in Prompts,
                        j # k, Uses(j, q)', Uses(k, q)'
                 PROVE  FALSE
      BY DEF Lone
    <2>1. q \in Items
      BY DEF Items
    <2>2. CASE j = c
      BY <1>5, <1>6, <2>1, <2>2, RowsApart
    <2>3. CASE k = c
      BY <1>5, <1>6, <2>1, <2>3, RowsApart
    <2>4. CASE j # c /\ k # c
      BY <1>6, <2>1, <2>4 DEF OwnInv, Lone
    <2> QED
      BY <2>2, <2>3, <2>4
  <1>8. AppOnly'
    BY <1>5, <1>6, RowsApart DEF OwnInv, AppOnly, Items, Conns
  <1> QED
    BY <1>3, <1>4, <1>7, <1>8 DEF OwnInv

\* A handler leaves its work on the connection; the rows it writes are free.
LEMMA OwnLeaves ==
    ASSUME TypeOK, OwnInv, NEW c \in Conns, task[c].row \in Prompts \cup Outflows,
           FreeFor(c, Touched(Work(task[c]))),
           conn' = [conn EXCEPT ![c].work = Work(task[c])],
           task' = [task EXCEPT ![c] = Idle]
    PROVE  OwnInv'
  <1> DEFINE w == Work(task[c])
  <1>1. conn[c] = Begun /\ w.row = task[c].row
    BY HandlerTyped
  <1>2. /\ conn'[c] = [Begun EXCEPT !.work = w]
        /\ \A k \in Conns \ {c} : conn'[k] = conn[k]
        /\ task'[c] = Idle /\ \A k \in Conns \ {c} : task'[k] = task[k]
    BY <1>1 DEF TypeOK
  <1>3. conn'[c].work = w /\ conn'[c].cancelled = {}
    BY <1>2, FreshHeld DEF Held
  <1> HIDE DEF w
  <1>4. Locks(conn'[c]) \subseteq Locks(conn[c]) \cup Touched(w)
    BY <1>3 DEF Locks
  <1>5. Apart'
    BY <1>2, <1>4, ApartKept DEF OwnInv, w
  <1>6. Seen'
    BY <1>2, NothingLocked DEF OwnInv, Seen, Items
  <1>7. \A k \in Conns, i \in Items : Uses(k, i)' => Uses(k, i)
    BY <1>1, <1>2, <1>3, NothingLocked DEF Uses
  <1> QED
    BY <1>5, <1>6, <1>7, OwnShrinks

\* Some handlers end where they are, and some connections are cleaned.
LEMMA OwnEnds ==
    ASSUME TypeOK, OwnInv,
           \A k \in Conns : /\ conn'[k] = conn[k] \/ conn'[k] = Clean
                            /\ task'[k] = task[k] \/ task'[k] = Idle
    PROVE  OwnInv'
  <1>1. Locks(Clean) = {} /\ Clean.work = NoWork
    BY NothingLocked, FreshHeld
  <1>2. Apart'
    BY <1>1, ApartShrinks DEF OwnInv
  <1>3. Seen'
    BY NothingLocked DEF OwnInv, Seen, Items
  <1>4. \A k \in Conns, i \in Items : Uses(k, i)' => Uses(k, i)
    BY <1>1, NothingLocked DEF Uses
  <1> QED
    BY <1>2, <1>3, <1>4, OwnShrinks

\* A payment is cancelled on a connection while no other has its row.
LEMMA OwnCancels ==
    ASSUME TypeOK, OwnInv, NEW c \in Conns, NEW p \in Payments, CancelPayment(c, p)
    PROVE  OwnInv'
  <1>1. task' = task /\ FreeFor(c, {p})
    BY DEF CancelPayment
  <1>2. CASE conn[c].open
    <2>1. conn' = [conn EXCEPT ![c].cancelled = @ \cup {p}]
      BY <1>2 DEF CancelPayment
    <2>2. conn[c] \in Held /\ \A k \in Conns \ {c} : conn'[k] = conn[k]
      BY <2>1 DEF TypeOK
    <2>3. conn'[c].work = conn[c].work /\ conn'[c].cancelled = conn[c].cancelled \cup {p}
      BY <2>1, <2>2 DEF Held, TypeOK
    <2>4. Locks(conn'[c]) \subseteq Locks(conn[c]) \cup {p}
      BY <2>3 DEF Locks
    <2>5. Apart'
      BY <1>1, <2>2, <2>4, ApartKept DEF OwnInv
    <2>6. Seen'
      BY <1>1 DEF OwnInv, Seen
    <2>7. \A k \in Conns, i \in Items : Uses(k, i)' => Uses(k, i)
      BY <1>1, <2>2, <2>3 DEF Uses
    <2> QED
      BY <2>5, <2>6, <2>7, OwnShrinks
  <1>3. CASE ~conn[c].open
    <2>1. conn' = conn
      BY <1>3 DEF CancelPayment
    <2> QED
      BY <1>1, <2>1, OwnEnds
  <1> QED
    BY <1>2, <1>3

\* Initially nobody has anything.
LEMMA OwnInit == Init => OwnInv
  <1> SUFFICES ASSUME Init PROVE OwnInv
    OBVIOUS
  <1>1. \A c \in Conns : conn[c] = Clean /\ task[c] = Idle
    BY DEF Init
  <1>2. \A c \in Conns : Locked(c) = {}
    BY <1>1, NothingLocked DEF Locked, Locks
  <1>3. \A c \in Conns, i \in Items : ~Uses(c, i)
    BY <1>1, NothingLocked, FreshHeld DEF Uses
  <1> QED
    BY <1>1, <1>2, <1>3, NothingLocked DEF OwnInv, Apart, Lone, AppOnly, Seen, Items, Conns

\* Every step.
LEMMA OwnNext == TypeOK /\ OwnInv /\ [Next]_vars => OwnInv'
  <1> SUFFICES ASSUME TypeOK, OwnInv, [Next]_vars PROVE OwnInv'
    OBVIOUS
  <1>c. AppConns \subseteq Conns /\ AdminConns \subseteq Conns /\ AppConns \cap AdminConns = {}
    BY LedgerAssumption DEF Conns
  <1>1. ASSUME NEW c \in AppConns,
               \/ \E o \in Outflows : CreateOutflow(c, o)
               \/ \E p \in Payments : PreparePayment(c, p) \/ CompletePayment(c, p)
               \/ CompleteUnknown(c) \/ BatchUpdateStockItemOpenPrice(c)
        PROVE  OwnInv'
    <2>1. Begins(c)
      BY <1>1 DEF Begins, CreateOutflow, PreparePayment, CompletePayment, CompleteUnknown,
                  BatchUpdateStockItemOpenPrice
    <2> QED
      BY <1>c, <2>1, OwnBegins
  <1>2. ASSUME NEW c \in AppConns, NEW p \in Payments, CancelPayment(c, p)
        PROVE  OwnInv'
    BY <1>2, <1>c, OwnCancels
  <1>3. ASSUME NEW c \in AppConns, NEW q \in Prompts, PromptCheck(c, q)
        PROVE  OwnInv'
    <2> DEFINE t == [row |-> q, to |-> "charge", seen |-> Flushed(c).balance]
    <2>1. /\ task[c] = Idle /\ conn' = [conn EXCEPT ![c] = Begun]
          /\ \A k \in Conns : task[k].row # q /\ q \notin Locked(k)
      BY <1>3 DEF PromptCheck
    <2>2. CASE task' = task
      <3>1. Begins(c)
        BY <2>1, <2>2 DEF Begins
      <3> QED
        BY <1>c, <3>1, OwnBegins
    <2>3. CASE task' # task
      <3>1. task' = [task EXCEPT ![c] = t] /\ ~(Flushed(c).balance < Amount[q])
        BY <1>3, <2>3 DEF PromptCheck
      <3>2. Flushed(c).balance \in Int /\ Amount[q] \in Nat
        BY <1>c, FlushFollows, AmountIsNat DEF Follows, Tables
      <3>3. t.seen >= Amount[t.row] /\ t.row \in Prompts
        BY <3>1, <3>2
      <3>4. \A k \in Conns : ~Uses(k, q)
        <4> SUFFICES ASSUME NEW k \in Conns, conn[k].work.row = q PROVE FALSE
          BY <2>1 DEF Uses
        <4>1. q \in Touched(conn[k].work)
          BY RowsApart DEF Touched, NoWork, Items
        <4> QED
          BY <2>1, <4>1 DEF Locked
      <3>5. Starts(c, t)
        BY <2>1, <3>1 DEF Starts
      <3> HIDE DEF t
      <3>6. t.row = q
        BY DEF t
      <3> QED
        BY <1>c, <3>3, <3>4, <3>5, <3>6, OwnStarts
    <2> QED
      BY <2>2, <2>3
  <1>4. ASSUME NEW c \in AppConns, PromptCharge(c)
        PROVE  OwnInv'
    <2> DEFINE q == task[c].row
    <2>1. q \in Prompts /\ FreeFor(c, {Account}) /\ Uses(c, q)
      BY <1>4 DEF PromptCharge, Uses
    <2>2. Touched(Work(task[c])) \subseteq {q, Account}
      BY DEF Touched, Work
    <2>3. \A k \in Conns \ {c} : q \notin Locked(k)
      <3> SUFFICES ASSUME NEW k \in Conns \ {c}, q \in Locked(k) PROVE FALSE
        OBVIOUS
      <3>1. conn[k].cancelled \subseteq Payments
        BY DEF TypeOK, Held
      <3>2. ~Uses(k, q)
        BY <1>c, <2>1 DEF OwnInv, Lone
      <3> QED
        BY <2>1, <3>1, <3>2, RowsApart DEF Locked, Touched, Uses, Items
    <2>4. FreeFor(c, Touched(Work(task[c])))
      BY <2>1, <2>2, <2>3 DEF FreeFor
    <2> QED
      BY <1>4, <1>c, <2>1, <2>4, OwnLeaves DEF PromptCharge
  <1>5. ASSUME NEW c \in AppConns, PromptTimesOut(c)
        PROVE  OwnInv'
    BY <1>5, <1>c, OwnEnds DEF PromptTimesOut, TypeOK
  <1>6. ASSUME NEW c \in AdminConns, NEW o \in Outflows, NEW to \in OutflowStatuses,
               UpdateCheck(c, o, to)
        PROVE  OwnInv'
    <2> DEFINE t == [row |-> o, to |-> to, seen |-> 0]
    <2>1. /\ task[c] = Idle /\ conn' = [conn EXCEPT ![c] = Begun]
          /\ task' = task \/ task' = [task EXCEPT ![c] = t]
      BY <1>6 DEF UpdateCheck
    <2>2. Begins(c) \/ Starts(c, t)
      BY <2>1 DEF Begins, Starts
    <2>3. t.row \in Outflows /\ c \notin AppConns
      BY <1>c
    <2> QED
      BY <1>c, <2>2, <2>3, OwnBegins, OwnStarts
  <1>7. ASSUME NEW c \in AdminConns, UpdateWrite(c)
        PROVE  OwnInv'
    <2>1. task[c].row \in Outflows
      BY <1>7, <1>c, HandlerTyped DEF UpdateWrite
    <2> QED
      BY <1>7, <1>c, <2>1, OwnLeaves DEF UpdateWrite
  <1>8. ASSUME NEW c \in AdminConns, UpdateTimesOut(c)
        PROVE  OwnInv'
    BY <1>8, <1>c, OwnEnds DEF UpdateTimesOut, TypeOK
  <1>9. ASSUME NEW c \in Conns, OtherTransaction(c)
        PROVE  OwnInv'
    <2>1. Begins(c)
      BY <1>9 DEF Begins, OtherTransaction
    <2> QED
      BY <2>1, OwnBegins
  <1>10. ASSUME NEW pool \in SUBSET Conns, Crash(pool)
         PROVE  OwnInv'
    BY <1>10, OwnEnds DEF Crash
  <1>11. ASSUME UNCHANGED vars
         PROVE  OwnInv'
    BY <1>11, OwnEnds DEF vars
  <1> QED
    BY <1>1, <1>2, <1>3, <1>4, <1>5, <1>6, <1>7, <1>8, <1>9, <1>10, <1>11, <1>c DEF Next

----------------------------------------------------------------------------
(* The account and its history                                              *)

Credited(d) == [p \in Payments |-> d.credits[p] * Amount[p]]
Refunded(d) == [o \in Outflows |-> d.refunds[o] * Amount[o]]
Asked(d) == {o \in Outflows : d.status[o] # "NONE"}

\* What the rows of the tables d add up to.
Caused(d) == SumOver(Payments, Credited(d)) - SumOver(Asked(d), Amount)
             + SumOver(Outflows, Refunded(d)) - SumOver(d.charged, Amount)

Balanced(d) == d.balance = Opening + d.rows /\ d.rows = Caused(d)

\* The property of the runs is about the committed tables.
LEMMA BalancedTables == LedgerBalanced <=> Balanced(db)
  BY DEF LedgerBalanced, Balanced, Caused, Credited, Refunded, Asked

\* Multiplying by one more adds once more.
LEMMA OnceMore ==
    ASSUME NEW n \in Nat, NEW a \in Nat
    PROVE  n * a \in Nat /\ (n + 1) * a = n * a + a
  OBVIOUS

\* The columns are columns of naturals over finitely many rows.
LEMMA Columns ==
    ASSUME NEW d \in Tables
    PROVE  /\ IsFiniteSet(Payments) /\ IsFiniteSet(Outflows)
           /\ IsFiniteSet(Asked(d)) /\ IsFiniteSet(d.charged)
           /\ \A p \in Payments : Credited(d)[p] \in Nat /\ Credited(d)[p] = d.credits[p] * Amount[p]
           /\ \A o \in Outflows : Refunded(d)[o] \in Nat /\ Refunded(d)[o] = d.refunds[o] * Amount[o]
           /\ \A i \in Items : Amount[i] \in Nat
           /\ Asked(d) \subseteq Items /\ d.charged \subseteq Items
           /\ SumOver(Payments, Credited(d)) \in Nat /\ SumOver(Outflows, Refunded(d)) \in Nat
           /\ SumOver(Asked(d), Amount) \in Nat /\ SumOver(d.charged, Amount) \in Nat
  <1>1. Asked(d) \subseteq Items /\ d.charged \subseteq Items
    BY DEF Asked, Items, Tables
  <1>2. Payments \subseteq Items /\ Outflows \subseteq Items /\ IsFiniteSet(Items)
    BY LedgerAssumption DEF Items
  <1>3. /\ IsFiniteSet(Payments) /\ IsFiniteSet(Outflows)
        /\ IsFiniteSet(Asked(d)) /\ IsFiniteSet(d.charged)
    BY <1>1, <1>2, FS_Subset
  <1>4. \A p \in Payments : Credited(d)[p] \in Nat /\ Credited(d)[p] = d.credits[p] * Amount[p]
    <2> TAKE p \in Payments
    <2>1. d.credits[p] \in Nat /\ Amount[p] \in Nat
      BY AmountIsNat DEF Tables
    <2> QED
      BY <2>1, OnceMore DEF Credited
  <1>5. \A o \in Outflows : Refunded(d)[o] \in Nat /\ Refunded(d)[o] = d.refunds[o] * Amount[o]
    <2> TAKE o \in Outflows
    <2>1. d.refunds[o] \in Nat /\ Amount[o] \in Nat
      BY AmountIsNat DEF Tables
    <2> QED
      BY <2>1, OnceMore DEF Refunded
  <1>6. \A i \in Items : Amount[i] \in Nat
    BY AmountIsNat
  <1>7. SumOver(Payments, Credited(d)) \in Nat /\ SumOver(Outflows, Refunded(d)) \in Nat
    BY <1>3, <1>4, <1>5, SumNat
  <1>8. SumOver(Asked(d), Amount) \in Nat /\ SumOver(d.charged, Amount) \in Nat
    <2>1. /\ \A x \in Asked(d) : Amount[x] \in Nat
          /\ \A x \in d.charged : Amount[x] \in Nat
      BY <1>1, <1>6
    <2> QED
      BY <1>3, <2>1, SumNat
  <1> QED
    BY <1>1, <1>3, <1>4, <1>5, <1>6, <1>7, <1>8

\* One more row adds its amount.
LEMMA OneMoreRow ==
    ASSUME NEW S \in SUBSET Items, NEW i \in Items \ S
    PROVE  SumOver(S \cup {i}, Amount) = SumOver(S, Amount) + Amount[i]
  <1>1. IsFiniteSet(S \cup {i})
    BY LedgerAssumption, FS_Subset
  <1>2. \A x \in S \cup {i} : Amount[x] \in Nat
    BY AmountIsNat
  <1>3. (S \cup {i}) \ {i} = S /\ i \in S \cup {i}
    OBVIOUS
  <1> QED
    BY <1>1, <1>2, <1>3, SumSplit

\* Work in progress is about rows that exist, and prompts not yet charged.
LEMMA CausedFollows ==
    ASSUME NEW d \in Tables, NEW w \in Works \cup {NoWork}, NEW e, Follows(d, w, e),
           w.row \in Prompts => w.row \notin d.charged,
           w.row \in Outflows => d.status[w.row] # "NONE"
    PROVE  Caused(e) = Caused(d) + Shift(w)
  <1>1. e \in Tables /\ Credited(e) = Credited(d)
    BY DEF Follows, Credited
  <1>2. Asked(e) = Asked(d)
    <2>1. w.row \in Outflows => w.to # "NONE"
      BY RowsApart DEF Works, OutflowStatuses, NoWork, Items
    <2> QED
      BY <2>1 DEF Follows, Asked
  <1>3. /\ Caused(e) = SumOver(Payments, Credited(d)) - SumOver(Asked(d), Amount)
                       + SumOver(Outflows, Refunded(e)) - SumOver(e.charged, Amount)
        /\ Caused(d) = SumOver(Payments, Credited(d)) - SumOver(Asked(d), Amount)
                       + SumOver(Outflows, Refunded(d)) - SumOver(d.charged, Amount)
    BY <1>1, <1>2 DEF Caused
  <1>4. CASE w.row \in Prompts
    <2>1. e.charged = d.charged \cup {w.row} /\ Shift(w) = -Amount[w.row]
      BY <1>4 DEF Follows, Shift
    <2>2. SumOver(e.charged, Amount) = SumOver(d.charged, Amount) + Amount[w.row]
      BY <1>4, <2>1, Columns, OneMoreRow DEF Items
    <2>3. \A o \in Outflows : e.refunds[o] = d.refunds[o]
      <3> TAKE o \in Outflows
      <3>1. w.row # o /\ d.refunds[o] \in Nat
        BY <1>4, RowsApart DEF Tables
      <3>2. Times(w, o, "CANCELED") = 0
        BY <3>1 DEF Times
      <3> QED
        BY <3>1, <3>2 DEF Follows
    <2>4. Refunded(e) = Refunded(d)
      BY <2>3 DEF Refunded
    <2>5. Amount[w.row] \in Nat
      BY <1>4, AmountIsNat
    <2> QED
      BY <1>3, <2>1, <2>2, <2>4, <2>5, Columns
  <1>5. CASE w.row \in Outflows /\ w.to = "CANCELED"
    <2> DEFINE o == w.row
    <2>1. e.charged = d.charged /\ Shift(w) = Amount[o] /\ Amount[o] \in Nat
      BY <1>5, RowsApart, AmountIsNat DEF Follows, Shift
    <2>2. \A x \in Outflows : Times(w, x, "CANCELED") = IF x = o THEN 1 ELSE 0
      BY <1>5, RowsApart DEF Times, Works, NoWork, Items
    <2>3. \A x \in Outflows : e.refunds[x] = d.refunds[x] + (IF x = o THEN 1 ELSE 0)
      BY <2>2 DEF Follows
    <2>4. d.refunds[o] \in Nat /\ e.refunds[o] = d.refunds[o] + 1
      BY <1>5, <2>3 DEF Tables
    <2>5. Refunded(e)[o] = Refunded(d)[o] + Amount[o]
      BY <1>1, <1>5, <2>1, <2>4, OnceMore, Columns
    <2>6. \A x \in Outflows \ {o} : Refunded(e)[x] = Refunded(d)[x]
      <3> TAKE x \in Outflows \ {o}
      <3>1. e.refunds[x] = d.refunds[x]
        BY <2>3 DEF Tables
      <3> QED
        BY <3>1 DEF Refunded
    <2>7. SumOver(Outflows, Refunded(e))
            = SumOver(Outflows, Refunded(d)) - Refunded(d)[o] + Refunded(e)[o]
      BY <1>1, <1>5, <2>6, Columns, SumChange
    <2>8. Refunded(d)[o] \in Nat
      BY <1>5, Columns
    <2> QED
      BY <1>3, <2>1, <2>5, <2>7, <2>8, Columns
  <1>6. CASE w.row \notin Prompts /\ ~(w.row \in Outflows /\ w.to = "CANCELED")
    <2>1. e.charged = d.charged /\ Shift(w) = 0
      BY <1>6 DEF Follows, Shift
    <2>2. \A o \in Outflows : e.refunds[o] = d.refunds[o]
      <3> TAKE o \in Outflows
      <3>1. Times(w, o, "CANCELED") = 0 /\ d.refunds[o] \in Nat
        BY <1>6 DEF Times, Tables
      <3> QED
        BY <3>1 DEF Follows
    <2>3. Refunded(e) = Refunded(d)
      BY <2>2 DEF Refunded
    <2> QED
      BY <1>3, <2>1, <2>3, Columns
  <1> QED
    BY <1>4, <1>5, <1>6

\* A request is one more outflow.
LEMMA CausedRequest ==
    ASSUME NEW d \in Tables, NEW o \in Outflows, d.status[o] = "NONE", NEW e,
           e = Move(WithStatus(d, Requested(o)), -Amount[o])
    PROVE  Caused(e) = Caused(d) - Amount[o]
  <1>1. /\ e \in Tables /\ e.status = [d.status EXCEPT ![o] = "PENDING"]
        /\ e.charged = d.charged /\ e.credits = d.credits /\ e.refunds = d.refunds
    BY Requests
  <1>2. Asked(e) = Asked(d) \cup {o} /\ o \in Items \ Asked(d)
    BY <1>1 DEF Asked, Items, Tables
  <1>3. SumOver(Asked(e), Amount) = SumOver(Asked(d), Amount) + Amount[o]
    BY <1>2, Columns, OneMoreRow
  <1>4. Credited(e) = Credited(d) /\ Refunded(e) = Refunded(d)
    BY <1>1 DEF Credited, Refunded
  <1>5. Amount[o] \in Nat
    BY AmountIsNat
  <1> QED
    BY <1>1, <1>3, <1>4, <1>5, Columns DEF Caused

\* A status other than NONE, written to a payment, causes nothing.
LEMMA CausedStatus ==
    ASSUME NEW d \in Tables, NEW p \in Payments, NEW s \in Statuses, NEW w, w.row = p, w.to = s
    PROVE  Caused(WithStatus(d, w)) = Caused(d)
  <1> DEFINE e == WithStatus(d, w)
  <1>0. e \in Tables /\ SameAccount(d, e) /\ e.status = [d.status EXCEPT ![p] = s]
    BY StatusWritten
  <1> HIDE DEF e
  <1>1. /\ e \in Tables /\ SameAccount(d, e)
        /\ \A o \in Outflows : e.status[o] = d.status[o]
    BY <1>0, RowsApart DEF Tables
  <1>2. Asked(e) = Asked(d) /\ Credited(e) = Credited(d) /\ Refunded(e) = Refunded(d)
    BY <1>1 DEF Credited, Refunded, Asked, SameAccount
  <1>3. Caused(e) = Caused(d)
    BY <1>1, <1>2 DEF Caused, SameAccount
  <1> QED
    BY <1>3 DEF e

\* A deposit is one more credit.
LEMMA CausedDeposit ==
    ASSUME NEW d \in Tables, NEW p \in Payments
    PROVE  Caused(Deposited(d, p)) = Caused(d) + Amount[p]
  <1> DEFINE e == Deposited(d, p)
  <1>1. /\ e \in Tables /\ e.credits = [d.credits EXCEPT ![p] = @ + 1]
        /\ e.charged = d.charged /\ e.status = d.status /\ e.refunds = d.refunds
    BY Deposits
  <1> HIDE DEF e
  <1>2. /\ d.credits[p] \in Nat /\ Amount[p] \in Nat /\ e.credits[p] = d.credits[p] + 1
        /\ \A x \in Payments \ {p} : e.credits[x] = d.credits[x]
    BY <1>1, AmountIsNat DEF Tables
  <1>3. Credited(e)[p] = Credited(d)[p] + Amount[p] /\ Credited(d)[p] \in Nat
    BY <1>1, <1>2, OnceMore, Columns
  <1>4. \A x \in Payments \ {p} : Credited(e)[x] = Credited(d)[x]
    BY <1>2 DEF Credited
  <1>5. SumOver(Payments, Credited(e))
          = SumOver(Payments, Credited(d)) - Credited(d)[p] + Credited(e)[p]
    BY <1>1, <1>4, Columns, SumChange
  <1>6. Asked(e) = Asked(d) /\ Refunded(e) = Refunded(d)
    BY <1>1 DEF Asked, Refunded
  <1>7. Caused(e) = Caused(d) + Amount[p]
    BY <1>1, <1>2, <1>3, <1>5, <1>6, Columns DEF Caused
  <1> QED
    BY <1>7 DEF e

----------------------------------------------------------------------------
(* The tables and the work still to be committed.  Sound(d, S, u) is about  *)
(* the tables d, what the connections S hold, and whether the balance was   *)
(* lowered unchecked: what these properties need to survive a commit.       *)

PendingIn(o, S) == Cardinality(Pending(o) \cap S)

Settled(d, S) ==
    \A o \in Outflows :
        /\ d.payouts[o] + d.refunds[o] + PendingIn(o, S) <= asked[o]
        /\ d.status[o] = "CONFIRMED" => d.payouts[o] > 0
        /\ d.status[o] = "CANCELED" => d.refunds[o] > 0
Reserved(d, S, u) ==
    \A k \in S :
        /\ conn[k].work.row \in Prompts /\ ~u => d.balance >= Amount[conn[k].work.row]
        /\ \A q \in Prompts : Uses(k, q) => q \notin d.charged
        /\ \A o \in Outflows : Uses(k, o) => d.status[o] # "NONE"
Sound(d, S, u) ==
    /\ Balanced(d) /\ (d.balance < 0 => u)
    /\ Settled(d, S) /\ Reserved(d, S, u)

SoundInv == Sound(db, Conns, unchecked)

\* At most one connection holds a settlement of an outflow.
LEMMA PendingOnce ==
    ASSUME OwnInv, NEW o \in Outflows
    PROVE  /\ \A c \in Pending(o) : Pending(o) = {c}
           /\ \A S : /\ PendingIn(o, S) \in {0, 1}
                     /\ PendingIn(o, S) = 0 <=> Pending(o) \cap S = {}
  <1>1. ASSUME NEW c \in Pending(o), NEW k \in Pending(o) PROVE c = k
    <2>1. /\ c \in Conns /\ k \in Conns /\ o # NoWork.row
          /\ conn[c].work.row = o /\ conn[k].work.row = o
      BY <1>1, NothingLocked DEF Pending, Conns, Items
    <2>2. o \in Locked(c) /\ o \in Locked(k)
      BY <2>1 DEF Locked, Touched
    <2> QED
      BY <2>1, <2>2 DEF OwnInv, Apart
  <1>2. \A c \in Pending(o) : Pending(o) = {c}
    BY <1>1
  <1>3. ASSUME NEW S
        PROVE  PendingIn(o, S) \in {0, 1} /\ (PendingIn(o, S) = 0 <=> Pending(o) \cap S = {})
    <2>1. CASE Pending(o) \cap S = {}
      BY <2>1, FS_EmptySet DEF PendingIn
    <2>2. CASE Pending(o) \cap S # {}
      <3>1. PICK c : Pending(o) \cap S = {c}
        BY <1>2, <2>2
      <3>2. Cardinality({c}) = 1
        BY FS_Singleton
      <3> QED
        BY <2>2, <3>1, <3>2 DEF PendingIn
    <2> QED
      BY <2>1, <2>2
  <1> QED
    BY <1>2, <1>3

PendingBounds ==
    \A o \in Outflows : /\ PendingIn(o, Conns) \in {0, 1}
                        /\ PendingIn(o, Conns) = 0 <=> Pending(o) \cap Conns = {}

\* In every state, so in the next one too.
LEMMA PendingBoundsNext == OwnInv' => PendingBounds'
  <1>1. OwnInv => PendingBounds
    BY PendingOnce DEF PendingBounds
  <1> QED
    BY <1>1, PTL

\* What a commit does to the settlements of an outflow: one that was pending
\* on the connection takes effect.
LEMMA SettledOnce ==
    ASSUME TypeOK, OwnInv, NEW c \in Conns, NEW o \in Outflows
    PROVE  LET w == conn[c].work IN
           /\ Times(w, o, "CONFIRMED") + Times(w, o, "CANCELED") + PendingIn(o, Conns \ {c})
                <= PendingIn(o, Conns)
           /\ w.row = o => w = [row |-> o, to |-> w.to]
           /\ Times(w, o, "CONFIRMED") \in {0, 1} /\ Times(w, o, "CANCELED") \in {0, 1}
           /\ PendingIn(o, Conns \ {c}) \in {0, 1} /\ PendingIn(o, Conns) \in {0, 1}
  <1> DEFINE w == conn[c].work
  <1>1. w \in Works \cup {NoWork} /\ o # NoWork.row
    BY NothingLocked DEF TypeOK, Held, Items
  <1>2. w.row = o => w = [row |-> o, to |-> w.to]
    BY <1>1 DEF Works
  <1>3. /\ Times(w, o, "CONFIRMED") \in {0, 1} /\ Times(w, o, "CANCELED") \in {0, 1}
        /\ PendingIn(o, Conns \ {c}) \in {0, 1} /\ PendingIn(o, Conns) \in {0, 1}
    BY PendingOnce DEF Times
  <1>4. CASE w.row = o /\ w.to \in {"CONFIRMED", "CANCELED"}
    <2>1. Uses(c, o)
      BY <1>4 DEF Uses
    <2>2. c \in Pending(o)
      BY <1>4, <2>1 DEF Pending, OwnInv, AppOnly, Conns
    <2>3. Pending(o) \cap Conns # {} /\ Pending(o) \cap (Conns \ {c}) = {}
      BY <2>2, PendingOnce
    <2>4. PendingIn(o, Conns) = 1 /\ PendingIn(o, Conns \ {c}) = 0
      BY <2>3, PendingOnce
    <2>5. Times(w, o, "CONFIRMED") = 0 \/ Times(w, o, "CANCELED") = 0
      BY <1>2 DEF Times
    <2> QED
      BY <1>2, <1>3, <2>4, <2>5
  <1>5. CASE ~(w.row = o /\ w.to \in {"CONFIRMED", "CANCELED"})
    <2>1. Times(w, o, "CONFIRMED") = 0 /\ Times(w, o, "CANCELED") = 0
      BY <1>5 DEF Times
    <2>2. c \notin Pending(o)
      BY <1>5 DEF Pending
    <2>3. Pending(o) \cap (Conns \ {c}) = Pending(o) \cap Conns
      BY <2>2
    <2>4. PendingIn(o, Conns \ {c}) = PendingIn(o, Conns)
      BY <2>3 DEF PendingIn
    <2> QED
      BY <1>2, <1>3, <2>1, <2>4
  <1> QED
    BY <1>4, <1>5

\* START TRANSACTION: what the connection held is committed, and the tables
\* agree with what the others hold.
LEMMA FlushKeeps ==
    ASSUME TypeOK, OwnInv, SoundInv, NEW c \in Conns
    PROVE  Sound(Flushed(c), Conns \ {c}, unchecked)
  <1> DEFINE w == conn[c].work
             d == Flushed(c)
  <1>1. Follows(db, w, d) /\ w \in Works \cup {NoWork} /\ db \in Tables
    BY FlushFollows DEF TypeOK, Held
  <1> HIDE DEF d
  <1>2. /\ w.row \in Prompts => w.row \notin db.charged
        /\ w.row \in Outflows => db.status[w.row] # "NONE"
        /\ w.row \in Prompts /\ ~unchecked => db.balance >= Amount[w.row]
    BY DEF SoundInv, Sound, Reserved, Uses
  <1>3. Caused(d) = Caused(db) + Shift(w)
    BY <1>1, <1>2, CausedFollows
  <1>4. /\ d.balance = db.balance + Shift(w) /\ d.rows = db.rows + Shift(w)
        /\ db.balance \in Int /\ db.rows \in Int /\ d.balance \in Int /\ d.rows \in Int
        /\ Opening \in Nat
    BY <1>1, LedgerAssumption DEF Follows, Tables
  <1>5. Shift(w) \in Int /\ (w.row \notin Prompts => Shift(w) >= 0)
        /\ (w.row \in Prompts => Shift(w) = -Amount[w.row] /\ Amount[w.row] \in Nat)
    BY AmountIsNat DEF Shift
  <1>6. Balanced(d)
    BY <1>3, <1>4, <1>5 DEF SoundInv, Sound, Balanced
  <1>7. d.balance < 0 => unchecked
    BY <1>2, <1>4, <1>5 DEF SoundInv, Sound
  <1>8. Settled(d, Conns \ {c})
    <2> SUFFICES ASSUME NEW o \in Outflows
                 PROVE  /\ d.payouts[o] + d.refunds[o] + PendingIn(o, Conns \ {c}) <= asked[o]
                        /\ d.status[o] = "CONFIRMED" => d.payouts[o] > 0
                        /\ d.status[o] = "CANCELED" => d.refunds[o] > 0
      BY DEF Settled
    <2>1. /\ db.payouts[o] + db.refunds[o] + PendingIn(o, Conns) <= asked[o]
          /\ db.status[o] = "CONFIRMED" => db.payouts[o] > 0
          /\ db.status[o] = "CANCELED" => db.refunds[o] > 0
      BY DEF SoundInv, Sound, Settled
    <2>2. /\ d.payouts[o] = db.payouts[o] + Times(w, o, "CONFIRMED")
          /\ d.refunds[o] = db.refunds[o] + Times(w, o, "CANCELED")
          /\ d.status[o] = (IF w.row = o THEN w.to ELSE db.status[o])
      BY <1>1 DEF Follows
    <2>3. db.payouts[o] \in Nat /\ db.refunds[o] \in Nat /\ asked[o] \in Nat
      BY DEF TypeOK, Tables
    <2>4. /\ Times(w, o, "CONFIRMED") + Times(w, o, "CANCELED") + PendingIn(o, Conns \ {c})
                <= PendingIn(o, Conns)
          /\ w.row = o => w = [row |-> o, to |-> w.to]
          /\ Times(w, o, "CONFIRMED") \in {0, 1} /\ Times(w, o, "CANCELED") \in {0, 1}
          /\ PendingIn(o, Conns \ {c}) \in {0, 1} /\ PendingIn(o, Conns) \in {0, 1}
      BY SettledOnce
    <2>5. /\ w.row = o /\ w.to = "CONFIRMED" => Times(w, o, "CONFIRMED") = 1
          /\ w.row = o /\ w.to = "CANCELED" => Times(w, o, "CANCELED") = 1
      BY <2>4 DEF Times
    <2> QED
      BY <2>1, <2>2, <2>3, <2>4, <2>5
  <1>9. Reserved(d, Conns \ {c}, unchecked)
    <2> SUFFICES ASSUME NEW k \in Conns \ {c}
                 PROVE  /\ conn[k].work.row \in Prompts /\ ~unchecked
                             => d.balance >= Amount[conn[k].work.row]
                        /\ \A q \in Prompts : Uses(k, q) => q \notin d.charged
                        /\ \A o \in Outflows : Uses(k, o) => d.status[o] # "NONE"
      BY DEF Reserved
    <2>1. /\ conn[k].work.row \in Prompts /\ ~unchecked
                => db.balance >= Amount[conn[k].work.row]
          /\ \A q \in Prompts : Uses(k, q) => q \notin db.charged
          /\ \A o \in Outflows : Uses(k, o) => db.status[o] # "NONE"
      BY DEF SoundInv, Sound, Reserved
    <2>2. conn[k].work.row \in Prompts => Shift(w) = 0
      <3>1. conn[k].work.row \in Prompts => Account \in Locked(k)
        BY DEF Locked, Touched, Moves
      <3>2. Moves(w) => Account \in Locked(c)
        BY DEF Locked, Touched
      <3>3. conn[k].work.row \in Prompts => ~Moves(w)
        BY <3>1, <3>2 DEF OwnInv, Apart
      <3> QED
        BY <3>3 DEF Moves, Shift
    <2>3. \A q \in Prompts : Uses(k, q) => w.row # q
      BY DEF OwnInv, Lone, Uses
    <2>4. \A o \in Outflows : w.row = o => w.to # "NONE"
      BY <1>1, RowsApart DEF Works, OutflowStatuses, NoWork, Items
    <2>5. \A q \in Prompts : Uses(k, q) => q \notin d.charged
      BY <1>1, <2>1, <2>3 DEF Follows
    <2>6. \A o \in Outflows : Uses(k, o) => d.status[o] # "NONE"
      BY <1>1, <2>1, <2>4 DEF Follows
    <2>7. conn[k].work.row \in Prompts => d.balance = db.balance
      BY <1>4, <2>2
    <2> QED
      BY <2>1, <2>5, <2>6, <2>7
  <1>10. Sound(d, Conns \ {c}, unchecked)
    BY <1>6, <1>7, <1>8, <1>9 DEF Sound
  <1> QED
    BY <1>10 DEF d

\* A request is not checked, and is pending.
LEMMA RequestKeeps ==
    ASSUME NEW d \in Tables, NEW S, NEW u, Sound(d, S, u),
           NEW o \in Outflows, d.status[o] = "NONE", NEW e,
           e = Move(WithStatus(d, Requested(o)), -Amount[o])
    PROVE  Sound(e, S, TRUE)
  <1>1. /\ e \in Tables
        /\ e.balance = d.balance - Amount[o] /\ e.rows = d.rows - Amount[o]
        /\ e.status = [d.status EXCEPT ![o] = "PENDING"]
        /\ e.charged = d.charged /\ e.payouts = d.payouts /\ e.refunds = d.refunds
    BY Requests
  <1>2. Caused(e) = Caused(d) - Amount[o]
    BY CausedRequest
  <1>3. d.balance \in Int /\ d.rows \in Int /\ Amount[o] \in Nat /\ Opening \in Nat
    BY AmountIsNat, LedgerAssumption DEF Tables
  <1>4. Balanced(e)
    BY <1>1, <1>2, <1>3 DEF Sound, Balanced
  <1>5. \A x \in Outflows : e.status[x] = IF x = o THEN "PENDING" ELSE d.status[x]
    BY <1>1 DEF Tables
  <1>6. Settled(e, S)
    BY <1>1, <1>5 DEF Sound, Settled
  <1>7. Reserved(e, S, TRUE)
    BY <1>1, <1>5 DEF Sound, Reserved
  <1> QED
    BY <1>4, <1>6, <1>7 DEF Sound

\* A new status of a payment changes nothing of this.
LEMMA SameKeeps ==
    ASSUME NEW d \in Tables, NEW e \in Tables, NEW S, NEW u, Sound(d, S, u),
           SameAccount(d, e), \A o \in Outflows : e.status[o] = d.status[o]
    PROVE  Sound(e, S, u)
  <1>1. Asked(e) = Asked(d) /\ Credited(e) = Credited(d) /\ Refunded(e) = Refunded(d)
    BY DEF Credited, Refunded, Asked, SameAccount
  <1>2. Caused(e) = Caused(d)
    BY <1>1 DEF Caused, SameAccount
  <1>3. Balanced(e) /\ (e.balance < 0 => u)
    BY <1>2 DEF Sound, Balanced, SameAccount
  <1>4. Settled(e, S)
    BY DEF Sound, Settled, SameAccount
  <1>5. Reserved(e, S, u)
    BY DEF Sound, Reserved, SameAccount
  <1> QED
    BY <1>3, <1>4, <1>5 DEF Sound

\* A deposit raises the balance.
LEMMA DepositKeeps ==
    ASSUME NEW d \in Tables, NEW S, NEW u, Sound(d, S, u), NEW p \in Payments
    PROVE  Sound(Deposited(d, p), S, u)
  <1> DEFINE e == Deposited(d, p)
  <1>1. /\ e \in Tables
        /\ e.balance = d.balance + Amount[p] /\ e.rows = d.rows + Amount[p]
        /\ e.charged = d.charged /\ e.status = d.status
        /\ e.payouts = d.payouts /\ e.refunds = d.refunds
    BY Deposits
  <1>2. Caused(e) = Caused(d) + Amount[p]
    BY CausedDeposit
  <1> HIDE DEF e
  <1>3. d.balance \in Int /\ d.rows \in Int /\ Amount[p] \in Nat /\ Opening \in Nat
    BY AmountIsNat, LedgerAssumption DEF Tables
  <1>4. Balanced(e) /\ (e.balance < 0 => u) /\ e.balance >= d.balance
    BY <1>1, <1>2, <1>3 DEF Sound, Balanced
  <1>5. Settled(e, S)
    BY <1>1 DEF Sound, Settled
  <1>6. Reserved(e, S, u)
    <2> SUFFICES ASSUME NEW k \in S, conn[k].work.row \in Prompts, ~u
                 PROVE  e.balance >= Amount[conn[k].work.row]
      BY <1>1 DEF Sound, Reserved
    <2>1. d.balance >= Amount[conn[k].work.row] /\ Amount[conn[k].work.row] \in Nat
      BY AmountIsNat DEF Sound, Reserved
    <2> QED
      BY <1>1, <1>3, <1>4, <2>1
  <1>7. Sound(e, S, u)
    BY <1>4, <1>5, <1>6 DEF Sound
  <1> QED
    BY <1>7 DEF e

\* A handler begins: its connection holds nothing after the commit, and what
\* it takes up is in the tables.
LEMMA SoundBegins ==
    ASSUME TypeOK, NEW c \in Conns, Begins(c) \/ \E t : Starts(c, t),
           asked' = asked, Sound(db', Conns \ {c}, unchecked'),
           \A q \in Prompts : task'[c].row = q => q \notin db'.charged,
           \A o \in Outflows : task'[c].row = o => db'.status[o] # "NONE"
    PROVE  SoundInv'
  <1>1. /\ conn'[c].work = NoWork
        /\ \A k \in Conns \ {c} : conn'[k] = conn[k] /\ task'[k] = task[k]
    BY FreshHeld DEF Begins, Starts, TypeOK
  <1>2. \A o \in Outflows : Pending(o)' \cap Conns = Pending(o) \cap (Conns \ {c})
    <2> TAKE o \in Outflows
    <2>1. o # NoWork.row
      BY NothingLocked DEF Items
    <2> QED
      BY <1>1, <2>1 DEF Pending, Conns
  <1>3. \A o \in Outflows : PendingIn(o, Conns)' = PendingIn(o, Conns \ {c})
    BY <1>2 DEF PendingIn
  <1>4. Settled(db, Conns)'
    BY <1>3 DEF Sound, Settled
  <1>5. Reserved(db, Conns, unchecked)'
    <2> SUFFICES ASSUME NEW k \in Conns
                 PROVE  /\ conn'[k].work.row \in Prompts /\ ~unchecked'
                             => db'.balance >= Amount[conn'[k].work.row]
                        /\ \A q \in Prompts : Uses(k, q)' => q \notin db'.charged
                        /\ \A o \in Outflows : Uses(k, o)' => db'.status[o] # "NONE"
      BY DEF Reserved
    <2>1. CASE k = c
      BY <1>1, <2>1, NothingLocked DEF Uses, Items
    <2>2. CASE k # c
      BY <1>1, <2>2 DEF Sound, Reserved, Uses
    <2> QED
      BY <2>1, <2>2
  <1> QED
    BY <1>4, <1>5 DEF SoundInv, Sound, Balanced, Caused, Credited, Refunded, Asked

\* A handler that begins and ends takes nothing up.
LEMMA SoundBeginsOnly ==
    ASSUME TypeOK, NEW c \in Conns, Begins(c),
           asked' = asked, Sound(db', Conns \ {c}, unchecked')
    PROVE  SoundInv'
  <1>1. task'[c].row \notin Items
    BY NothingLocked DEF Begins
  <1> QED
    BY <1>1, SoundBegins DEF Items

\* The tables stay, nothing new is taken up, and a settlement that is left on
\* a connection was asked for.
LEMMA SoundQuiet ==
    ASSUME TypeOK, SoundInv, db' = db, unchecked => unchecked',
           \A k \in Conns, i \in Items : Uses(k, i)' => Uses(k, i),
           \A k \in Conns : \/ conn'[k].work = conn[k].work
                            \/ conn'[k].work.row \notin Prompts
                            \/ unchecked' \/ db.balance >= Amount[conn'[k].work.row],
           \A o \in Outflows :
              \A n \in Int : n + PendingIn(o, Conns) <= asked[o]
                                => n + PendingIn(o, Conns)' <= asked'[o]
    PROVE  SoundInv'
  <1>1. Balanced(db)' /\ (db'.balance < 0 => unchecked')
    BY DEF SoundInv, Sound, Balanced, Caused, Credited, Refunded, Asked
  <1>2. Settled(db, Conns)'
    <2> SUFFICES ASSUME NEW o \in Outflows
                 PROVE  /\ db.payouts[o] + db.refunds[o] + PendingIn(o, Conns)' <= asked'[o]
                        /\ db.status[o] = "CONFIRMED" => db.payouts[o] > 0
                        /\ db.status[o] = "CANCELED" => db.refunds[o] > 0
      BY DEF Settled
    <2>1. db.payouts[o] + db.refunds[o] \in Int
      BY DEF TypeOK, Tables
    <2>2. /\ db.payouts[o] + db.refunds[o] + PendingIn(o, Conns) <= asked[o]
          /\ db.status[o] = "CONFIRMED" => db.payouts[o] > 0
          /\ db.status[o] = "CANCELED" => db.refunds[o] > 0
      BY DEF SoundInv, Sound, Settled
    <2> QED
      BY <2>1, <2>2
  <1>3. Reserved(db, Conns, unchecked)'
    BY DEF SoundInv, Sound, Reserved, Items
  <1> QED
    BY <1>1, <1>2, <1>3 DEF SoundInv, Sound

\* Settlements can only become fewer when no work is left on a connection.
LEMMA FewerPending ==
    ASSUME TypeOK, OwnInv, OwnInv', asked' = asked,
           \A k \in Conns : conn'[k].work = conn[k].work \/ conn'[k].work.row \notin Outflows
    PROVE  \A o \in Outflows :
              \A n \in Int : n + PendingIn(o, Conns) <= asked[o]
                                => n + PendingIn(o, Conns)' <= asked'[o]
  <1> TAKE o \in Outflows
  <1>1. Pending(o)' \cap Conns \subseteq Pending(o) \cap Conns
    BY DEF Pending
  <1>2. PendingIn(o, Conns) \in {0, 1} /\ (PendingIn(o, Conns) = 0 <=> Pending(o) \cap Conns = {})
    BY PendingOnce
  <1>3. PendingIn(o, Conns)' \in {0, 1} /\ (PendingIn(o, Conns)' = 0 <=> Pending(o)' \cap Conns = {})
    BY PendingBoundsNext DEF PendingBounds
  <1>4. asked[o] \in Nat
    BY DEF TypeOK
  <1> QED
    BY <1>1, <1>2, <1>3, <1>4

\* Handlers that end and connections that are cleaned leave the tables sound.
LEMMA SoundEnds ==
    ASSUME TypeOK, OwnInv, SoundInv, OwnInv', db' = db, unchecked' = unchecked, asked' = asked,
           \A k \in Conns : /\ conn'[k] = conn[k] \/ conn'[k] = Clean
                            /\ task'[k] = task[k] \/ task'[k] = Idle
    PROVE  SoundInv'
  <1>1. Clean.work = NoWork /\ NoWork.row \notin Prompts /\ NoWork.row \notin Outflows
    BY FreshHeld, NothingLocked DEF Items
  <1>2. \A k \in Conns, i \in Items : Uses(k, i)' => Uses(k, i)
    BY <1>1, NothingLocked DEF Uses
  <1>3. \A k \in Conns : \/ conn'[k].work = conn[k].work
                         \/ conn'[k].work.row \notin Prompts /\ conn'[k].work.row \notin Outflows
    BY <1>1
  <1> QED
    BY <1>2, <1>3, FewerPending, SoundQuiet

\* Initially nothing has happened.
LEMMA SoundInit == Init => SoundInv
  <1> SUFFICES ASSUME Init PROVE SoundInv
    OBVIOUS
  <1>1. /\ db.balance = Opening /\ db.rows = 0 /\ db.charged = {} /\ Opening \in Nat
        /\ \A o \in Outflows : db.status[o] = "NONE" /\ db.payouts[o] = 0 /\ db.refunds[o] = 0
                               /\ asked[o] = 0
        /\ \A p \in Payments : db.credits[p] = 0
    BY LedgerAssumption DEF Init
  <1>2. \A c \in Conns : conn[c] = Clean /\ task[c] = Idle
    BY DEF Init
  <1>3. \A p \in Payments : Credited(db)[p] = 0
    BY <1>1, AmountIsNat DEF Credited
  <1>4. \A o \in Outflows : Refunded(db)[o] = 0
    BY <1>1, AmountIsNat DEF Refunded
  <1>5. Asked(db) = {}
    BY <1>1 DEF Asked
  <1>6. Caused(db) = 0
    BY <1>1, <1>3, <1>4, <1>5, SumZero, SumEmpty DEF Caused
  <1>7. Balanced(db) /\ ~(db.balance < 0)
    BY <1>1, <1>6 DEF Balanced
  <1>8. Settled(db, Conns)
    <2> SUFFICES ASSUME NEW o \in Outflows PROVE PendingIn(o, Conns) = 0
      BY <1>1 DEF Settled
    <2>1. OwnInv
      BY OwnInit
    <2>2. Pending(o) = {}
      BY <1>2, NothingLocked, FreshHeld DEF Pending, Conns, Items
    <2> QED
      BY <2>1, <2>2, PendingOnce
  <1>9. Reserved(db, Conns, unchecked)
    BY <1>2, NothingLocked, FreshHeld DEF Reserved, Uses, Items
  <1> QED
    BY <1>7, <1>8, <1>9 DEF SoundInv, Sound

\* The tables stay sound when a payment is cancelled.
LEMMA SoundCancels ==
    ASSUME TypeOK, OwnInv, SoundInv, OwnInv', NEW c \in Conns, NEW p \in Payments,
           CancelPayment(c, p)
    PROVE  SoundInv'
  <1>1. task' = task /\ asked' = asked /\ unchecked' = unchecked
    BY DEF CancelPayment
  <1>2. CASE conn[c].open
    <2>1. conn' = [conn EXCEPT ![c].cancelled = @ \cup {p}] /\ db' = db
      BY <1>2 DEF CancelPayment
    <2>2. \A k \in Conns : conn'[k].work = conn[k].work
      BY <2>1 DEF TypeOK, Held
    <2>3. \A k \in Conns, i \in Items : Uses(k, i)' => Uses(k, i)
      BY <1>1, <2>2 DEF Uses
    <2> QED
      BY <1>1, <2>1, <2>2, <2>3, FewerPending, SoundQuiet
  <1>3. CASE ~conn[c].open
    <2>1. conn' = conn /\ db' = Cancelled(db, {p}) /\ db \in Tables
      BY <1>3 DEF CancelPayment, TypeOK
    <2>2. Sound(db', Conns, unchecked)
      BY <2>1, PaymentsCancelled, SameKeeps DEF SoundInv
    <2>3. \A o \in Outflows : PendingIn(o, Conns)' = PendingIn(o, Conns)
      BY <2>1 DEF PendingIn, Pending
    <2>4. \A k \in Conns, i \in Items : Uses(k, i)' = Uses(k, i)
      BY <1>1, <2>1 DEF Uses
    <2>5. Settled(db, Conns)'
      BY <1>1, <2>2, <2>3 DEF Sound, Settled
    <2>6. Reserved(db, Conns, unchecked)'
      BY <1>1, <2>1, <2>2, <2>4 DEF Sound, Reserved, Items
    <2> QED
      BY <1>1, <2>2, <2>5, <2>6
         DEF SoundInv, Sound, Balanced, Caused, Credited, Refunded, Asked
  <1> QED
    BY <1>2, <1>3

\* A prompt is charged on what was seen, or the balance has sunk since.
LEMMA SoundCharges ==
    ASSUME TypeOK, OwnInv, SoundInv, OwnInv', NEW c \in Conns, PromptCharge(c)
    PROVE  SoundInv'
  <1> DEFINE w == Work(task[c])
  <1>1. /\ task[c].row \in Prompts /\ db' = db /\ asked' = asked
        /\ conn' = [conn EXCEPT ![c].work = w] /\ task' = [task EXCEPT ![c] = Idle]
        /\ (unchecked \/ db.balance < task[c].seen) => unchecked'
    BY DEF PromptCharge
  <1>2. conn[c] = Begun /\ w.row = task[c].row /\ w.row \notin Outflows
    BY <1>1, HandlerTyped, RowsApart
  <1>3. /\ task[c].seen >= Amount[w.row] /\ task[c].seen \in Int /\ db.balance \in Int
        /\ Amount[w.row] \in Nat
    BY <1>1, <1>2, HandlerTyped, AmountIsNat DEF OwnInv, Seen, TypeOK, Tables
  <1>4. unchecked' \/ db.balance >= Amount[w.row]
    BY <1>1, <1>3
  <1> HIDE DEF w
  <1>5. /\ conn'[c].work = w /\ \A k \in Conns \ {c} : conn'[k] = conn[k]
        /\ task'[c] = Idle /\ \A k \in Conns \ {c} : task'[k] = task[k]
    BY <1>1, <1>2, FreshHeld DEF TypeOK, Held
  <1>6. \A k \in Conns, i \in Items : Uses(k, i)' => Uses(k, i)
    BY <1>2, <1>5, NothingLocked DEF Uses
  <1>7. \A k \in Conns : conn'[k].work = conn[k].work \/ conn'[k].work.row \notin Outflows
    BY <1>2, <1>5
  <1>8. \A k \in Conns : \/ conn'[k].work = conn[k].work
                         \/ unchecked' \/ db.balance >= Amount[conn'[k].work.row]
    BY <1>4, <1>5
  <1> QED
    BY <1>1, <1>6, <1>7, <1>8, FewerPending, SoundQuiet

\* A settlement is left on the connection of the administration, and counted.
LEMMA SoundWrites ==
    ASSUME TypeOK, OwnInv, SoundInv, OwnInv', NEW c \in AdminConns, UpdateWrite(c)
    PROVE  SoundInv'
  <1> DEFINE w == Work(task[c])
  <1>0. c \in Conns
    BY DEF Conns
  <1>1. /\ w.row \in Outflows /\ db' = db /\ unchecked' = unchecked
        /\ conn' = [conn EXCEPT ![c].work = w] /\ task' = [task EXCEPT ![c] = Idle]
        /\ asked' = [asked EXCEPT ![w.row] = @ + 1]
        /\ FreeFor(c, Touched(w))
    BY DEF UpdateWrite
  <1>2. conn[c] = Begun /\ w.row = task[c].row /\ w.row \notin Prompts
    BY <1>0, <1>1, HandlerTyped, RowsApart
  <1> HIDE DEF w
  <1>3. /\ conn'[c].work = w /\ \A k \in Conns \ {c} : conn'[k] = conn[k]
        /\ task'[c] = Idle /\ \A k \in Conns \ {c} : task'[k] = task[k]
    BY <1>0, <1>1, <1>2, FreshHeld DEF TypeOK, Held
  <1>4. \A k \in Conns, i \in Items : Uses(k, i)' => Uses(k, i)
    BY <1>2, <1>3, NothingLocked DEF Uses
  <1>5. \A k \in Conns : conn'[k].work = conn[k].work \/ conn'[k].work.row \notin Prompts
    BY <1>2, <1>3
  <1>6. ASSUME NEW o \in Outflows, NEW n \in Int, n + PendingIn(o, Conns) <= asked[o]
        PROVE  n + PendingIn(o, Conns)' <= asked'[o]
    <2>1. /\ PendingIn(o, Conns) \in {0, 1} /\ PendingIn(o, Conns)' \in {0, 1}
          /\ asked[o] \in Nat
      BY PendingOnce, PendingBoundsNext DEF PendingBounds, TypeOK
    <2>2. CASE o = w.row
      <3>1. asked'[o] = asked[o] + 1
        BY <1>1, <2>2 DEF TypeOK
      <3> QED
        BY <1>6, <2>1, <3>1
    <2>3. CASE o # w.row
      <3>1. Begun.work.row # o
        BY FreshHeld, NothingLocked DEF Items
      <3>2. Pending(o)' = Pending(o)
        BY <1>2, <1>3, <2>3, <3>1 DEF Pending, Conns
      <3>3. PendingIn(o, Conns)' = PendingIn(o, Conns) /\ asked'[o] = asked[o]
        BY <1>1, <2>3, <3>2 DEF PendingIn, TypeOK
      <3> QED
        BY <1>6, <3>3
    <2> QED
      BY <2>2, <2>3
  <1> QED
    BY <1>1, <1>4, <1>5, <1>6, SoundQuiet

\* Every step.
LEMMA SoundNext == TypeOK /\ OwnInv /\ SoundInv /\ [Next]_vars /\ OwnInv' => SoundInv'
  <1> SUFFICES ASSUME TypeOK, OwnInv, SoundInv, [Next]_vars, OwnInv' PROVE SoundInv'
    OBVIOUS
  <1>c. AppConns \subseteq Conns /\ AdminConns \subseteq Conns
    BY DEF Conns
  <1>f. \A c \in Conns : /\ Flushed(c) \in Tables
                         /\ Sound(Flushed(c), Conns \ {c}, unchecked)
    BY FlushFollows, FlushKeeps DEF Follows
  <1>1. ASSUME NEW c \in AppConns, NEW o \in Outflows, CreateOutflow(c, o)
        PROVE  SoundInv'
    <2>1. Begins(c) /\ asked' = asked /\ unchecked' = TRUE /\ Flushed(c).status[o] = "NONE"
      BY <1>1 DEF CreateOutflow, Begins
    <2>2. db' = Move(WithStatus(Flushed(c), Requested(o)), -Amount[o])
      BY <1>1 DEF CreateOutflow
    <2>3. Sound(db', Conns \ {c}, unchecked')
      BY <1>c, <1>f, <2>1, <2>2, RequestKeeps
    <2> QED
      BY <1>c, <2>1, <2>3, SoundBeginsOnly
  <1>2. ASSUME NEW c \in AppConns, NEW p \in Payments, PreparePayment(c, p)
        PROVE  SoundInv'
    <2>1. Begins(c) /\ asked' = asked /\ unchecked' = unchecked
      BY <1>2 DEF PreparePayment, Begins
    <2> DEFINE d == Flushed(c)
               w == Prepared(p)
    <2>2. w.row = p /\ w.to = "READY" /\ "READY" \in Statuses /\ d \in Tables
      BY <1>c, <1>f DEF Prepared, Statuses
    <2>w. db' = WithStatus(d, w)
      BY <1>2 DEF PreparePayment
    <2> HIDE DEF d, w
    <2>v. /\ db' \in Tables /\ SameAccount(d, db')
          /\ db'.status = [d.status EXCEPT ![p] = "READY"]
      BY <2>2, <2>w, StatusWritten
    <2>3. /\ db' \in Tables /\ SameAccount(Flushed(c), db')
          /\ db'.status = [Flushed(c).status EXCEPT ![p] = "READY"]
      BY <2>v DEF d
    <2>4. \A o \in Outflows : db'.status[o] = Flushed(c).status[o]
      BY <1>c, <1>f, <2>3, RowsApart DEF Tables
    <2>5. Sound(db', Conns \ {c}, unchecked')
      BY <1>c, <1>f, <2>1, <2>3, <2>4, SameKeeps
    <2> QED
      BY <1>c, <2>1, <2>5, SoundBeginsOnly
  <1>3. ASSUME NEW c \in AppConns, NEW p \in Payments, CompletePayment(c, p)
        PROVE  SoundInv'
    <2> DEFINE d == Flushed(c)
               w == [row |-> p, to |-> "PAID"]
               paid == WithStatus(d, w)
    <2>1. Begins(c) /\ asked' = asked /\ unchecked' = unchecked
      BY <1>3 DEF CompletePayment, Begins
    <2>w. w.row = p /\ w.to = "PAID" /\ "PAID" \in Statuses /\ d \in Tables
      BY <1>c, <1>f DEF Statuses
    <2>v. /\ paid \in Tables /\ SameAccount(d, paid)
          /\ paid.status = [d.status EXCEPT ![p] = "PAID"]
      <3> HIDE DEF d, w
      <3> QED
        BY <2>w, StatusWritten
    <2>2. /\ paid \in Tables /\ SameAccount(Flushed(c), paid)
          /\ paid.status = [Flushed(c).status EXCEPT ![p] = "PAID"]
      BY <2>v
    <2>3. db' = Deposited(paid, p) \/ db' = paid
      BY <1>3 DEF CompletePayment
    <2> HIDE DEF paid
    <2>4. \A o \in Outflows : paid.status[o] = Flushed(c).status[o]
      BY <1>c, <1>f, <2>2, RowsApart DEF Tables
    <2>5. Sound(paid, Conns \ {c}, unchecked)
      BY <1>c, <1>f, <2>2, <2>4, SameKeeps
    <2>6. Sound(db', Conns \ {c}, unchecked')
      BY <2>1, <2>2, <2>3, <2>5, DepositKeeps
    <2> QED
      BY <1>c, <2>1, <2>6, SoundBeginsOnly
  <1>4. ASSUME NEW c \in AppConns, NEW p \in Payments, CancelPayment(c, p)
        PROVE  SoundInv'
    BY <1>4, <1>c, SoundCancels
  <1>5. ASSUME NEW c \in AppConns, NEW q \in Prompts, PromptCheck(c, q)
        PROVE  SoundInv'
    <2> DEFINE t == [row |-> q, to |-> "charge", seen |-> Flushed(c).balance]
    <2>1. /\ task[c] = Idle /\ conn' = [conn EXCEPT ![c] = Begun] /\ db' = Flushed(c)
          /\ asked' = asked /\ unchecked' = unchecked /\ q \notin Flushed(c).charged
          /\ task' = task \/ task' = [task EXCEPT ![c] = t]
      BY <1>5 DEF PromptCheck
    <2>2. CASE task' = task
      <3>1. Begins(c)
        BY <2>1, <2>2 DEF Begins
      <3> QED
        BY <1>c, <1>f, <2>1, <3>1, SoundBeginsOnly
    <2>3. CASE task' = [task EXCEPT ![c] = t]
      <3>1. Starts(c, t) /\ task'[c] = t
        BY <1>c, <2>1, <2>3 DEF Starts, TypeOK
      <3>2. task'[c].row = q
        BY <3>1
      <3> HIDE DEF t
      <3> QED
        BY <1>c, <1>f, <2>1, <3>1, <3>2, SoundBegins, RowsApart
    <2> QED
      BY <2>1, <2>2, <2>3
  <1>6. ASSUME NEW c \in AppConns, CompleteUnknown(c) \/ BatchUpdateStockItemOpenPrice(c)
        PROVE  SoundInv'
    <2>1. Begins(c) /\ db' = Flushed(c) /\ asked' = asked /\ unchecked' = unchecked
      BY <1>6 DEF CompleteUnknown, BatchUpdateStockItemOpenPrice, Begins
    <2> QED
      BY <1>c, <1>f, <2>1, SoundBeginsOnly
  <1>7. ASSUME NEW c \in AppConns, PromptCharge(c)
        PROVE  SoundInv'
    BY <1>7, <1>c, SoundCharges
  <1>8. ASSUME NEW c \in AppConns, PromptTimesOut(c)
        PROVE  SoundInv'
    BY <1>8, <1>c, SoundEnds DEF PromptTimesOut, TypeOK
  <1>9. ASSUME NEW c \in AdminConns, NEW o \in Outflows, NEW to \in OutflowStatuses,
               UpdateCheck(c, o, to)
        PROVE  SoundInv'
    <2> DEFINE t == [row |-> o, to |-> to, seen |-> 0]
    <2>1. /\ task[c] = Idle /\ conn' = [conn EXCEPT ![c] = Begun] /\ db' = Flushed(c)
          /\ asked' = asked /\ unchecked' = unchecked /\ Flushed(c).status[o] # "NONE"
          /\ task' = task \/ task' = [task EXCEPT ![c] = t]
      BY <1>9 DEF UpdateCheck
    <2>2. CASE task' = task
      <3>1. Begins(c)
        BY <2>1, <2>2 DEF Begins
      <3> QED
        BY <1>c, <1>f, <2>1, <3>1, SoundBeginsOnly
    <2>3. CASE task' = [task EXCEPT ![c] = t]
      <3>1. Starts(c, t) /\ task'[c] = t
        BY <1>c, <2>1, <2>3 DEF Starts, TypeOK
      <3>2. task'[c].row = o
        BY <3>1
      <3> HIDE DEF t
      <3> QED
        BY <1>c, <1>f, <2>1, <3>1, <3>2, SoundBegins, RowsApart
    <2> QED
      BY <2>1, <2>2, <2>3
  <1>10. ASSUME NEW c \in AdminConns, UpdateWrite(c)
         PROVE  SoundInv'
    BY <1>10, SoundWrites
  <1>11. ASSUME NEW c \in AdminConns, UpdateTimesOut(c)
         PROVE  SoundInv'
    BY <1>11, <1>c, SoundEnds DEF UpdateTimesOut, TypeOK
  <1>12. ASSUME NEW c \in Conns, OtherTransaction(c)
         PROVE  SoundInv'
    <2>1. Begins(c) /\ db' = Flushed(c) /\ asked' = asked /\ unchecked' = unchecked
      BY <1>12 DEF Begins, OtherTransaction
    <2> QED
      BY <1>f, <2>1, SoundBeginsOnly
  <1>13. ASSUME NEW pool \in SUBSET Conns, Crash(pool)
         PROVE  SoundInv'
    BY <1>13, SoundEnds DEF Crash
  <1>14. ASSUME UNCHANGED vars
         PROVE  SoundInv'
    BY <1>14, SoundEnds DEF vars
  <1> QED
    BY <1>1, <1>2, <1>3, <1>4, <1>5, <1>6, <1>7, <1>8, <1>9, <1>10, <1>11, <1>12, <1>13,
       <1>14, <1>c DEF Next

----------------------------------------------------------------------------
(* The theorems                                                             *)

\* Every variable has its type, a connection without a transaction holds
\* nothing, and a handler between two queries is in one that holds nothing
\* yet (the pool of connections, src/src/services/prompt/prompt-action.service.ts).
THEOREM LedgerTypeCorrect == Spec => []TypeOK
  BY TypeInit, TypeNext, PTL DEF Spec

\* The three invariants together, the last of which needs the others.
LEMMA LedgerInvariant == Spec => [](TypeOK /\ OwnInv /\ SoundInv)
  <1>1. Init => TypeOK /\ OwnInv /\ SoundInv
    BY TypeInit, OwnInit, SoundInit
  <1>2. (TypeOK /\ OwnInv /\ SoundInv) /\ [Next]_vars => (TypeOK /\ OwnInv /\ SoundInv)'
    BY TypeNext, OwnNext, SoundNext
  <1> QED
    BY <1>1, <1>2, PTL DEF Spec

\* Row locks are exclusive: what one connection has written and not committed
\* no other has written too, however many transactions are left open.
THEOREM LocksStayApart == Spec => []Apart
  <1>1. OwnInv => Apart
    BY DEF OwnInv
  <1> QED
    BY <1>1, LedgerInvariant, PTL

\* The balance is what the history says, and every history row has its cause
\* (account.service.ts, increaseBalance and decreaseBalance with their history).
THEOREM AccountAgreesWithHistory == Spec => []LedgerBalanced
  <1>1. SoundInv => LedgerBalanced
    BY BalancedTables DEF SoundInv, Sound
  <1> QED
    BY <1>1, LedgerInvariant, PTL

\* Points go below zero only by an outflow or by a prompt that was charged
\* on a balance that had sunk since it was read (PromptActionService.prepare).
THEOREM OverdraftsAreUnchecked == Spec => []OverdrawnOnlyUnchecked
  <1>1. SoundInv => OverdrawnOnlyUnchecked
    BY DEF SoundInv, Sound, OverdrawnOnlyUnchecked
  <1> QED
    BY <1>1, LedgerInvariant, PTL

\* A settlement takes effect at most as often as it was asked for, and no
\* status is committed without its payout row or its refund
\* (AdminPaymentService.updateOutFlowStatus).
THEOREM SettlementsAsAsked == Spec => []SettledAsAsked
  <1>1. SoundInv => SettledAsAsked
    <2> SUFFICES ASSUME SoundInv PROVE SettledAsAsked
      OBVIOUS
    <2>1. \A o \in Outflows : Pending(o) \cap Conns = Pending(o)
      BY DEF Pending, Conns
    <2>2. \A o \in Outflows : PendingIn(o, Conns) = Cardinality(Pending(o))
      BY <2>1 DEF PendingIn
    <2> QED
      BY <2>2 DEF SoundInv, Sound, Settled, SettledAsAsked, EffectsAsAsked, StatusHasItsEffect
  <1> QED
    BY <1>1, LedgerInvariant, PTL

-----------------------------------------------------------------------------
(***************************************************************************)
(* Profits                                                                 *)
(***************************************************************************)


(* Sums and divisions                                                       *)

\* Adding up a column in any order gives its total.
LEMMA FoldIsSum ==
    ASSUME NEW S, IsFiniteSet(S), NEW f, \A x \in S : f[x] \in Nat
    PROVE  SumFunctionOnSet(f, S) = SumOver(S, f)
  <1> DEFINE first(s) == CHOOSE x \in s : TRUE
             Is(g) == g = [s \in SUBSET S |-> IF s = {} THEN 0 ELSE f[first(s)] + g[s \ {first(s)}]]
             iter == CHOOSE g : Is(g)
  <1>1. SumFunctionOnSet(f, S) = iter[S]
    BY DEF SumFunctionOnSet, FoldFunctionOnSet, MapThenFoldSet
  <1>2. ASSUME NEW T \in SUBSET S, T # {}
        PROVE  SumOver(T, f) = f[first(T)] + SumOver(T \ {first(T)}, f)
    <2>1. IsFiniteSet(T) /\ first(T) \in T
      BY <1>2, FS_Subset
    <2>2. SumOver(T, f) = SumOver(T \ {first(T)}, f) + f[first(T)]
      <3> HIDE DEF first
      <3> QED
        BY <2>1, SumSplit
    <2>3. SumOver(T \ {first(T)}, f) \in Nat /\ f[first(T)] \in Nat
      <3>1. IsFiniteSet(T \ {first(T)}) /\ \A x \in T \ {first(T)} : f[x] \in Nat
        BY <2>1, FS_Subset
      <3> HIDE DEF first
      <3> QED
        BY <2>1, <3>1, SumNat
    <2> HIDE DEF first
    <2> QED
      BY <2>2, <2>3
  <1>3. Is([s \in SUBSET S |-> SumOver(s, f)])
    <2> DEFINE g == [s \in SUBSET S |-> SumOver(s, f)]
    <2>1. \A T \in SUBSET S : g[T] = SumOver(T, f)
      OBVIOUS
    <2>2. ASSUME NEW T \in SUBSET S
          PROVE  g[T] = IF T = {} THEN 0 ELSE f[first(T)] + g[T \ {first(T)}]
      <3>1. CASE T = {}
        BY <3>1, <2>1, SumEmpty
      <3>2. CASE T # {}
        <4>1. T \ {first(T)} \in SUBSET S
          OBVIOUS
        <4> QED
          BY <3>2, <1>2, <2>1, <4>1
      <3> QED
        BY <3>1, <3>2
    <2>3. g = [s \in SUBSET S |-> g[s]]
      OBVIOUS
    <2> HIDE DEF g, first
    <2>4. Is(g)
      BY <2>2, <2>3
    <2> QED
      BY <2>4 DEF g
  <1>4. Is(iter)
    <2> HIDE DEF Is
    <2> QED
      BY <1>3
  <1> DEFINE C == {T \in SUBSET S : iter[T] # SumOver(T, f)}
  <1>5. SUFFICES ASSUME C # {}
                 PROVE  FALSE
    <2> HIDE DEF iter
    <2> QED
      BY <1>1
  <1>6. PICK T \in C : \A x \in T : T \ {x} \notin C
    <2>1. C \in SUBSET SUBSET S
      OBVIOUS
    <2> HIDE DEF C
    <2> QED
      BY <1>5, <2>1, SmallestSubset
  <1>7. T \in SUBSET S /\ iter[T] # SumOver(T, f)
    BY <1>6
  <1>8. iter[T] = IF T = {} THEN 0 ELSE f[first(T)] + iter[T \ {first(T)}]
    <2> HIDE DEF iter, first
    <2> QED
      BY <1>4, <1>7
  <1>9. T # {}
    <2> HIDE DEF iter
    <2> QED
      BY <1>7, <1>8, SumEmpty
  <1>10. iter[T \ {first(T)}] = SumOver(T \ {first(T)}, f)
    <2>1. first(T) \in T
      BY <1>9
    <2>2. T \ {first(T)} \in SUBSET S
      BY <1>7
    <2> HIDE DEF first, iter
    <2> QED
      BY <1>6, <2>1, <2>2
  <1>11. SumOver(T, f) = f[first(T)] + SumOver(T \ {first(T)}, f)
    BY <1>2, <1>7, <1>9
  <1> HIDE DEF iter, first
  <1> QED
    BY <1>7, <1>8, <1>9, <1>10, <1>11

\* Division leaves a rest that is less than the divisor.
LEMMA DivIs ==
    ASSUME NEW a \in Nat, NEW d \in Nat, d > 0
    PROVE  /\ a \div d \in Nat
           /\ (a \div d) * d <= a /\ a < (a \div d) * d + d
  OBVIOUS

-----------------------------------------------------------------------------
(* The calendar                                                             *)

\* The last day of a month is the sum of the lengths up to it.
LEMMA LastIs ==
    ASSUME NEW m \in 0 .. Len(Months)
    PROVE  /\ LastOf(m) \in Nat
           /\ m > 0 => LastOf(m) = LastOf(m - 1) + Months[m]
  <1> DEFINE f(k) == [i \in 1..k |-> Months[i]]
  <1>1. Months \in Seq(Nat \ {0}) /\ Len(Months) \in Nat
    BY MonthsAssumption
  <1>2. ASSUME NEW k \in 0 .. Len(Months)
        PROVE  /\ IsFiniteSet(1..k) /\ \A i \in 1..k : Months[i] \in Nat \ {0} /\ f(k)[i] \in Nat
               /\ LastOf(k) = SumOver(1..k, f(k)) /\ LastOf(k) \in Nat
    <2>1. IsFiniteSet(1..k)
      BY <1>1, FS_Interval
    <2>2. \A i \in 1..k : Months[i] \in Nat \ {0}
      BY <1>1
    <2>3. \A i \in 1..k : f(k)[i] \in Nat
      BY <2>2
    <2>4. LastOf(k) = SumFunctionOnSet(f(k), 1..k)
      BY DEF LastOf
    <2> HIDE DEF f
    <2>5. LastOf(k) = SumOver(1..k, f(k))
      BY <2>1, <2>3, <2>4, FoldIsSum
    <2>6. LastOf(k) \in Nat
      BY <2>1, <2>3, <2>5, SumNat
    <2> QED
      BY <2>1, <2>2, <2>3, <2>5, <2>6
  <1>3. ASSUME m > 0
        PROVE  LastOf(m) = LastOf(m - 1) + Months[m]
    <2>1. m - 1 \in 0 .. Len(Months) /\ m \in 1..m /\ (1..m) \ {m} = 1..(m - 1)
      BY <1>1, <1>3
    <2>2. f(m)[m] = Months[m] /\ \A i \in 1..(m - 1) : f(m)[i] = f(m - 1)[i]
      BY <2>1
    <2> HIDE DEF f
    <2>3. IsFiniteSet(1..m) /\ \A i \in 1..m : f(m)[i] \in Nat
      BY <1>2
    <2>4. SumOver(1..m, f(m)) = SumOver((1..m) \ {m}, f(m)) + f(m)[m]
      <3> DEFINE S == 1..m
      <3>1. IsFiniteSet(S) /\ m \in S
        BY <2>1, <2>3
      <3>2. \A i \in S : f(m)[i] \in Nat
        BY <2>3
      <3> HIDE DEF S
      <3>3. SumOver(S, f(m)) = SumOver(S \ {m}, f(m)) + f(m)[m]
        BY <3>1, <3>2, SumSplit
      <3> QED
        BY <3>3 DEF S
    <2>5. SumOver(1..(m - 1), f(m)) = SumOver(1..(m - 1), f(m - 1))
      BY <2>2, SumSame
    <2> QED
      BY <1>2, <2>1, <2>2, <2>4, <2>5
  <1> QED
    BY <1>2, <1>3

\* Months follow one another.
LEMMA LastGrows ==
    ASSUME NEW i \in 0 .. Len(Months), NEW j \in 0 .. Len(Months), i <= j
    PROVE  LastOf(i) <= LastOf(j)
  <1> DEFINE P == {k \in 0 .. Len(Months) : i <= k => LastOf(i) <= LastOf(k)}
  <1>1. Months \in Seq(Nat \ {0}) /\ Len(Months) \in Nat
    BY MonthsAssumption
  <1>2. 0 \in P
    BY <1>1, LastIs
  <1>3. ASSUME NEW k \in 0 .. Len(Months) - 1, k \in P
        PROVE  k + 1 \in P
    <2>1. k + 1 \in 0 .. Len(Months) /\ k + 1 > 0 /\ (k + 1) - 1 = k
      BY <1>1
    <2>2. LastOf(k + 1) = LastOf(k) + Months[k + 1] /\ Months[k + 1] \in Nat
      BY <1>1, <2>1, LastIs
    <2>3. LastOf(k) \in Nat /\ LastOf(i) \in Nat
      BY <1>3, LastIs
    <2>4. i <= k + 1 => i <= k \/ i = k + 1
      BY <1>1
    <2> QED
      BY <1>3, <2>1, <2>2, <2>3, <2>4
  <1>4. \A k \in 0 .. Len(Months) : k \in P
    <2> HIDE DEF P
    <2> QED
      BY <1>1, <1>2, <1>3, CountingUp
  <1> QED
    BY <1>4

\* Every day is of one month.
LEMMA MonthIs ==
    ASSUME NEW d \in Days
    PROVE  /\ MonthOf(d) \in DOMAIN Months /\ d \in Nat
           /\ \A k \in DOMAIN Months : MonthOf(d) = k <=> FirstOf(k) <= d /\ d <= LastOf(k)
  <1> DEFINE In(k) == FirstOf(k) <= d /\ d <= LastOf(k)
             ids == {k \in 0 .. Len(Months) : d <= LastOf(k)}
  <1>1. Months \in Seq(Nat \ {0}) /\ Len(Months) \in Nat /\ DOMAIN Months = 1 .. Len(Months)
    BY MonthsAssumption
  <1>2. \A k \in 0 .. Len(Months) : LastOf(k) \in Nat
    BY LastIs
  <1>3. d \in Nat /\ d > 0 /\ d <= LastOf(Len(Months))
    BY <1>1, <1>2 DEF Days
  <1>4. PICK m \in ids : \A j \in ids : m <= j
    <2>1. ids \in SUBSET Nat /\ ids # {}
      BY <1>1, <1>3
    <2> HIDE DEF ids
    <2> QED
      BY <2>1, LowestId
  <1>5. m \in DOMAIN Months /\ In(m)
    <2>1. m # 0
      <3>1. LastOf(0) = 0
        <4>1. LastOf(0) = SumFunctionOnSet([k \in 1..0 |-> Months[k]], 1..0) /\ 1..0 = {}
          BY DEF LastOf
        <4> DEFINE f == [k \in 1..0 |-> Months[k]]
        <4>2. IsFiniteSet({}) /\ \A k \in {} : f[k] \in Nat
          BY FS_EmptySet
        <4> HIDE DEF f
        <4>3. SumFunctionOnSet(f, {}) = 0
          BY <4>2, FoldIsSum, SumEmpty
        <4> QED
          BY <4>1, <4>3 DEF f
      <3> QED
        BY <1>3, <3>1
    <2>2. m - 1 \in 0 .. Len(Months) /\ m - 1 \notin ids
      BY <1>1, <1>4, <2>1
    <2>3. ~(d <= LastOf(m - 1))
      BY <2>2
    <2>4. m \in DOMAIN Months /\ d <= LastOf(m)
      BY <1>1, <2>1
    <2>5. PICK a \in Nat : a = LastOf(m - 1)
      BY <1>2, <2>2
    <2>6. a + 1 <= d
      BY <1>3, <2>3, <2>5
    <2> QED
      BY <2>4, <2>5, <2>6 DEF FirstOf
  <1>6. ASSUME NEW i \in DOMAIN Months, NEW j \in DOMAIN Months, In(i), In(j)
        PROVE  ~(i < j)
    <2>1. SUFFICES ASSUME i < j PROVE FALSE
      OBVIOUS
    <2>2. j - 1 \in 0 .. Len(Months) /\ i \in 0 .. Len(Months) /\ i <= j - 1
      BY <1>1, <2>1
    <2>3. LastOf(i) <= LastOf(j - 1)
      BY <2>2, LastGrows
    <2> QED
      BY <1>2, <1>3, <1>6, <2>2, <2>3 DEF FirstOf
  <1>7. \A i, j \in DOMAIN Months : In(i) /\ In(j) => i = j
    BY <1>1, <1>6
  <1>8. MonthOf(d) = CHOOSE k \in DOMAIN Months : In(k)
    BY DEF MonthOf
  <1> HIDE DEF In
  <1>9. MonthOf(d) \in DOMAIN Months /\ In(MonthOf(d))
    BY <1>5, <1>8
  <1>10. \A k \in DOMAIN Months : MonthOf(d) = k <=> In(k)
    BY <1>7, <1>9
  <1> QED
    BY <1>3, <1>9, <1>10 DEF In

-----------------------------------------------------------------------------
(* Sums over rows                                                           *)

\* A table of amounts, and its column.
Amounted(t) == IsFiniteSet(DOMAIN t) /\ \A k \in DOMAIN t : t[k].amount \in Nat
AmountOf(t) == [k \in DOMAIN t |-> t[k].amount]

\* What is added up is the total of the column.
LEMMA SumOfIs ==
    ASSUME NEW t, Amounted(t), NEW rows \in SUBSET DOMAIN t
    PROVE  /\ IsFiniteSet(rows) /\ \A k \in rows : AmountOf(t)[k] \in Nat
           /\ SumOf(rows, t) = SumOver(rows, AmountOf(t)) /\ SumOf(rows, t) \in Nat
  <1> DEFINE g == [k \in rows |-> t[k].amount]
  <1>1. IsFiniteSet(rows)
    BY FS_Subset DEF Amounted
  <1>2. \A k \in rows : g[k] = AmountOf(t)[k]
    BY DEF AmountOf
  <1>3. \A k \in rows : AmountOf(t)[k] \in Nat
    BY DEF Amounted, AmountOf
  <1>4. \A k \in rows : g[k] \in Nat
    BY <1>2, <1>3
  <1>5. SumOf(rows, t) = SumFunctionOnSet(g, rows)
    BY DEF SumOf
  <1> HIDE DEF g
  <1>6. SumFunctionOnSet(g, rows) = SumOver(rows, g)
    BY <1>1, <1>4, FoldIsSum
  <1>7. SumOver(rows, g) = SumOver(rows, AmountOf(t))
    BY <1>2, SumSame
  <1>8. SumOver(rows, g) \in Nat
    BY <1>1, <1>4, SumNat
  <1> QED
    BY <1>1, <1>3, <1>5, <1>6, <1>7, <1>8

\* Fewer rows are not more.
LEMMA SumOfFewer ==
    ASSUME NEW t, Amounted(t), NEW rows \in SUBSET DOMAIN t, NEW some \in SUBSET rows
    PROVE  SumOf(some, t) <= SumOf(rows, t)
  <1>1. /\ IsFiniteSet(rows) /\ SumOf(rows, t) = SumOver(rows, AmountOf(t))
        /\ SumOf(some, t) = SumOver(some, AmountOf(t))
    BY SumOfIs
  <1>2. \A k \in rows : AmountOf(t)[k] \in Nat
    BY SumOfIs
  <1>3. SumOver(some, AmountOf(t)) <= SumOver(rows, AmountOf(t))
    BY <1>1, <1>2, SumPart
  <1> QED
    BY <1>1, <1>3

\* The rows of two kinds have the total of all.
LEMMA SumOfBoth ==
    ASSUME NEW t, Amounted(t), NEW A \in SUBSET DOMAIN t, NEW B \in SUBSET DOMAIN t,
           A \cap B = {}
    PROVE  SumOf(A \cup B, t) = SumOf(A, t) + SumOf(B, t)
  <1>1. A \cup B \in SUBSET DOMAIN t
    OBVIOUS
  <1>2. /\ SumOf(A, t) = SumOver(A, AmountOf(t)) /\ SumOf(B, t) = SumOver(B, AmountOf(t))
        /\ SumOf(A \cup B, t) = SumOver(A \cup B, AmountOf(t))
        /\ IsFiniteSet(A) /\ IsFiniteSet(B)
    BY <1>1, SumOfIs
  <1>3. \A k \in A \cup B : AmountOf(t)[k] \in Nat
    BY <1>1, SumOfIs
  <1>4. SumOver(A \cup B, AmountOf(t)) = SumOver(A, AmountOf(t)) + SumOver(B, AmountOf(t))
    BY <1>2, <1>3, SumUnion
  <1> QED
    BY <1>2, <1>4

\* Rows of a table, each counted for one of U.
Grouped(t, rows, U, owner, g) ==
    /\ rows \in SUBSET DOMAIN t /\ \A k \in rows : owner[k] \in U
    /\ \A u \in U : g[u] = SumOf({k \in rows : owner[k] = u}, t)

\* Rows that are counted each for one of U are all counted.
LEMMA SumOfGroups ==
    ASSUME NEW t, Amounted(t), NEW rows, NEW U, IsFiniteSet(U), NEW owner, NEW g,
           Grouped(t, rows, U, owner, g)
    PROVE  /\ \A u \in U : g[u] \in Nat
           /\ SumFunctionOnSet(g, U) = SumOf(rows, t) /\ SumOver(U, g) = SumOf(rows, t)
  <1> DEFINE group == [u \in U |-> {k \in rows : owner[k] = u}]
             f == AmountOf(t)
  <1> rows \in SUBSET DOMAIN t /\ \A k \in rows : owner[k] \in U
    BY DEF Grouped
  <1>1. /\ IsFiniteSet(rows)
        /\ SumOf(rows, t) = SumOver(rows, AmountOf(t))
    BY SumOfIs
  <1>2. \A k \in rows : f[k] \in Nat
    BY SumOfIs
  <1>3. \A u \in U : group[u] \in SUBSET DOMAIN t /\ g[u] = SumOf(group[u], t)
    BY DEF Grouped
  <1>4. \A u \in U : g[u] = SumOver(group[u], f) /\ g[u] \in Nat
    <2> HIDE DEF group
    <2> QED
      BY <1>3, SumOfIs
  <1>5. \A u \in U : \A k : k \in group[u] <=> k \in rows /\ owner[k] = u
    OBVIOUS
  <1> HIDE DEF group, f
  <1>6. \A u \in U : g[u] = SumOver(group[u], f)
    BY <1>4
  <1>7. SumOver(U, g) = SumOver(rows, f)
    BY <1>1, <1>2, <1>5, <1>6, SumGrouped
  <1>8. \A u \in U : g[u] \in Nat
    BY <1>4
  <1>9. SumFunctionOnSet(g, U) = SumOver(U, g)
    BY <1>8, FoldIsSum
  <1> QED
    BY <1>1, <1>7, <1>8, <1>9 DEF f

\* The bars of a chart add up to the total of its rows.
LEMMA ChartAddsUp ==
    ASSUME NEW t, Amounted(t), NEW rows \in SUBSET DOMAIN t,
           NEW keys, IsFiniteSet(keys), NEW keyOf
    PROVE  LET c == Chart(keys, rows, t, keyOf)
           IN  SumFunctionOnSet(c, DOMAIN c) = SumOf(rows, t)
  <1> DEFINE owner == [k \in rows |-> keyOf[t[k].day]]
             U == keys \cup {keyOf[t[k].day] : k \in rows}
             c == Chart(keys, rows, t, keyOf)
  <1>1. IsFiniteSet(rows)
    BY SumOfIs
  <1>2. IsFiniteSet({keyOf[t[k].day] : k \in rows})
    <2> DEFINE R == {keyOf[t[k].day] : k \in rows}
    <2>1. owner \in Surjection(rows, R)
      BY DEF Surjection
    <2> HIDE DEF R, owner
    <2>2. IsFiniteSet(R)
      BY <1>1, <2>1, FS_Surjection
    <2> QED
      BY <2>2 DEF R
  <1>3. IsFiniteSet(U)
    <2> DEFINE R == {keyOf[t[k].day] : k \in rows}
    <2> HIDE DEF R
    <2>1. IsFiniteSet(keys \cup R)
      BY <1>2, FS_Union DEF R
    <2> QED
      BY <2>1 DEF R
  <1>4. \A k \in rows : owner[k] \in U
    OBVIOUS
  <1>5. DOMAIN c = U /\ \A u \in U : c[u] = SumOf({k \in rows : keyOf[t[k].day] = u}, t)
    BY DEF Chart
  <1>6. \A u \in U : {k \in rows : keyOf[t[k].day] = u} = {k \in rows : owner[k] = u}
    OBVIOUS
  <1>7. \A u \in U : c[u] = SumOf({k \in rows : owner[k] = u}, t)
    BY <1>5, <1>6
  <1> HIDE DEF c, owner, U
  <1>8. SumFunctionOnSet(c, U) = SumOf(rows, t)
    <2>1. Grouped(t, rows, U, owner, c)
      BY <1>4, <1>7 DEF Grouped
    <2> QED
      BY <1>3, <2>1, SumOfGroups
  <1> QED
    BY <1>5, <1>8 DEF c

-----------------------------------------------------------------------------
(* The parts of a profit                                                    *)

\* A multiple grows with its factor.
LEMMA MoreTimes ==
    ASSUME NEW a \in Nat, NEW b \in Nat, a <= b, NEW d \in Nat
    PROVE  a * d <= b * d
  <1>1. PICK c \in Nat : b = a + c
    <2>1. b - a \in Nat /\ b = a + (b - a)
      OBVIOUS
    <2> QED
      BY <2>1
  <1>2. b * d = a * d + c * d /\ c * d \in Nat /\ a * d \in Nat
    BY <1>1
  <1> QED
    BY <1>2

\* The parts of any profit make a hundred, or one more.
LEMMA PartsMakeHundred ==
    ASSUME NEW m \in Nat, NEW s \in Nat, m + s # 0
    PROVE  MarketPercent(m, s) + StockPercent(m, s) \in {100, 101}
  <1> DEFINE y == m + s
             d == 2 * y
             a == 2 * (100 * m) + y
             b == 2 * (100 * s) + y
             p == a \div d
             q == b \div d
  <1>1. y \in Nat /\ d \in Nat /\ d > 0 /\ a \in Nat /\ b \in Nat /\ a + b = 101 * d
    OBVIOUS
  <1>2. p = MarketPercent(m, s) /\ q = StockPercent(m, s)
    BY DEF MarketPercent, StockPercent, Round
  <1> HIDE DEF y, d, a, b
  <1>3. /\ p \in Nat /\ p * d <= a /\ a < p * d + d
        /\ q \in Nat /\ q * d <= b /\ b < q * d + d
    BY <1>1, DivIs
  <1> HIDE DEF p, q
  <1>4. (p + q) * d = p * d + q * d /\ p * d \in Nat /\ q * d \in Nat
    BY <1>1, <1>3
  <1>5. PICK z \in Nat : z = (p + q) * d /\ z <= 101 * d /\ 101 * d < z + 2 * d
    BY <1>1, <1>3, <1>4
  <1>6. ~(102 <= p + q)
    <2>1. 102 <= p + q => 102 * d <= z
      BY <1>1, <1>3, <1>5, MoreTimes
    <2>2. ~(102 * d <= z)
      BY <1>1, <1>5
    <2> QED
      BY <2>1, <2>2
  <1>7. ~(p + q <= 99)
    <2>1. p + q <= 99 => z <= 99 * d
      BY <1>1, <1>3, <1>5, MoreTimes
    <2>2. ~(z <= 99 * d)
      BY <1>1, <1>5
    <2> QED
      BY <2>1, <2>2
  <1> QED
    BY <1>2, <1>3, <1>6, <1>7

-----------------------------------------------------------------------------
(* Rows that are added                                                      *)

\* What rows add up to depends on them only.
LEMMA SumOfAgree ==
    ASSUME NEW t, NEW u, NEW rows, \A k \in rows : u[k] = t[k]
    PROVE  SumOf(rows, u) = SumOf(rows, t)
  <1>1. [k \in rows |-> u[k].amount] = [k \in rows |-> t[k].amount]
    OBVIOUS
  <1> QED
    BY <1>1 DEF SumOf

\* A table of rows is a table of amounts.
LEMMA RowsAreAmounts ==
    ASSUME NEW R, \A x \in R : x.amount \in Nat, NEW t \in Seq(R)
    PROVE  Amounted(t)
  <1>1. DOMAIN t = 1 .. Len(t) /\ Len(t) \in Nat /\ \A k \in DOMAIN t : t[k] \in R
    OBVIOUS
  <1>2. IsFiniteSet(DOMAIN t)
    BY <1>1, FS_Interval
  <1> QED
    BY <1>1, <1>2 DEF Amounted

\* What a row that is added changes in sums: nothing without, its amount with it.
Adds(t, u, x) ==
    \A rows \in SUBSET DOMAIN t :
        /\ SumOf(rows, u) = SumOf(rows, t) /\ SumOf(rows, t) \in Nat
        /\ SumOf(rows \cup {Len(t) + 1}, u) = SumOf(rows, t) + x.amount

\* A row that is added adds its amount, and leaves what other rows add up to.
LEMMA RowAdded ==
    ASSUME NEW R, \A x \in R : x.amount \in Nat, NEW t \in Seq(R), NEW x \in R,
           NEW u, u = Append(t, x)
    PROVE  /\ u \in Seq(R) /\ DOMAIN u = DOMAIN t \cup {Len(t) + 1}
           /\ Len(t) + 1 \notin DOMAIN t
           /\ u[Len(t) + 1] = x /\ \A k \in DOMAIN t : u[k] = t[k]
           /\ Adds(t, u, x)
  <1> DEFINE n == Len(t) + 1
  <1>1. /\ u \in Seq(R) /\ DOMAIN u = DOMAIN t \cup {n} /\ n \notin DOMAIN t
        /\ u[n] = x /\ \A k \in DOMAIN t : u[k] = t[k]
    BY Appended
  <1>2. Amounted(t) /\ Amounted(u)
    BY <1>1, RowsAreAmounts
  <1>3. ASSUME NEW rows \in SUBSET DOMAIN t
        PROVE  /\ SumOf(rows, u) = SumOf(rows, t) /\ SumOf(rows, t) \in Nat
               /\ SumOf(rows \cup {n}, u) = SumOf(rows, t) + x.amount
    <2>1. SumOf(rows, u) = SumOf(rows, t)
      BY <1>1, SumOfAgree
    <2>2. SumOf(rows, t) \in Nat
      BY <1>2, SumOfIs
    <2>3. rows \in SUBSET DOMAIN u /\ {n} \in SUBSET DOMAIN u /\ rows \cap {n} = {}
      BY <1>1
    <2> HIDE DEF n
    <2>4. SumOf(rows \cup {n}, u) = SumOf(rows, u) + SumOf({n}, u)
      BY <1>2, <2>3, SumOfBoth
    <2>5. SumOf({n}, u) = SumOver({n}, AmountOf(u))
      BY <1>2, <2>3, SumOfIs
    <2>6. AmountOf(u)[n] = x.amount /\ x.amount \in Nat
      BY <1>1 DEF AmountOf
    <2>7. SumOver({n}, AmountOf(u)) = x.amount
      BY <2>6, SumSingle
    <2> QED
      BY <2>1, <2>2, <2>4, <2>5, <2>7
  <1> QED
    BY <1>1, <1>3 DEF Adds

-----------------------------------------------------------------------------
(* The invariant                                                            *)

SaleRow == [seller : Users, day : Nat, amount : Nat, shared : BOOLEAN]
PayoutRow == [holder : Users, day : Nat, amount : Nat]

\* No row is of a day to come.
Dated(d) == d \in 1..today
BooksTyped ==
    /\ today \in Days
    /\ sales \in Seq(SaleRow) /\ \A k \in DOMAIN sales : Dated(sales[k].day)
    /\ payouts \in Seq(PayoutRow) /\ \A k \in DOMAIN payouts : Dated(payouts[k].day)
    /\ \A s \in open : s \in SaleRow /\ s.shared /\ Dated(s.day)

SharedSales(b) == {k \in Between(sales, 1, b) : sales[k].shared}
SharedBy(b) == SumOf(SharedSales(b), sales)
PaidBy(b) == SumOf(Between(payouts, 1, b), payouts)

\* A shared sale is paid out on its day or later, in full.
PaidInFull == PaidBy(today) = SharedBy(today) /\ \A b \in 1..today : PaidBy(b) <= SharedBy(b)

\* The overview, as far as its parts depend on it.
Parts(p) == p = <<>> \/ \E m, s \in Nat : m + s # 0 /\ p = <<MarketPercent(m, s), StockPercent(m, s)>>
ReportOK(r) ==
    /\ r.phase = "stock" => r.market \in Nat
    /\ r.phase = "done" => Parts(r.parts)

ProfitInv == BooksTyped /\ PaidInFull /\ ReportOK(report)

\* Days are counted from one.
LEMMA DaysAre ==
    /\ Days \subseteq Nat \ {0}
    /\ \A d \in Days : 1..d \subseteq Days
    /\ \A d \in Days : \A e \in 1..d : e \in Nat /\ e >= 1
  <1>1. Len(Months) \in 0 .. Len(Months)
    BY MonthsAssumption
  <1>2. LastOf(Len(Months)) \in Nat
    BY <1>1, LastIs
  <1> QED
    BY <1>2 DEF Days

\* The books are tables of amounts.
LEMMA BooksAmount ==
    ASSUME BooksTyped
    PROVE  Amounted(sales) /\ Amounted(payouts)
  <1>1. (\A x \in SaleRow : x.amount \in Nat) /\ (\A x \in PayoutRow : x.amount \in Nat)
    BY DEF SaleRow, PayoutRow
  <1> QED
    BY <1>1, RowsAreAmounts DEF BooksTyped

\* Until today are all rows.
LEMMA UntilToday ==
    ASSUME BooksTyped
    PROVE  /\ Between(sales, 1, today) = DOMAIN sales
           /\ Between(payouts, 1, today) = DOMAIN payouts
           /\ SharedSales(today) = {k \in DOMAIN sales : sales[k].shared}
           /\ \A b : Between(sales, 1, b) \subseteq DOMAIN sales
           /\ \A b : Between(payouts, 1, b) \subseteq DOMAIN payouts
           /\ \A b : SharedSales(b) \subseteq DOMAIN sales
  <1>1. today \in Nat
    BY DaysAre DEF BooksTyped
  <1>2. \A k \in DOMAIN sales : 1 <= sales[k].day /\ sales[k].day <= today
    BY <1>1 DEF BooksTyped, Dated
  <1>3. \A k \in DOMAIN payouts : 1 <= payouts[k].day /\ payouts[k].day <= today
    BY <1>1 DEF BooksTyped, Dated
  <1> QED
    BY <1>2, <1>3 DEF Between, SharedSales

\* Payouts that add n to what is paid until today, and nothing before.
PaidTable(p) == p \in Seq(PayoutRow) /\ \A k \in DOMAIN p : Dated(p[k].day)
Pays(p, q, n) ==
    /\ SumOf(Between(p, 1, today), p) \in Nat
    /\ SumOf(Between(q, 1, today), q) = SumOf(Between(p, 1, today), p) + n
    /\ \A b \in 1..today : b < today => SumOf(Between(q, 1, b), q) = SumOf(Between(p, 1, b), p)

\* A payout of today counts today.
LEMMA PaidMore ==
    ASSUME today \in Days, NEW p, PaidTable(p),
           NEW x \in PayoutRow, x.day = today, NEW q, q = Append(p, x)
    PROVE  PaidTable(q) /\ Pays(p, q, x.amount)
  <1> DEFINE n == Len(p) + 1
  <1>1. (\A y \in PayoutRow : y.amount \in Nat) /\ p \in Seq(PayoutRow)
    BY DEF PayoutRow, PaidTable
  <1>2. /\ q \in Seq(PayoutRow) /\ DOMAIN q = DOMAIN p \cup {n} /\ n \notin DOMAIN p
        /\ q[n] = x /\ \A k \in DOMAIN p : q[k] = p[k]
    BY <1>1, RowAdded
  <1>3. \A rows \in SUBSET DOMAIN p :
           /\ SumOf(rows, q) = SumOf(rows, p) /\ SumOf(rows, p) \in Nat
           /\ SumOf(rows \cup {n}, q) = SumOf(rows, p) + x.amount
    <2>1. Adds(p, q, x)
      BY <1>1, RowAdded
    <2> QED
      BY <2>1 DEF Adds
  <1>4. today \in Nat /\ today >= 1 /\ \A b \in 1..today : b \in Nat /\ b >= 1
    BY DaysAre
  <1>5. \A k \in DOMAIN q : Dated(q[k].day)
    <2>1. Dated(today)
      BY <1>4 DEF Dated
    <2> QED
      BY <1>2, <2>1 DEF PaidTable
  <1>6. \A k \in DOMAIN p : 1 <= p[k].day /\ p[k].day <= today
    BY <1>4 DEF Dated, PaidTable
  <1>7. Between(q, 1, today) = Between(p, 1, today) \cup {n}
    BY <1>2, <1>4, <1>6 DEF Between
  <1>8. \A b \in 1..today : b < today => Between(q, 1, b) = Between(p, 1, b)
    BY <1>2, <1>4 DEF Between
  <1>9. \A b : Between(p, 1, b) \in SUBSET DOMAIN p
    BY DEF Between
  <1> HIDE DEF n
  <1>10. Pays(p, q, x.amount)
    BY <1>3, <1>7, <1>8, <1>9 DEF Pays
  <1> QED
    BY <1>2, <1>5, <1>10 DEF PaidTable

\* Two payouts are paid one after the other.
LEMMA PaidBoth ==
    ASSUME NEW p \in Seq(PayoutRow), NEW x \in PayoutRow, NEW y \in PayoutRow
    PROVE  /\ p \o <<x>> = Append(p, x)
           /\ p \o <<x, y>> = Append(Append(p, x), y)
  <1> DEFINE a == <<x>>
             b == <<y>>
             c == <<x, y>>
  <1>1. a \in Seq(PayoutRow) /\ b \in Seq(PayoutRow) /\ Append(p, x) \in Seq(PayoutRow)
    OBVIOUS
  <1>2. Append(a, y) = c
    <2>1. /\ Append(a, y) \in Seq(PayoutRow) /\ Len(Append(a, y)) = 2
          /\ Append(a, y)[1] = x /\ Append(a, y)[2] = y
      OBVIOUS
    <2>2. c \in Seq(PayoutRow) /\ Len(c) = 2 /\ c[1] = x /\ c[2] = y
      OBVIOUS
    <2> HIDE DEF a, c
    <2>3. \A i \in 1 .. 2 : i = 1 \/ i = 2
      OBVIOUS
    <2> QED
      BY <2>1, <2>2, <2>3, SeqEqual
  <1>3. Append(a, y) = a \o b /\ Append(p, x) = p \o a
        /\ Append(Append(p, x), y) = Append(p, x) \o b
    <2> HIDE DEF a
    <2>1. Append(a, y) = a \o b /\ Append(Append(p, x), y) = Append(p, x) \o b
      BY <1>1, AppendIsConcat
    <2>2. Append(p, x) = p \o a
      BY AppendIsConcat DEF a
    <2> QED
      BY <2>1, <2>2
  <1> HIDE DEF a, b, c
  <1>4. (p \o a) \o b = p \o (a \o b)
    BY <1>1, ConcatAssociative
  <1>5. p \o a = Append(p, x) /\ p \o c = Append(Append(p, x), y)
    BY <1>2, <1>3, <1>4
  <1> QED
    BY <1>5 DEF a, c

-----------------------------------------------------------------------------
(* The steps                                                                *)

\* At first nothing is sold.
LEMMA ProfitStart == ProfitInit => ProfitInv
  <1> SUFFICES ASSUME ProfitInit PROVE ProfitInv
    OBVIOUS
  <1>1. today \in Days /\ sales = <<>> /\ payouts = <<>> /\ open = {} /\ report = NoReport
    BY ProfitAssumption DEF ProfitInit
  <1>2. sales \in Seq(SaleRow) /\ payouts \in Seq(PayoutRow) /\ DOMAIN sales = {} /\ DOMAIN payouts = {}
    BY <1>1
  <1>3. BooksTyped
    BY <1>1, <1>2 DEF BooksTyped
  <1>4. \A b : Between(payouts, 1, b) = {} /\ SharedSales(b) = {}
    BY <1>2 DEF Between, SharedSales
  <1>5. SumOf({}, payouts) = 0 /\ SumOf({}, sales) = 0
    <2>1. Amounted(sales) /\ Amounted(payouts)
      BY <1>3, BooksAmount
    <2>2. {} \in SUBSET DOMAIN sales /\ {} \in SUBSET DOMAIN payouts
      OBVIOUS
    <2>3. SumOf({}, sales) = SumOver({}, AmountOf(sales))
      BY <2>1, <2>2, SumOfIs
    <2>4. SumOf({}, payouts) = SumOver({}, AmountOf(payouts))
      BY <2>1, <2>2, SumOfIs
    <2> QED
      BY <2>3, <2>4, SumEmpty
  <1>6. PaidInFull
    BY <1>4, <1>5 DEF PaidInFull, PaidBy, SharedBy
  <1>7. ReportOK(report)
    BY <1>1 DEF NoReport, ReportOK
  <1> QED
    BY <1>3, <1>6, <1>7 DEF ProfitInv

\* A sale without shares is nobody's payout.
LEMMA SellKeeps ==
    ASSUME ProfitInv, NEW u \in Users, NEW x \in Amounts, Sell(u, x)
    PROVE  ProfitInv'
  <1> DEFINE s == [seller |-> u, day |-> today, amount |-> x, shared |-> FALSE]
             n == Len(sales) + 1
  <1>1. BooksTyped /\ PaidInFull /\ ReportOK(report)
    BY DEF ProfitInv
  <1>2. /\ today \in Nat /\ today >= 1 /\ x \in Nat
        /\ sales' = Append(sales, s) /\ UNCHANGED <<today, payouts, open, report>>
    <2>1. today \in Days /\ x \in Nat
      BY <1>1, ProfitAssumption DEF BooksTyped
    <2>2. today \in Nat /\ today >= 1
      BY <2>1, DaysAre
    <2> QED
      BY <2>1, <2>2 DEF Sell
  <1>3. s \in SaleRow /\ ~s.shared /\ Dated(s.day)
    BY <1>2 DEF SaleRow, Dated
  <1>4. \A y \in SaleRow : y.amount \in Nat
    BY DEF SaleRow
  <1> HIDE DEF s
  <1>5. /\ sales' \in Seq(SaleRow) /\ DOMAIN sales' = DOMAIN sales \cup {n} /\ n \notin DOMAIN sales
        /\ sales'[n] = s /\ \A k \in DOMAIN sales : sales'[k] = sales[k]
    BY <1>1, <1>2, <1>3, <1>4, RowAdded DEF BooksTyped
  <1>6. Adds(sales, sales', s)
    BY <1>1, <1>2, <1>3, <1>4, RowAdded DEF BooksTyped
  <1> HIDE DEF n
  <1>7. BooksTyped'
    <2>1. \A k \in DOMAIN sales' : Dated(sales'[k].day)
      BY <1>1, <1>3, <1>5 DEF BooksTyped
    <2>2. \A d : Dated(d)' <=> Dated(d)
      BY <1>2 DEF Dated
    <2> QED
      BY <1>1, <1>2, <1>5, <2>1, <2>2 DEF BooksTyped
  <1>8. \A b : SharedSales(b)' = SharedSales(b)
    BY <1>3, <1>5 DEF SharedSales, Between
  <1>9. \A b : SharedSales(b) \in SUBSET DOMAIN sales
    BY DEF SharedSales, Between
  <1>10. \A b : SharedBy(b)' = SharedBy(b)
    BY <1>6, <1>8, <1>9 DEF SharedBy, Adds
  <1>11. \A b : PaidBy(b)' = PaidBy(b)
    BY <1>2 DEF PaidBy, Between
  <1>12. PaidInFull'
    BY <1>1, <1>2, <1>10, <1>11 DEF PaidInFull
  <1> QED
    BY <1>1, <1>2, <1>7, <1>12 DEF ProfitInv

\* A sale that is not committed is not seen.
LEMMA BeginKeeps ==
    ASSUME ProfitInv, NEW u \in Users, NEW x \in Amounts, BeginSharedSale(u, x)
    PROVE  ProfitInv'
  <1>1. BooksTyped /\ PaidInFull /\ ReportOK(report)
    BY DEF ProfitInv
  <1>2. /\ today \in Nat /\ today >= 1 /\ x \in Nat
        /\ open' = {[seller |-> u, day |-> today, amount |-> x, shared |-> TRUE]}
        /\ UNCHANGED <<today, sales, payouts, report>>
    BY <1>1, DaysAre, ProfitAssumption DEF BooksTyped, BeginSharedSale
  <1>3. BooksTyped'
    BY <1>1, <1>2 DEF BooksTyped, SaleRow, Dated
  <1>4. PaidInFull'
    BY <1>1, <1>2 DEF PaidInFull, PaidBy, SharedBy, SharedSales, Between
  <1> QED
    BY <1>1, <1>2, <1>3, <1>4 DEF ProfitInv

\* A payout in one part or two adds up to the sale.
LEMMA PaidParts ==
    ASSUME BooksTyped, NEW s \in SaleRow, NEW u \in Users, NEW v \in Users,
           NEW p \in 0..1, p < s.amount,
           payouts' = payouts \o
               (IF p = 0 THEN <<[holder |-> u, day |-> today, amount |-> s.amount]>>
                ELSE <<[holder |-> u, day |-> today, amount |-> p],
                       [holder |-> v, day |-> today, amount |-> s.amount - p]>>)
    PROVE  PaidTable(payouts') /\ Pays(payouts, payouts', s.amount)
  <1> DEFINE x == [holder |-> u, day |-> today, amount |-> s.amount]
             y == [holder |-> u, day |-> today, amount |-> p]
             z == [holder |-> v, day |-> today, amount |-> s.amount - p]
             one == Append(payouts, x)
             first == Append(payouts, y)
             both == Append(first, z)
  <1>1. today \in Days /\ today \in Nat /\ PaidTable(payouts) /\ payouts \in Seq(PayoutRow)
    BY DaysAre DEF BooksTyped, PaidTable
  <1>2. s.amount \in Nat /\ p \in Nat /\ s.amount - p \in Nat /\ p + (s.amount - p) = s.amount
    BY DEF SaleRow
  <1>3. /\ x \in PayoutRow /\ x.day = today /\ x.amount = s.amount
        /\ y \in PayoutRow /\ y.day = today /\ y.amount = p
        /\ z \in PayoutRow /\ z.day = today /\ z.amount = s.amount - p
    BY <1>1, <1>2 DEF PayoutRow
  <1>4. payouts' = IF p = 0 THEN payouts \o <<x>> ELSE payouts \o <<y, z>>
    OBVIOUS
  <1> HIDE DEF x, y, z
  <1>5. payouts \o <<x>> = one /\ payouts \o <<y, z>> = both
    BY <1>1, <1>3, PaidBoth
  <1>6. payouts' = IF p = 0 THEN one ELSE both
    BY <1>4, <1>5
  <1>7. PaidTable(one) /\ Pays(payouts, one, x.amount)
    BY <1>1, <1>3, PaidMore
  <1>8. PaidTable(first) /\ Pays(payouts, first, y.amount)
    BY <1>1, <1>3, PaidMore
  <1> HIDE DEF one, first
  <1>9. PaidTable(both) /\ Pays(first, both, z.amount)
    BY <1>1, <1>3, <1>8, PaidMore
  <1> HIDE DEF both
  <1>10. CASE p = 0
    <2>1. payouts' = one
      BY <1>6, <1>10
    <2> QED
      BY <1>3, <1>7, <2>1
  <1>11. CASE p # 0
    <2>1. payouts' = both
      BY <1>6, <1>11
    <2>2. Pays(payouts, both, s.amount)
      BY <1>2, <1>3, <1>8, <1>9 DEF Pays
    <2> QED
      BY <1>9, <2>1, <2>2
  <1> QED
    BY <1>10, <1>11

\* A shared sale and its payouts are seen at once.
LEMMA PayOutKeeps ==
    ASSUME ProfitInv, PayOut
    PROVE  ProfitInv'
  <1>1. BooksTyped /\ PaidInFull /\ ReportOK(report)
    BY DEF ProfitInv
  <1>2. PICK s \in open, u, v \in Users, p \in 0..1 :
           /\ p < s.amount /\ sales' = Append(sales, s)
           /\ payouts' = payouts \o
                  (IF p = 0 THEN <<[holder |-> u, day |-> today, amount |-> s.amount]>>
                   ELSE <<[holder |-> u, day |-> today, amount |-> p],
                          [holder |-> v, day |-> today, amount |-> s.amount - p]>>)
           /\ open' = {} /\ UNCHANGED <<today, report>>
    BY DEF PayOut
  <1> DEFINE n == Len(sales) + 1
  <1>3. s \in SaleRow /\ s.shared /\ Dated(s.day) /\ s.amount \in Nat /\ s.day \in Nat
    BY <1>1 DEF BooksTyped, SaleRow
  <1>4. PaidTable(payouts') /\ Pays(payouts, payouts', s.amount)
    BY <1>1, <1>2, <1>3, PaidParts
  <1>5. \A y \in SaleRow : y.amount \in Nat
    BY DEF SaleRow
  <1>6. /\ sales' \in Seq(SaleRow) /\ DOMAIN sales' = DOMAIN sales \cup {n} /\ n \notin DOMAIN sales
        /\ sales'[n] = s /\ \A k \in DOMAIN sales : sales'[k] = sales[k]
    BY <1>1, <1>2, <1>3, <1>5, RowAdded DEF BooksTyped
  <1>7. Adds(sales, sales', s)
    BY <1>1, <1>2, <1>3, <1>5, RowAdded DEF BooksTyped
  <1>8. today \in Nat /\ today >= 1 /\ \A b \in 1..today : b \in Nat /\ b <= today
    BY <1>1, DaysAre DEF BooksTyped
  <1>9. BooksTyped'
    <2>1. \A k \in DOMAIN sales' : Dated(sales'[k].day)
      BY <1>1, <1>3, <1>6 DEF BooksTyped
    <2>2. \A d : Dated(d)' <=> Dated(d)
      BY <1>2 DEF Dated
    <2> QED
      BY <1>1, <1>2, <1>4, <1>6, <2>1, <2>2 DEF BooksTyped, PaidTable
  <1> HIDE DEF n
  <1>10. \A b : SharedSales(b) \in SUBSET DOMAIN sales
    BY DEF SharedSales, Between
  <1>11. ASSUME NEW b \in 1..today
         PROVE  /\ SharedBy(b) \in Nat
                /\ SharedBy(b)' = SharedBy(b) \/ SharedBy(b)' = SharedBy(b) + s.amount
                /\ b = today => SharedBy(b)' = SharedBy(b) + s.amount
    <2>1. 1 <= s.day /\ s.day <= today
      BY <1>3, <1>8 DEF Dated
    <2>2. CASE s.day <= b
      <3>1. SharedSales(b)' = SharedSales(b) \cup {n}
        BY <1>3, <1>6, <2>1, <2>2 DEF SharedSales, Between
      <3> QED
        BY <1>7, <1>10, <3>1 DEF SharedBy, Adds, n
    <2>3. CASE ~(s.day <= b)
      <3>1. SharedSales(b)' = SharedSales(b)
        BY <1>3, <1>6, <2>1, <2>3 DEF SharedSales, Between
      <3>2. SharedBy(b)' = SharedBy(b) /\ SharedBy(b) \in Nat
        BY <1>7, <1>10, <3>1 DEF SharedBy, Adds
      <3> QED
        BY <2>1, <2>3, <3>2
    <2> QED
      BY <2>2, <2>3
  <1>12. \A b \in 1..today :
            /\ b = today => PaidBy(b)' = PaidBy(b) + s.amount
            /\ b < today => PaidBy(b)' = PaidBy(b)
    BY <1>2, <1>4 DEF PaidBy, Pays
  <1>13. PaidInFull'
    <2>1. today \in 1..today /\ today' = today
      BY <1>2, <1>8
    <2>2. \A b \in 1..today : b = today => PaidBy(b)' = SharedBy(b)'
      BY <1>1, <1>11, <1>12 DEF PaidInFull
    <2>3. PaidBy(today)' = SharedBy(today)'
      <3>1. PICK b \in 1..today : b = today
        BY <2>1
      <3>2. PaidBy(b)' = SharedBy(b)'
        BY <2>2, <3>1
      <3> QED
        BY <2>1, <3>1, <3>2 DEF PaidBy, SharedBy, SharedSales
    <2>4. ASSUME NEW b \in 1..today
          PROVE  PaidBy(b)' <= SharedBy(b)'
      <3>1. CASE b = today
        <4>1. SharedBy(b)' \in Nat
          BY <1>3, <1>11
        <4> QED
          BY <2>2, <3>1, <4>1
      <3>2. CASE b # today
        <4>1. PaidBy(b)' = PaidBy(b)
          BY <1>8, <1>12, <3>2
        <4>2. PaidBy(b) <= SharedBy(b)
          BY <1>1 DEF PaidInFull
        <4>3. PaidBy(b) \in Nat
          <5>1. Amounted(payouts) /\ Between(payouts, 1, b) \in SUBSET DOMAIN payouts
            BY <1>1, BooksAmount DEF Between
          <5> QED
            BY <5>1, SumOfIs DEF PaidBy
        <4>4. PICK x, y, z \in Nat : x = PaidBy(b) /\ y = SharedBy(b) /\ z = s.amount
          BY <1>3, <1>11, <4>3
        <4>5. x <= y /\ x <= y + z
          BY <4>2, <4>4
        <4> QED
          BY <1>11, <4>1, <4>4, <4>5
      <3> QED
        BY <3>1, <3>2
    <2> QED
      BY <2>1, <2>3, <2>4 DEF PaidInFull
  <1> QED
    BY <1>1, <1>2, <1>9, <1>13 DEF ProfitInv

\* A day begins without rows.
LEMMA NextDayKeeps ==
    ASSUME ProfitInv, NextDay
    PROVE  ProfitInv'
  <1>1. BooksTyped /\ PaidInFull /\ ReportOK(report)
    BY DEF ProfitInv
  <1>2. today' \in Days /\ today' = today + 1 /\ UNCHANGED <<sales, payouts, open, report>>
    BY DEF NextDay
  <1>3. today \in Nat /\ today >= 1
    BY <1>1, DaysAre DEF BooksTyped
  <1>4. BooksTyped'
    <2>1. \A d : Dated(d) => Dated(d)'
      BY <1>2, <1>3 DEF Dated
    <2> QED
      BY <1>1, <1>2, <2>1 DEF BooksTyped
  <1>5. \A b : SharedBy(b)' = SharedBy(b) /\ PaidBy(b)' = PaidBy(b)
    BY <1>2 DEF SharedBy, SharedSales, PaidBy, Between
  <1>6. /\ Between(payouts, 1, today + 1) = Between(payouts, 1, today)
        /\ SharedSales(today + 1) = SharedSales(today)
    <2>1. \A k \in DOMAIN payouts :
             payouts[k].day <= today /\ payouts[k].day <= today + 1 /\ 1 <= payouts[k].day
      BY <1>1, <1>3 DEF BooksTyped, Dated
    <2>2. \A k \in DOMAIN sales : sales[k].day <= today /\ sales[k].day <= today + 1 /\ 1 <= sales[k].day
      BY <1>1, <1>3 DEF BooksTyped, Dated
    <2> QED
      BY <2>1, <2>2 DEF SharedSales, Between
  <1>7. PaidBy(today + 1) = PaidBy(today) /\ SharedBy(today + 1) = SharedBy(today)
    BY <1>6 DEF PaidBy, SharedBy
  <1>8. PaidBy(today) = SharedBy(today) /\ SharedBy(today) \in Nat
    <2>1. Amounted(sales) /\ SharedSales(today) \in SUBSET DOMAIN sales
      BY <1>1, BooksAmount DEF SharedSales, Between
    <2> QED
      BY <1>1, <2>1, SumOfIs DEF PaidInFull, SharedBy
  <1>9. PaidInFull'
    <2>1. PaidBy(today)' = SharedBy(today)'
      BY <1>2, <1>7, <1>8 DEF PaidBy, SharedBy, SharedSales, Between
    <2>2. ASSUME NEW b \in 1..(today + 1)
          PROVE  PaidBy(b) <= SharedBy(b)
      <3>1. b \in 1..today \/ b = today + 1
        BY <1>3
      <3>2. CASE b \in 1..today
        BY <1>1, <3>2 DEF PaidInFull
      <3>3. CASE b = today + 1
        BY <1>7, <1>8, <3>3
      <3> QED
        BY <3>1, <3>2, <3>3
    <2> QED
      BY <1>2, <1>5, <2>1, <2>2 DEF PaidInFull
  <1> QED
    BY <1>1, <1>2, <1>4, <1>9 DEF ProfitInv

\* What a user has earned is a number.
LEMMA TotalsAreNumbers ==
    ASSUME BooksTyped, NEW u, NEW a, NEW b
    PROVE  TotalMarketProfit(u, a, b) \in Nat /\ TotalStockProfit(u, a, b) \in Nat
  <1>1. Amounted(sales) /\ Amounted(payouts)
    BY BooksAmount
  <1>2. MarketRows(u, a, b) \in SUBSET DOMAIN sales /\ StockRows(u, a, b) \in SUBSET DOMAIN payouts
    BY DEF MarketRows, StockRows, Between
  <1>3. SumOf(MarketRows(u, a, b), sales) \in Nat
    BY <1>1, <1>2, SumOfIs
  <1>4. SumOf(StockRows(u, a, b), payouts) \in Nat
    BY <1>1, <1>2, SumOfIs
  <1> QED
    BY <1>3, <1>4 DEF TotalMarketProfit, TotalStockProfit

\* The overview reads the books.
LEMMA ReportKeeps ==
    ASSUME ProfitInv, AskLastMarket \/ AskLastStock \/ AskMarket \/ AskStock
    PROVE  ProfitInv'
  <1>1. BooksTyped /\ PaidInFull /\ ReportOK(report) /\ UNCHANGED <<today, sales, payouts, open>>
    BY DEF ProfitInv, AskLastMarket, AskLastStock, AskMarket, AskStock
  <1>2. BooksTyped' /\ PaidInFull'
    BY <1>1 DEF BooksTyped, Dated, PaidInFull, PaidBy, SharedBy, SharedSales, Between
  <1>3. ReportOK(report')
    <2>1. CASE AskLastMarket
      BY <2>1 DEF AskLastMarket, ReportOK
    <2>2. CASE AskLastStock
      BY <2>2 DEF AskLastStock, ReportOK
    <2>3. CASE AskMarket
      <3> DEFINE m == MonthOf(today)
                 n == TotalMarketProfit(Me, FirstOf(m), LastOf(m))
      <3>1. report' = [phase |-> "stock", last |-> report.last, month |-> m, market |-> n]
        BY <2>3 DEF AskMarket
      <3>2. n \in Nat
        BY <1>1, TotalsAreNumbers
      <3> HIDE DEF m, n
      <3> QED
        BY <3>1, <3>2 DEF ReportOK
    <2>4. CASE AskStock
      <3> DEFINE a == report.market
                 b == TotalStockProfit(Me, FirstOf(report.month), LastOf(report.month))
                 p == IF a + b = 0 THEN <<>> ELSE <<MarketPercent(a, b), StockPercent(a, b)>>
      <3>1. report' = [phase |-> "done", growth |-> Growth(report.last, a + b), parts |-> p]
        BY <2>4 DEF AskStock
      <3>2. a \in Nat /\ b \in Nat
        BY <1>1, <2>4, TotalsAreNumbers DEF AskStock, ReportOK
      <3> HIDE DEF a, b
      <3>3. Parts(p)
        BY <3>2 DEF Parts
      <3> HIDE DEF p
      <3> QED
        BY <3>1, <3>3 DEF ReportOK
    <2> QED
      BY <2>1, <2>2, <2>3, <2>4
  <1> QED
    BY <1>2, <1>3 DEF ProfitInv

\* Every step keeps the invariant.
LEMMA ProfitStep == ProfitInv /\ [ProfitNext]_profitVars => ProfitInv'
  <1> SUFFICES ASSUME ProfitInv, [ProfitNext]_profitVars PROVE ProfitInv'
    OBVIOUS
  <1>1. CASE UNCHANGED profitVars
    BY <1>1 DEF profitVars, ProfitInv, BooksTyped, Dated, PaidInFull, PaidBy, SharedBy, SharedSales,
                Between, ReportOK, Parts
  <1>2. CASE ProfitNext
    <2>1. ASSUME NEW u \in Users, NEW x \in Amounts, Sell(u, x) \/ BeginSharedSale(u, x)
          PROVE  ProfitInv'
      BY <2>1, SellKeeps, BeginKeeps
    <2> QED
      BY <1>2, <2>1, PayOutKeeps, NextDayKeeps, ReportKeeps DEF ProfitNext
  <1> QED
    BY <1>1, <1>2

-----------------------------------------------------------------------------
(* The properties                                                           *)

\* What all users are told is what was sold without shares and what was paid out.
LEMMA EverybodyIs ==
    ASSUME BooksTyped, NEW b \in 1..today
    PROVE  Everybody(b) = SumOf(Between(sales, 1, b) \ SharedSales(b), sales) + PaidBy(b)
  <1> DEFINE A == Between(sales, 1, b) \ SharedSales(b)
             B == Between(payouts, 1, b)
             f == [u \in Users |-> TotalMarketProfit(u, 1, b)]
             g == [u \in Users |-> TotalStockProfit(u, 1, b)]
             h == [u \in Users |-> TotalMarketProfit(u, 1, b) + TotalStockProfit(u, 1, b)]
             seller == [k \in A |-> sales[k].seller]
             holder == [k \in B |-> payouts[k].holder]
  <1>1. Amounted(sales) /\ Amounted(payouts) /\ IsFiniteSet(Users)
    BY BooksAmount, ProfitAssumption
  <1>2. A \in SUBSET DOMAIN sales /\ B \in SUBSET DOMAIN payouts
    BY DEF Between
  <1>3. \A k \in A : seller[k] \in Users
    <2>1. \A k \in DOMAIN sales : sales[k] \in SaleRow
      BY DEF BooksTyped
    <2>2. \A k \in DOMAIN sales : sales[k].seller \in Users
      BY <2>1 DEF SaleRow
    <2> QED
      BY <1>2, <2>2
  <1>4. \A k \in B : holder[k] \in Users
    <2>1. \A k \in DOMAIN payouts : payouts[k] \in PayoutRow
      BY DEF BooksTyped
    <2>2. \A k \in DOMAIN payouts : payouts[k].holder \in Users
      BY <2>1 DEF PayoutRow
    <2> QED
      BY <1>2, <2>2
  <1>5. \A u \in Users : f[u] = SumOf({k \in A : seller[k] = u}, sales)
    <2>1. \A u \in Users : MarketRows(u, 1, b) = {k \in A : seller[k] = u}
      BY DEF MarketRows, SharedSales, Between
    <2> QED
      BY <2>1 DEF TotalMarketProfit
  <1>6. \A u \in Users : g[u] = SumOf({k \in B : holder[k] = u}, payouts)
    <2>1. \A u \in Users : StockRows(u, 1, b) = {k \in B : holder[k] = u}
      BY DEF StockRows
    <2> QED
      BY <2>1 DEF TotalStockProfit
  <1>7. \A u \in Users : h[u] = f[u] + g[u]
    OBVIOUS
  <1>8. Everybody(b) = SumFunctionOnSet(h, Users)
    BY DEF Everybody
  <1> HIDE DEF A, B, f, g, h, seller, holder
  <1>9. /\ \A u \in Users : f[u] \in Nat
        /\ SumFunctionOnSet(f, Users) = SumOf(A, sales) /\ SumOver(Users, f) = SumOf(A, sales)
    <2>1. Grouped(sales, A, Users, seller, f)
      BY <1>2, <1>3, <1>5 DEF Grouped
    <2> QED
      BY <1>1, <2>1, SumOfGroups
  <1>10. /\ \A u \in Users : g[u] \in Nat
         /\ SumFunctionOnSet(g, Users) = SumOf(B, payouts) /\ SumOver(Users, g) = SumOf(B, payouts)
    <2>1. Grouped(payouts, B, Users, holder, g)
      BY <1>2, <1>4, <1>6 DEF Grouped
    <2> QED
      BY <1>1, <2>1, SumOfGroups
  <1>11. \A u \in Users : h[u] \in Nat
    BY <1>7, <1>9, <1>10
  <1>12. SumFunctionOnSet(h, Users) = SumOver(Users, h)
    BY <1>1, <1>11, FoldIsSum
  <1>13. \A u \in Users : f[u] \in Nat
    BY <1>9
  <1>14. \A u \in Users : g[u] \in Nat
    BY <1>10
  <1>15. SumOver(Users, h) = SumOver(Users, f) + SumOver(Users, g)
    BY <1>1, <1>7, <1>13, <1>14, SumPlus
  <1> QED
    BY <1>8, <1>9, <1>10, <1>12, <1>15 DEF A, B, PaidBy

\* The invariant says that each sale is counted once.
LEMMA CountedOnce ==
    ASSUME ProfitInv
    PROVE  ProfitCountedOnce
  <1>1. BooksTyped /\ PaidInFull
    BY DEF ProfitInv
  <1>2. Amounted(sales) /\ Amounted(payouts)
    BY <1>1, BooksAmount
  <1>3. ASSUME NEW b \in 1..today
        PROVE  /\ Everybody(b) <= SumOf(Between(sales, 1, b), sales)
               /\ PaidBy(b) = SharedBy(b) => Everybody(b) = SumOf(Between(sales, 1, b), sales)
    <2> DEFINE A == Between(sales, 1, b) \ SharedSales(b)
               B == SharedSales(b)
    <2>1. /\ A \in SUBSET DOMAIN sales /\ B \in SUBSET DOMAIN sales /\ A \cap B = {}
          /\ A \cup B = Between(sales, 1, b)
      BY DEF SharedSales, Between
    <2>2. Everybody(b) = SumOf(A, sales) + PaidBy(b)
      BY <1>1, EverybodyIs
    <2>3. SharedBy(b) = SumOf(B, sales)
      BY DEF SharedBy
    <2> HIDE DEF A, B
    <2>4. SumOf(A \cup B, sales) = SumOf(A, sales) + SumOf(B, sales)
      BY <1>2, <2>1, SumOfBoth
    <2>5. SumOf(A, sales) \in Nat /\ SumOf(B, sales) \in Nat
      BY <1>2, <2>1, SumOfIs
    <2>6. PaidBy(b) \in Nat
      <3>1. Between(payouts, 1, b) \in SUBSET DOMAIN payouts
        BY DEF Between
      <3> QED
        BY <1>2, <3>1, SumOfIs DEF PaidBy
    <2>7. PaidBy(b) <= SharedBy(b)
      BY <1>1 DEF PaidInFull
    <2>8. PICK x, y, z \in Nat : x = SumOf(A, sales) /\ y = SumOf(B, sales) /\ z = PaidBy(b)
      BY <2>5, <2>6
    <2>9. z <= y /\ x + z <= x + y
      BY <2>3, <2>7, <2>8
    <2> QED
      BY <2>1, <2>2, <2>3, <2>4, <2>8, <2>9
  <1>4. today \in 1..today
    BY <1>1, DaysAre DEF BooksTyped
  <1>5. Everybody(today) = SumOf(DOMAIN sales, sales)
    BY <1>1, <1>3, <1>4, UntilToday DEF PaidInFull
  <1> QED
    BY <1>3, <1>5 DEF ProfitCountedOnce

\* Whatever is sold, with shares and without, and whoever holds them, what the
\* profile pages of all users add up to for any days since the first is at most
\* what was sold in them, and up to today exactly that: each sale is counted
\* once (getTotalMarketProfit, getTotalProfitPayoutHistory).
THEOREM ProfitsAreCountedOnce == ProfitSpec => []ProfitCountedOnce
  <1>1. ProfitInv => ProfitCountedOnce
    BY CountedOnce
  <1> QED
    BY <1>1, ProfitStart, ProfitStep, PTL DEF ProfitSpec

-----------------------------------------------------------------------------
(* The charts                                                               *)

RowsIn(t, some, a, b) == {r \in some : a <= t[r].day /\ t[r].day <= b}

\* The rows of a user's totals are the user's rows in those days.
OwnSales(u) == {k \in DOMAIN sales : sales[k].seller = u /\ ~sales[k].shared}
OwnPayouts(u) == {k \in DOMAIN payouts : payouts[k].holder = u}
LEMMA OwnRows ==
    ASSUME NEW u, NEW a, NEW b
    PROVE  /\ MarketRows(u, a, b) = RowsIn(sales, OwnSales(u), a, b)
           /\ StockRows(u, a, b) = RowsIn(payouts, OwnPayouts(u), a, b)
  BY DEF MarketRows, StockRows, RowsIn, OwnSales, OwnPayouts, Between

\* The day of every row is in the calendar.
LEMMA RowsHaveDays ==
    ASSUME BooksTyped
    PROVE  /\ \A k \in DOMAIN sales : sales[k].day \in Days
           /\ \A k \in DOMAIN payouts : payouts[k].day \in Days
  <1>1. \A d : Dated(d) => d \in Days
    BY DaysAre DEF BooksTyped, Dated
  <1> QED
    BY <1>1 DEF BooksTyped

\* A bar of a chart by months has profit of its month only, and all of it when
\* the rows of all its days were read.
BarFits(c, t, some, lo, hi) ==
    \A k \in DOMAIN c :
        /\ c[k] <= SumOf(RowsIn(t, some, FirstOf(k), LastOf(k)), t)
        /\ lo <= FirstOf(k) /\ LastOf(k) <= hi =>
              c[k] = SumOf(RowsIn(t, some, FirstOf(k), LastOf(k)), t)
LEMMA MonthBars ==
    ASSUME NEW t, Amounted(t), \A r \in DOMAIN t : t[r].day \in Days,
           NEW some \in SUBSET DOMAIN t, NEW lo \in Int, NEW hi \in Int,
           NEW keys \in SUBSET DOMAIN Months
    PROVE  LET c == Chart(keys, RowsIn(t, some, lo, hi), t, ByMonth)
           IN  keys \subseteq DOMAIN c /\ BarFits(c, t, some, lo, hi)
  <1> DEFINE rows == RowsIn(t, some, lo, hi)
             c == Chart(keys, rows, t, ByMonth)
             bar(k) == {r \in rows : ByMonth[t[r].day] = k}
             whole(k) == RowsIn(t, some, FirstOf(k), LastOf(k))
  <1>1. DOMAIN c = keys \cup {ByMonth[t[r].day] : r \in rows} /\ \A k \in DOMAIN c : c[k] = SumOf(bar(k), t)
    BY DEF Chart
  <1>2. rows \in SUBSET some
    BY DEF RowsIn
  <1>3. \A r \in some : t[r].day \in Days /\ t[r].day \in Nat /\ ByMonth[t[r].day] = MonthOf(t[r].day)
    <2>1. Days \subseteq Nat
      BY DaysAre
    <2> QED
      BY <2>1 DEF ByMonth
  <1>4. \A r \in some : \A k \in DOMAIN Months :
           ByMonth[t[r].day] = k <=> FirstOf(k) <= t[r].day /\ t[r].day <= LastOf(k)
    BY <1>3, MonthIs
  <1>5. \A r \in some : ByMonth[t[r].day] \in DOMAIN Months
    BY <1>3, MonthIs
  <1>6. DOMAIN c \subseteq DOMAIN Months
    BY <1>1, <1>2, <1>5
  <1>7. \A k \in DOMAIN Months : FirstOf(k) \in Int /\ LastOf(k) \in Int
    <2>1. \A k \in DOMAIN Months : k \in 0 .. Len(Months) /\ k - 1 \in 0 .. Len(Months)
      BY MonthsAssumption
    <2> QED
      BY <2>1, LastIs DEF FirstOf
  <1>8. ASSUME NEW k \in DOMAIN c
        PROVE  /\ c[k] <= SumOf(whole(k), t)
               /\ lo <= FirstOf(k) /\ LastOf(k) <= hi => c[k] = SumOf(whole(k), t)
    <2>1. k \in DOMAIN Months
      BY <1>6
    <2>2. bar(k) \in SUBSET whole(k) /\ whole(k) \in SUBSET DOMAIN t
      BY <1>2, <1>4, <2>1 DEF RowsIn
    <2>3. lo <= FirstOf(k) /\ LastOf(k) <= hi => bar(k) = whole(k)
      <3>1. SUFFICES ASSUME lo <= FirstOf(k), LastOf(k) <= hi
                     PROVE  \A r \in whole(k) : r \in bar(k)
        BY <2>2
      <3>2. \A r \in some : FirstOf(k) <= t[r].day /\ t[r].day <= LastOf(k)
                               => lo <= t[r].day /\ t[r].day <= hi
        <4>1. FirstOf(k) \in Int /\ LastOf(k) \in Int /\ \A r \in some : t[r].day \in Int
          BY <1>3, <1>7, <2>1
        <4> QED
          BY <3>1, <4>1
      <3> QED
        BY <1>4, <2>1, <3>2 DEF RowsIn
    <2> HIDE DEF c, bar, whole
    <2>4. SumOf(bar(k), t) <= SumOf(whole(k), t)
      BY <2>2, SumOfFewer
    <2> QED
      BY <1>1, <2>3, <2>4
  <1> QED
    BY <1>1, <1>8 DEF BarFits

\* Charts by days.
LEMMA DaysAddUp ==
    ASSUME BooksTyped
    PROVE  DailyChartsAddUp
  <1>1. Amounted(sales) /\ Amounted(payouts)
    BY BooksAmount
  <1>2. ASSUME NEW a \in 2..today, NEW z \in Zones, NEW b \in a..today
        PROVE  LET market == MarketDaily(Me, a, b, z)
                   stock == StockDaily(Me, a, b, z)
               IN /\ SumFunctionOnSet(market, DOMAIN market) = TotalMarketProfit(Me, a, b)
                  /\ SumFunctionOnSet(stock, DOMAIN stock) = TotalStockProfit(Me, a, b)
    <2> DEFINE keys == (a - z)..(b - z)
    <2>1. IsFiniteSet(keys)
      <3>1. today \in Nat /\ a - z \in Int /\ b - z \in Int
        BY DaysAre, ZonesAssumption DEF BooksTyped
      <3> QED
        BY <3>1, FS_Interval
    <2>2. MarketRows(Me, a, b) \in SUBSET DOMAIN sales /\ StockRows(Me, a, b) \in SUBSET DOMAIN payouts
      BY DEF MarketRows, StockRows, Between
    <2> HIDE DEF keys
    <2>3. SumFunctionOnSet(Chart(keys, MarketRows(Me, a, b), sales, ByDay),
                           DOMAIN Chart(keys, MarketRows(Me, a, b), sales, ByDay))
             = SumOf(MarketRows(Me, a, b), sales)
      BY <1>1, <2>1, <2>2, ChartAddsUp
    <2>4. SumFunctionOnSet(Chart(keys, StockRows(Me, a, b), payouts, ByDay),
                           DOMAIN Chart(keys, StockRows(Me, a, b), payouts, ByDay))
             = SumOf(StockRows(Me, a, b), payouts)
      BY <1>1, <2>1, <2>2, ChartAddsUp
    <2> QED
      BY <2>3, <2>4 DEF MarketDaily, StockDaily, TotalMarketProfit, TotalStockProfit, keys
  <1> QED
    BY <1>2 DEF DailyChartsAddUp

\* Charts by months.
LEMMA MonthsAddUp ==
    ASSUME BooksTyped
    PROVE  WholeMonthsAddUp
  <1> USE DEF FirstOf
  <1>1. /\ Amounted(sales) /\ Amounted(payouts)
        /\ \A r \in DOMAIN sales : sales[r].day \in Days
        /\ \A r \in DOMAIN payouts : payouts[r].day \in Days
    BY BooksAmount, RowsHaveDays
  <1>2. OwnSales(Me) \in SUBSET DOMAIN sales /\ OwnPayouts(Me) \in SUBSET DOMAIN payouts
    BY DEF OwnSales, OwnPayouts
  <1>3. /\ Len(Months) \in Nat /\ DOMAIN Months = 1 .. Len(Months)
        /\ \A k \in 0 .. Len(Months) : LastOf(k) \in Nat
    BY MonthsAssumption, LastIs
  <1>4. ASSUME NEW m \in 2..Len(Months), NEW n \in 2..Len(Months), NEW z \in Zones, m <= n
        PROVE  LET market == MarketMonthly(Me, m, n, z)
                   stock == StockMonthly(Me, m, n, z)
               IN /\ \A k \in m..(n - 1) :
                      /\ market[k] = TotalMarketProfit(Me, FirstOf(k), LastOf(k))
                      /\ stock[k] = TotalStockProfit(Me, FirstOf(k), LastOf(k))
                  /\ \A k \in DOMAIN market :
                        market[k] <= TotalMarketProfit(Me, FirstOf(k), LastOf(k))
                  /\ \A k \in DOMAIN stock :
                        stock[k] <= TotalStockProfit(Me, FirstOf(k), LastOf(k))
    <2> DEFINE market == MarketMonthly(Me, m, n, z)
               stock == StockMonthly(Me, m, n, z)
               lo == FirstOf(m)
               hi == FirstOf(n) - 1 + z
               from == FirstOf(m - z)
               to == FirstOf(n)
    <2>1. /\ z \in {0, 1} /\ m \in Nat /\ n \in Nat /\ m >= 2 /\ n >= 2
          /\ m <= Len(Months) /\ n <= Len(Months)
      BY <1>3, ZonesAssumption
    <2>2. /\ m..n \in SUBSET DOMAIN Months /\ (m - z)..(n - z) \in SUBSET DOMAIN Months
          /\ m - 1 \in 0 .. Len(Months) /\ n - 1 \in 0 .. Len(Months)
          /\ m - z - 1 \in 0 .. Len(Months) /\ m - z - 1 <= m - 1
      BY <1>3, <2>1
    <2>0. LastOf(m - 1) \in Nat /\ LastOf(n - 1) \in Nat /\ LastOf(m - z - 1) \in Nat
      BY <1>3, <2>2
    <2>3. lo \in Int /\ hi \in Int /\ from \in Int /\ to \in Int
      <3>1. \A a, y \in Int : a + 1 \in Int /\ a + 1 - 1 + y \in Int
        OBVIOUS
      <3>2. LastOf(m - 1) \in Int /\ LastOf(n - 1) \in Int /\ LastOf(m - z - 1) \in Int /\ z \in Int
        BY <2>0, <2>1
      <3> HIDE DEF LastOf
      <3>3. lo \in Int /\ to \in Int /\ from \in Int
        BY <3>1, <3>2
      <3>4. hi \in Int
        BY <3>1, <3>2
      <3> QED
        BY <3>3, <3>4
    <2>4. /\ market = Chart(m..n, RowsIn(sales, OwnSales(Me), lo, hi), sales, ByMonth)
          /\ stock = Chart((m - z)..(n - z), RowsIn(payouts, OwnPayouts(Me), from, to), payouts, ByMonth)
      BY OwnRows DEF MarketMonthly, StockMonthly
    <2> HIDE DEF market, stock, lo, hi, from, to
    <2>5. /\ m..n \subseteq DOMAIN market
          /\ BarFits(market, sales, OwnSales(Me), lo, hi)
      BY <1>1, <1>2, <2>2, <2>3, <2>4, MonthBars
    <2>6. /\ (m - z)..(n - z) \subseteq DOMAIN stock
          /\ BarFits(stock, payouts, OwnPayouts(Me), from, to)
      BY <1>1, <1>2, <2>2, <2>3, <2>4, MonthBars
    <2>7. ASSUME NEW k \in m..(n - 1)
          PROVE  /\ k \in DOMAIN market /\ lo <= FirstOf(k) /\ LastOf(k) <= hi
                 /\ k \in DOMAIN stock /\ from <= FirstOf(k) /\ LastOf(k) <= to
      <3>1. /\ k \in m..n /\ k \in (m - z)..(n - z)
            /\ k \in 0 .. Len(Months) /\ k - 1 \in 0 .. Len(Months)
            /\ m - 1 <= k - 1 /\ m - z - 1 <= k - 1 /\ k <= n - 1
        BY <1>3, <2>1
      <3>2. LastOf(m - 1) <= LastOf(k - 1) /\ LastOf(m - z - 1) <= LastOf(k - 1) /\ LastOf(k) <= LastOf(n - 1)
        BY <2>2, <3>1, LastGrows
      <3>3. /\ LastOf(m - 1) \in Nat /\ LastOf(m - z - 1) \in Nat /\ LastOf(n - 1) \in Nat
            /\ LastOf(k - 1) \in Nat /\ LastOf(k) \in Nat
        BY <1>3, <2>2, <3>1
      <3>4. lo <= FirstOf(k) /\ from <= FirstOf(k)
        BY <3>2, <3>3 DEF lo, from
      <3>5. LastOf(k) <= hi /\ LastOf(k) <= to
        <4>1. \A a, b \in Nat, y \in {0, 1} : a <= b => a <= b + 1 - 1 + y /\ a <= b + 1
          OBVIOUS
        <4>2. PICK a \in Nat, b \in Nat : a = LastOf(k) /\ b = LastOf(n - 1) /\ a <= b
          BY <3>2, <3>3
        <4>3. a <= b + 1 - 1 + z /\ a <= b + 1
          BY <2>1, <4>1, <4>2
        <4> QED
          BY <4>2, <4>3 DEF hi, to
      <3> QED
        BY <2>5, <2>6, <3>1, <3>4, <3>5
    <2>8. \A k : /\ TotalMarketProfit(Me, FirstOf(k), LastOf(k))
                        = SumOf(RowsIn(sales, OwnSales(Me), FirstOf(k), LastOf(k)), sales)
                 /\ TotalStockProfit(Me, FirstOf(k), LastOf(k))
                        = SumOf(RowsIn(payouts, OwnPayouts(Me), FirstOf(k), LastOf(k)), payouts)
      BY OwnRows DEF TotalMarketProfit, TotalStockProfit
    <2>9. \A k \in m..(n - 1) : /\ market[k] = TotalMarketProfit(Me, FirstOf(k), LastOf(k))
                                /\ stock[k] = TotalStockProfit(Me, FirstOf(k), LastOf(k))
      BY <2>5, <2>6, <2>7, <2>8 DEF BarFits
    <2>10. /\ \A k \in DOMAIN market : market[k] <= TotalMarketProfit(Me, FirstOf(k), LastOf(k))
           /\ \A k \in DOMAIN stock : stock[k] <= TotalStockProfit(Me, FirstOf(k), LastOf(k))
      BY <2>5, <2>6, <2>8 DEF BarFits
    <2> QED
      BY <2>9, <2>10 DEF market, stock
  <1> QED
    BY <1>4 DEF WholeMonthsAddUp

\* The parts of a report.
LEMMA ReportAddsUp ==
    ASSUME ReportOK(report)
    PROVE  PartsMakeAHundred
  <1> SUFFICES ASSUME report.phase = "done", report.parts # <<>>
               PROVE  report.parts[1] + report.parts[2] \in {100, 101}
    BY DEF PartsMakeAHundred
  <1>1. PICK m \in Nat, s \in Nat : m + s # 0 /\ report.parts = <<MarketPercent(m, s), StockPercent(m, s)>>
    BY DEF ReportOK, Parts
  <1>2. report.parts[1] = MarketPercent(m, s) /\ report.parts[2] = StockPercent(m, s)
    BY <1>1
  <1> QED
    BY <1>1, <1>2, PartsMakeHundred

\* Whatever is sold and wherever the process runs, the bars of a chart by days
\* add up to the total that the summary shows, every month but the last of a
\* chart by months has all profit of its days and none has more, and the two
\* parts of a month's profit make a hundred or one more, though the queries of a
\* report saw different sales (getMarketProfitChart, getStockProfitChart,
\* getSummaryMonthlyChart).
THEOREM ChartsAlwaysAgree == ProfitSpec => []ChartsAgree
  <1>1. ProfitInv => ChartsAgree
    BY DaysAddUp, MonthsAddUp, ReportAddsUp DEF ProfitInv, ChartsAgree
  <1> QED
    BY <1>1, ProfitStart, ProfitStep, PTL DEF ProfitSpec

-----------------------------------------------------------------------------
(* The rest of the types: at most one sale is open, no payout is empty, and  *)
(* nobody is told to have lost more than everything.                         *)

\* Growth is rounded from at least minus a hundred.
LEMMA GrowthIs ==
    ASSUME NEW l \in Nat, NEW c \in Nat
    PROVE  Growth(l, c) \in Int /\ Growth(l, c) >= -100
  <1>1. CASE l = 0
    BY <1>1 DEF Growth
  <1>2. CASE l # 0
    <2> DEFINE d == 2 * l
               a == 2 * (100 * (c - l)) + l
               q == a \div d
    <2>1. d \in Nat /\ d > 0 /\ a \in Int /\ a = 200 * c + l - 100 * d /\ Growth(l, c) = q
      BY <1>2 DEF Growth, Round
    <2>2. -(100 * d) < a
      BY <1>2, <2>1
    <2> HIDE DEF a, d
    <2>3. q \in Int /\ a < q * d + d
      BY <2>1
    <2> HIDE DEF q
    <2>4. ASSUME q <= -101 PROVE FALSE
      <3>1. PICK n \in Nat : n = -q - 1 /\ 100 <= n
        BY <2>3, <2>4
      <3>2. 100 * d <= n * d
        BY <2>1, <3>1, MoreTimes
      <3>3. n * d \in Nat /\ q * d + d = -(n * d)
        BY <2>1, <2>3, <3>1
      <3> QED
        BY <2>1, <2>2, <2>3, <3>2, <3>3
    <2> QED
      BY <2>1, <2>3, <2>4
  <1> QED
    BY <1>1, <1>2

ReportTyped(r) ==
    /\ r.phase \in {"idle", "lastStock", "market", "stock", "done"}
    /\ r.phase = "lastStock" => r.market \in Nat
    /\ r.phase = "market" => r.last \in Nat
    /\ r.phase = "stock" => r.last \in Nat /\ r.market \in Nat
    /\ r.phase = "done" => r.growth >= -100
OpenTyped == open = {} \/ \E s : open = {s}
PayoutsTyped == \A k \in DOMAIN payouts : payouts[k].amount > 0

ProfitTyped == ProfitInv /\ OpenTyped /\ PayoutsTyped /\ ReportTyped(report)

\* A payout is a part of a sale, or all of it.
LEMMA PayOutTyped ==
    ASSUME ProfitTyped, PayOut
    PROVE  OpenTyped' /\ PayoutsTyped' /\ ReportTyped(report)'
  <1>1. BooksTyped /\ PayoutsTyped /\ ReportTyped(report)
    BY DEF ProfitTyped, ProfitInv
  <1>2. PICK s \in open, u, v \in Users, p \in 0..1 :
           /\ p < s.amount
           /\ payouts' = payouts \o
                  (IF p = 0 THEN <<[holder |-> u, day |-> today, amount |-> s.amount]>>
                   ELSE <<[holder |-> u, day |-> today, amount |-> p],
                          [holder |-> v, day |-> today, amount |-> s.amount - p]>>)
           /\ open' = {} /\ report' = report
    BY DEF PayOut
  <1>3. s.amount \in Nat /\ today \in Nat
    BY <1>1, DaysAre DEF BooksTyped, SaleRow
  <1>4. PICK new \in Seq(PayoutRow) :
           /\ payouts' = payouts \o new
           /\ \A k \in DOMAIN new : new[k].amount > 0
    <2>1. CASE p = 0
      <3> DEFINE x == [holder |-> u, day |-> today, amount |-> s.amount]
      <3>1. x \in PayoutRow /\ x.amount > 0
        BY <1>2, <1>3, <2>1 DEF PayoutRow
      <3> HIDE DEF x
      <3>2. <<x>> \in Seq(PayoutRow) /\ DOMAIN <<x>> = {1} /\ <<x>>[1] = x
        BY <3>1
      <3>3. payouts' = payouts \o <<x>>
        BY <1>2, <2>1 DEF x
      <3> QED
        BY <3>1, <3>2, <3>3
    <2>2. CASE p = 1
      <3> DEFINE x == [holder |-> u, day |-> today, amount |-> p]
                 y == [holder |-> v, day |-> today, amount |-> s.amount - p]
      <3>1. x \in PayoutRow /\ x.amount > 0 /\ y \in PayoutRow /\ y.amount > 0
        BY <1>2, <1>3, <2>2 DEF PayoutRow
      <3>2. payouts' = payouts \o <<x, y>>
        BY <1>2, <2>2
      <3> HIDE DEF x, y
      <3>3. <<x, y>> \in Seq(PayoutRow) /\ DOMAIN <<x, y>> = {1, 2} /\ <<x, y>>[1] = x /\ <<x, y>>[2] = y
        BY <3>1
      <3> QED
        BY <3>1, <3>2, <3>3
    <2> QED
      BY <2>1, <2>2
  <1>5. PICK m \in Nat, n \in Nat : m = Len(payouts) /\ n = Len(new) /\ payouts \in Seq(PayoutRow)
    BY <1>1 DEF BooksTyped
  <1>6. \A k \in DOMAIN (payouts \o new) : (payouts \o new)[k].amount > 0
    <2> TAKE k \in DOMAIN (payouts \o new)
    <2>1. k \in 1..(m + n)
      BY <1>5
    <2>2. CASE k <= m
      <3>1. (payouts \o new)[k] = payouts[k] /\ k \in DOMAIN payouts
        BY <1>5, <2>1, <2>2
      <3> QED
        BY <1>1, <3>1 DEF PayoutsTyped
    <2>3. CASE ~(k <= m)
      <3>1. (payouts \o new)[k] = new[k - m] /\ k - m \in DOMAIN new
        BY <1>5, <2>1, <2>3
      <3> QED
        BY <1>4, <3>1
    <2> QED
      BY <2>2, <2>3
  <1>7. PayoutsTyped'
    BY <1>4, <1>6 DEF PayoutsTyped
  <1> QED
    BY <1>1, <1>2, <1>7 DEF OpenTyped

\* The queries of a report give numbers.
LEMMA ReportStays ==
    ASSUME ProfitTyped, AskLastMarket \/ AskLastStock \/ AskMarket \/ AskStock
    PROVE  ReportTyped(report')
  <1>1. BooksTyped /\ ReportTyped(report)
    BY DEF ProfitTyped, ProfitInv
  <1>2. CASE AskLastMarket
    <2> DEFINE m == MonthAgo(today)
               n == TotalMarketProfit(Me, FirstOf(m), LastOf(m))
    <2>1. report' = [phase |-> "lastStock", previous |-> m, market |-> n]
      BY <1>2 DEF AskLastMarket
    <2>2. n \in Nat
      BY <1>1, TotalsAreNumbers
    <2> HIDE DEF m, n
    <2> QED
      BY <2>1, <2>2 DEF ReportTyped
  <1>3. CASE AskLastStock
    <2> DEFINE m == report.previous
               a == report.market
               n == TotalStockProfit(Me, FirstOf(m), LastOf(m))
    <2>1. report' = [phase |-> "market", previous |-> m, last |-> a + n] /\ report.phase = "lastStock"
      BY <1>3 DEF AskLastStock
    <2>2. n \in Nat /\ a \in Nat
      BY <1>1, <2>1, TotalsAreNumbers DEF ReportTyped
    <2> HIDE DEF m, n, a
    <2> QED
      BY <2>1, <2>2 DEF ReportTyped
  <1>4. CASE AskMarket
    <2> DEFINE m == MonthOf(today)
               l == report.last
               n == TotalMarketProfit(Me, FirstOf(m), LastOf(m))
    <2>1. report' = [phase |-> "stock", last |-> l, month |-> m, market |-> n] /\ report.phase = "market"
      BY <1>4 DEF AskMarket
    <2>2. n \in Nat /\ l \in Nat
      BY <1>1, <2>1, TotalsAreNumbers DEF ReportTyped
    <2> HIDE DEF m, n, l
    <2> QED
      BY <2>1, <2>2 DEF ReportTyped
  <1>5. CASE AskStock
    <2> DEFINE l == report.last
               a == report.market
               b == TotalStockProfit(Me, FirstOf(report.month), LastOf(report.month))
               p == IF a + b = 0 THEN <<>> ELSE <<MarketPercent(a, b), StockPercent(a, b)>>
    <2>1. report' = [phase |-> "done", growth |-> Growth(l, a + b), parts |-> p] /\ report.phase = "stock"
      BY <1>5 DEF AskStock
    <2>2. l \in Nat /\ a + b \in Nat
      <3>1. a \in Nat /\ l \in Nat /\ b \in Nat
        BY <1>1, <2>1, TotalsAreNumbers DEF ReportTyped
      <3> QED
        BY <3>1
    <2> HIDE DEF l, a, b, p
    <2>3. Growth(l, a + b) >= -100
      BY <2>2, GrowthIs
    <2> QED
      BY <2>1, <2>3 DEF ReportTyped
  <1> QED
    BY <1>2, <1>3, <1>4, <1>5

\* Every step keeps the types.
LEMMA ProfitTypedStep == ProfitTyped /\ [ProfitNext]_profitVars => ProfitTyped'
  <1> SUFFICES ASSUME ProfitTyped, [ProfitNext]_profitVars PROVE ProfitTyped'
    OBVIOUS
  <1>1. ProfitInv' /\ OpenTyped /\ PayoutsTyped /\ ReportTyped(report)
    BY ProfitStep DEF ProfitTyped
  <1>2. CASE UNCHANGED profitVars
    BY <1>1, <1>2 DEF profitVars, ProfitTyped, OpenTyped, PayoutsTyped
  <1>3. ASSUME NEW u \in Users, NEW x \in Amounts, Sell(u, x) \/ BeginSharedSale(u, x)
        PROVE  ProfitTyped'
    <2>1. CASE Sell(u, x)
      BY <1>1, <2>1 DEF Sell, ProfitTyped, OpenTyped, PayoutsTyped
    <2>2. CASE BeginSharedSale(u, x)
      BY <1>1, <2>2 DEF BeginSharedSale, ProfitTyped, OpenTyped, PayoutsTyped
    <2> QED
      BY <1>3, <2>1, <2>2
  <1>4. CASE PayOut
    BY <1>1, <1>4, PayOutTyped DEF ProfitTyped
  <1>5. CASE NextDay
    BY <1>1, <1>5 DEF NextDay, ProfitTyped, OpenTyped, PayoutsTyped
  <1>6. CASE AskLastMarket \/ AskLastStock \/ AskMarket \/ AskStock
    <2>1. UNCHANGED <<payouts, open>>
      BY <1>6 DEF AskLastMarket, AskLastStock, AskMarket, AskStock
    <2>2. ReportTyped(report')
      BY <1>6, ReportStays
    <2> QED
      BY <1>1, <2>1, <2>2 DEF ProfitTyped, OpenTyped, PayoutsTyped
  <1> QED
    BY <1>2, <1>3, <1>4, <1>5, <1>6 DEF ProfitNext

\* The books of sales and payouts are typed, at most one shared sale is open, and
\* what a report tells is of its phase, with a growth of no less than minus a
\* hundred (getSummaryMonthlyChart).
THEOREM ProfitTypeCorrect == ProfitSpec => []ProfitTypeOK
  <1>1. ProfitInit => ProfitTyped
    <2> SUFFICES ASSUME ProfitInit PROVE ProfitTyped
      OBVIOUS
    <2>1. payouts = <<>> /\ open = {} /\ report = NoReport
      BY DEF ProfitInit
    <2> QED
      BY <2>1, ProfitStart DEF ProfitTyped, OpenTyped, PayoutsTyped, ReportTyped, NoReport
  <1>2. ProfitTyped => ProfitTypeOK
    <2> SUFFICES ASSUME ProfitTyped PROVE ProfitTypeOK
      OBVIOUS
    <2>1. BooksTyped /\ OpenTyped /\ PayoutsTyped /\ ReportTyped(report)
      BY DEF ProfitTyped, ProfitInv
    <2>2. Cardinality(open) <= 1
      <3>1. CASE open = {}
        <4>1. Cardinality(open) = 0
          BY <3>1, FS_EmptySet
        <4> QED
          BY <4>1
      <3>2. CASE \E s : open = {s}
        <4>1. PICK s : open = {s}
          BY <3>2
        <4>2. Cardinality(open) = 1
          BY <4>1, FS_Singleton
        <4> QED
          BY <4>2
      <3> QED
        BY <2>1, <3>1, <3>2 DEF OpenTyped
    <2>3. \A s \in ToSet(sales) \cup open :
             s.seller \in Users /\ s.day \in 1..today /\ s.amount \in Nat
      <3>1. \A k \in DOMAIN sales : sales[k] \in SaleRow
        BY <2>1 DEF BooksTyped
      <3>2. \A s \in ToSet(sales) : s \in SaleRow /\ Dated(s.day)
        BY <2>1, <3>1 DEF ToSet, BooksTyped
      <3> QED
        BY <2>1, <3>2 DEF BooksTyped, SaleRow, Dated
    <2>4. \A p \in ToSet(payouts) : p.holder \in Users /\ p.day \in 1..today /\ p.amount > 0
      <3>1. \A k \in DOMAIN payouts : payouts[k] \in PayoutRow
        BY <2>1 DEF BooksTyped
      <3> QED
        BY <2>1, <3>1 DEF ToSet, BooksTyped, PayoutsTyped, PayoutRow, Dated
    <2> QED
      BY <2>1, <2>2, <2>3, <2>4 DEF ProfitTypeOK, BooksTyped, ReportTyped
  <1> QED
    BY <1>1, <1>2, ProfitTypedStep, PTL DEF ProfitSpec

=============================================================================
