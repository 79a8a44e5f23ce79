-------------------------------- MODULE Desk --------------------------------
(***************************************************************************)
(* The support desk: a customer or a business asks a question, which is    *)
(* stored and mailed to the administrators; an administrator answers a     *)
(* customer's question, which is stored and mailed to the customer, or     *)
(* changes the status of a question.  Each handler stores first and mails  *)
(* afterwards, without a transaction, and what save writes is the whole    *)
(* row that was read before.                                               *)
(* A definition marked "Fault" is used by no action: it is a plausible     *)
(* mistake in the definition after it, which a property must notice.       *)
(***************************************************************************)
EXTENDS Integers, Sequences, FiniteSets

CONSTANTS
    Jobs,        \* the requests that are open at one time
    Admins,      \* the administrators with the role SUPER
    Texts,       \* answers
    Default,     \* the address that stands in when there is no administrator
    None,        \* no answer yet
    MaxJobs,     \* bound: the requests made
    MaxFailures  \* bound: the mails that fail and the deaths of the process

ASSUME DeskAssumption == None \notin Texts

QuestionKinds == {"customer", "business"}
Statuses == {"PENDING", "PROGRESS", "CONFIRMED", "CANCELED"}

VARIABLES
    questions,  \* of each kind: mc_support_customer, mc_support_bussiness
    job,        \* the requests, each where it is in its handler
    mails,      \* the mails that were sent
    saved,      \* history: the answers that were stored
    mixed,      \* history: customers' questions that two requests worked on at once
    told,       \* history: the requests that were answered with success
    made, failures

deskVars == <<questions, job, mails, saved, mixed, told, made, failures>>

NoJob == [op |-> "idle"]
Customers == DOMAIN questions["customer"]

Open(j, r) == job[j] = NoJob /\ made < MaxJobs /\ job' = [job EXCEPT ![j] = r] /\ made' = made + 1
At(j, op, phase) == job[j].op = op /\ job[j].phase = phase

-----------------------------------------------------------------------------
\* A question is stored, then mailed to one administrator after the other.  A
\* mail that fails ends the request with an error, and the question stays.
NewQuestion == [status |-> "PENDING", response |-> None]
Ask(j, kind) ==
    /\ Open(j, [op |-> "ask", phase |-> "admins", kind |-> kind,
                id |-> Len(questions[kind]) + 1, left |-> {}])
    /\ questions' = [questions EXCEPT ![kind] = Append(@, NewQuestion)]
    /\ UNCHANGED <<mails, saved, mixed, told, failures>>

Receivers == IF Admins = {} THEN {Default} ELSE Admins
GetReceivedEmailList(j) ==
    /\ At(j, "ask", "admins")
    /\ job' = [job EXCEPT ![j].left = Receivers, ![j].phase = "mail"]
    /\ UNCHANGED <<questions, mails, saved, mixed, told, made, failures>>

AskMail(j, a) == [to |-> a, kind |-> job[j].kind, id |-> job[j].id, text |-> None]
MailAdmin(j, a) ==
    /\ At(j, "ask", "mail") /\ a \in job[j].left
    /\ mails' = mails \cup {AskMail(j, a)}
    /\ job' = [job EXCEPT ![j].left = @ \ {a}]
    /\ UNCHANGED <<questions, saved, mixed, told, made, failures>>
AllMailed(j) == At(j, "ask", "mail") /\ job[j].left = {}
Asked(j) ==
    /\ AllMailed(j)
    /\ told' = told \cup {[op |-> "ask", kind |-> job[j].kind, id |-> job[j].id]}
    /\ job' = [job EXCEPT ![j] = NoJob]
    /\ UNCHANGED <<questions, mails, saved, mixed, made, failures>>

-----------------------------------------------------------------------------
\* Answers and changes of the status read the row, and save it.
Mixes(id) == {id} \cap {job[j].id : j \in {i \in Jobs : job[i].op \in {"answer", "status"}}}
StartAnswer(j, id, text) ==
    /\ Open(j, [op |-> "answer", phase |-> "save", id |-> id, text |-> text,
                copy |-> questions["customer"][id]])
    /\ mixed' = mixed \cup Mixes(id)
    /\ UNCHANGED <<questions, mails, saved, told, failures>>

\* Fault: the answer is mailed and not stored.
AnsweredFault(copy, text) == [copy EXCEPT !.status = "CONFIRMED"]
Answered(copy, text) == [copy EXCEPT !.response = text, !.status = "CONFIRMED"]
SaveAnswer(j) ==
    /\ At(j, "answer", "save")
    /\ questions' = [questions EXCEPT !["customer"][job[j].id] = Answered(job[j].copy, job[j].text)]
    /\ saved' = saved \cup {<<job[j].id, job[j].text>>}
    /\ job' = [job EXCEPT ![j].phase = "mail"]
    /\ UNCHANGED <<mails, mixed, told, made, failures>>

MailCustomer(j) ==
    /\ At(j, "answer", "mail")
    /\ mails' = mails \cup {[to |-> "asker", kind |-> "customer", id |-> job[j].id,
                             text |-> job[j].text]}
    /\ job' = [job EXCEPT ![j] = NoJob]
    /\ UNCHANGED <<questions, saved, mixed, told, made, failures>>

\* Both status handlers have the route of the first, which answers every
\* request: `about` is the kind of question that was meant.
StartStatus(j, about, id, status) ==
    /\ id \in Customers
    /\ Open(j, [op |-> "status", phase |-> "save", about |-> about, id |-> id,
                status |-> status, copy |-> questions["customer"][id]])
    /\ mixed' = mixed \cup Mixes(id)
    /\ UNCHANGED <<questions, mails, saved, told, failures>>

Restated(copy, status) == [copy EXCEPT !.status = status]
SaveStatus(j) ==
    /\ At(j, "status", "save")
    /\ questions' =
          [questions EXCEPT !["customer"][job[j].id] = Restated(job[j].copy, job[j].status)]
    /\ told' = told \cup {[op |-> "status", about |-> job[j].about, id |-> job[j].id,
                           status |-> job[j].status]}
    /\ job' = [job EXCEPT ![j] = NoJob]
    /\ UNCHANGED <<mails, saved, mixed, made, failures>>

\* A mail fails, or the process dies: the request ends where it is.
Fail(j) ==
    /\ job[j] # NoJob /\ failures < MaxFailures
    /\ job' = [job EXCEPT ![j] = NoJob]
    /\ failures' = failures + 1
    /\ UNCHANGED <<questions, mails, saved, mixed, told, made>>

-----------------------------------------------------------------------------
DeskInit ==
    /\ questions \in [QuestionKinds -> {<<>>, <<NewQuestion>>}]
    /\ job = [j \in Jobs |-> NoJob]
    /\ mails = {} /\ saved = {} /\ mixed = {} /\ told = {}
    /\ made = 0 /\ failures = 0

DeskNext ==
    \E j \in Jobs :
       \/ \E kind \in QuestionKinds : Ask(j, kind)
       \/ GetReceivedEmailList(j) \/ Asked(j)
       \/ \E a \in Receivers : MailAdmin(j, a)
       \/ \E id \in Customers, text \in Texts : StartAnswer(j, id, text)
       \/ SaveAnswer(j) \/ MailCustomer(j)
       \/ \E kind \in QuestionKinds, id \in Customers, status \in Statuses :
             StartStatus(j, kind, id, status)
       \/ SaveStatus(j) \/ Fail(j)

DeskSpec == DeskInit /\ [][DeskNext]_deskVars

-----------------------------------------------------------------------------
\* Properties.

\* The handlers keep to the tables' columns, and every mail is about a question
\* that is stored.
DeskTypeOK ==
    /\ questions \in [QuestionKinds -> Seq([status : Statuses, response : Texts \cup {None}])]
    /\ \A m \in mails : m.id \in DOMAIN questions[m.kind]
    /\ mixed \subseteq Customers

\* Who asked and was answered with success has reached every administrator.
SuccessIsMailed ==
    \A t \in told : t.op = "ask" =>
        \A a \in Receivers :
            [to |-> a, kind |-> t.kind, id |-> t.id, text |-> None] \in mails

\* And an answer that reached the customer was stored, and the question shows an
\* answer ever after, unless two requests worked on the question at once.
MailedIsAnswered ==
    \A m \in mails : m.text # None =>
        /\ <<m.id, m.text>> \in saved
        /\ m.id \in mixed \/ questions["customer"][m.id].response # None

\* What was told and what was mailed is true (createCustomerSupport,
\* createBussinessSupport, createResponseCustomerSupport).
MailIsTrue == SuccessIsMailed /\ MailedIsAnswered

=============================================================================
