------------------------------ MODULE CommandLog ------------------------------
\* What the API and the administration rely on when they send a command to the
\* matching daemon: the accepted commands form a log, each is executed, and for
\* the first time in the order of the log.  A command may be executed again
\* (a stuttering step here): the queue delivers at least once.
EXTENDS Naturals, Sequences, FiniteSets

CONSTANT Requests

VARIABLES
    accepted,   \* the commands the queue accepted, oldest first
    ran         \* those that were executed

logVars == <<accepted, ran>>

LogInit == accepted = <<>> /\ ran = {}

\* The queue accepts a command that was never sent before.
Accept(r) ==
    /\ \A i \in DOMAIN accepted : accepted[i] # r
    /\ accepted' = Append(accepted, r)
    /\ UNCHANGED ran

\* The oldest command that has not been executed is executed.
Run(i) ==
    /\ accepted[i] \notin ran
    /\ \A j \in 1 .. i - 1 : accepted[j] \in ran
    /\ ran' = ran \cup {accepted[i]}
    /\ UNCHANGED accepted

LogNext ==
    \/ \E r \in Requests : Accept(r)
    \/ \E i \in DOMAIN accepted : Run(i)

LogSpec == LogInit /\ [][LogNext]_logVars

=============================================================================
