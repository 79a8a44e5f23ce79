----------------------------- MODULE MCMatchQueue -----------------------------
\* Three commands, one of them of the administration process.
EXTENDS MatchQueue

CONSTANTS app1, app2, admin1

MCRequests == {app1, app2, admin1}
MCAppRequests == {app1, app2}

=============================================================================
