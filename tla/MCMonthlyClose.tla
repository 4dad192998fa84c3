---------------------------- MODULE MCMonthlyClose ----------------------------
(* Instances of MonthlyClose for TLC. *)
EXTENDS MonthlyClose, TLC

Flags == [ all |-> FALSE, prev |-> FALSE, month |-> NoMonth, close |-> FALSE,
           from |-> NoDay, to |-> NoDay ]

Statements   == [ Flags EXCEPT !.month = 1 ]                    \* make rollup-month
CloseByHand  == [ Flags EXCEPT !.month = 1, !.close = TRUE ]    \* make rollup-close
ScheduledClose == [ Flags EXCEPT !.prev = TRUE ]                \* the monthly CronJob

ScheduledOnly == { ScheduledClose }
CloseOnly == { CloseByHand }
StatementsAndClose == { Statements, ScheduledClose }

NoFaults     == {}
Interrupted  == { "sigterm", "crash" }
Interfered   == { "statement_fails", "crash", "lock_session_lost" }
FailingDay   == { "statement_fails" }
Hands        == OperatorActs
NoHands      == {}

FirstMonth == 1 .. MonthLen
DayOne == {1}
OneTuple == { << "n1", "t1" >> }

\* Two namespaces.
TwoNamespaces == { << "n1", "t1" >>, << "n2", "" >> }
NsOfDim   == [ g \in Dims |-> g[1] ]
TeamOfDim == [ g \in Dims |-> g[2] ]

Symmetry == Permutations(Jobs)
=============================================================================
