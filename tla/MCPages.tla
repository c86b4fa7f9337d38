------------------------------ MODULE MCPages -------------------------------
(* The explorer with two filters, with two commands at once, and with a    *)
(* bulk command on two jobs; see Pages.                                    *)
EXTENDS Pages

TwoFilters == [keys |-> {"all", "failed"}, jobs |-> {1}, commands |-> {1}]
TwoCommands == [keys |-> {"all"}, jobs |-> {1}, commands |-> {1, 2}]
TwoJobs == [keys |-> {"all"}, jobs |-> {1, 2}, commands |-> {1}]

ExplorerScenes == {TwoFilters, TwoCommands, TwoJobs}
=============================================================================
