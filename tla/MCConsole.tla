----------------------------- MODULE MCConsole ------------------------------
(* Two pages, each with the key of its screen, in ticks of a second: a     *)
(* fetch is then assumed to be answered within one; see Console.           *)
EXTENDS Console

TwoViews == {[page |-> "workers", key |-> "workers"], [page |-> "job", key |-> "job"]}
=============================================================================
