--------------------------- MODULE LiveDashboard ----------------------------
(***************************************************************************)
(* A page of the dashboard with its cache key, or the socket that all of   *)
(* them share: the page's model has the socket come and go at any moment,  *)
(* so that the two need not be explored together.                          *)
(***************************************************************************)
EXTENDS Console, LiveSocket

VARIABLE part

dashboard == <<part, vars, socketVars>>

DashboardInit ==
  /\ Init /\ SocketInit /\ part \in {"page", "socket"}
  /\ part = "socket" => view = (CHOOSE v \in Views : TRUE) /\ shown = "none"

DashboardNext ==
  \/ part = "page" /\ Next /\ UNCHANGED <<part, socketVars>>
  \/ part = "socket" /\ SocketNext /\ UNCHANGED <<part, vars>>

DashboardSpec == DashboardInit /\ [][DashboardNext]_dashboard

(* The states of the page and of the socket.                               *)
DashboardTypeOK == TypeOK /\ SocketTypeOK
=============================================================================
