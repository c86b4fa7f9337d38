----------------------------- MODULE LiveSocket -----------------------------
(***************************************************************************)
(* The dashboard's connection to the event stream of a project             *)
(* (useLiveEvents), reconnecting after each loss with a growing delay, and *)
(* the live status the pages and the indicator read.                       *)
(*                                                                         *)
(* A tick is five seconds; a socket that is accepted is accepted within    *)
(* one, one that is not may hang for longer.                               *)
(***************************************************************************)
EXTENDS Naturals

VARIABLES
  status,     (* LiveStatus.                                               *)
  link,       (* The socket: "joined" once stream.ready has arrived.       *)
  attempt,
  wait,       (* Ticks until the reconnect timer fires.                    *)
  up,         (* The API accepts sockets.                                  *)
  calm        (* Ticks for which it has, with no socket lost.              *)

socketVars == <<status, link, attempt, wait, up, calm>>

(* RECONNECT_BASE_MS * 2 ^ attempt up to RECONNECT_MAX_MS, in ticks.       *)
MaxAttempt == 5      (* Bounds the count: the delay is the same from 4 on. *)
BackoffUncapped(n) == <<1, 1, 1, 2, 4, 7>>[n + 1]
Backoff(n) == <<1, 1, 1, 2, 3, 3>>[n + 1]
MaxBackoff == 3

SocketTypeOK ==
  /\ status \in {"connecting", "live", "reconnecting", "offline"}
  /\ link \in {"none", "opening", "open", "joined", "off"}
  /\ attempt \in 0..MaxAttempt /\ wait \in 0..MaxBackoff
  /\ up \in BOOLEAN /\ calm \in 0..(MaxBackoff + 1)

SocketInit ==
  /\ status = "connecting" /\ link = "opening"
  /\ attempt = 0 /\ wait = 0 /\ up = TRUE /\ calm = 0

-----------------------------------------------------------------------------
Connecting == IF attempt = 0 THEN "connecting" ELSE "reconnecting"

Connect ==
  /\ link = "none" /\ wait = 0
  /\ status' = Connecting /\ link' = "opening"
  /\ UNCHANGED <<attempt, wait, up, calm>>

Opens ==
  /\ link = "opening" /\ up
  /\ link' = "open" /\ attempt' = 0
  /\ UNCHANGED <<status, wait, up, calm>>

StreamReadyFirst ==
  /\ link = "open" /\ link' = "joined"
  /\ status' = IF status = "connecting" THEN "live" ELSE status
  /\ UNCHANGED <<attempt, wait, up, calm>>

StreamReady ==
  /\ link = "open" /\ link' = "joined" /\ status' = "live"
  /\ UNCHANGED <<attempt, wait, up, calm>>

(* onclose of a socket that was refused, one too many for its project,     *)
(* dropped for being slow, or lost.                                        *)
Close ==
  /\ link \in {"opening", "open", "joined"} /\ (link = "opening" => ~up)
  /\ link' = "none" /\ status' = "reconnecting"
  /\ wait' = Backoff(attempt)
  /\ attempt' = IF attempt < MaxAttempt THEN attempt + 1 ELSE attempt
  /\ calm' = 0 /\ UNCHANGED up

(* The API goes away or comes back; a socket that was joined is lost, as   *)
(* Close, at some later moment or not at all.                              *)
Outage ==
  /\ up' = ~up /\ calm' = 0
  /\ UNCHANGED <<status, link, attempt, wait>>

(* The effect's clean-up: the timer is cleared, and the old socket closed, *)
(* which its onclose ignores ("stopped").                                  *)
CleanUp == wait' = 0 /\ calm' = 0 /\ UNCHANGED <<attempt, up>>

(* Another project, or a refreshed access token: connect at once.          *)
Rerun ==
  /\ CleanUp
  /\ status' = Connecting /\ link' = "opening"

(* No project, or no token any more.                                       *)
SwitchOff ==
  /\ CleanUp
  /\ status' = "offline" /\ link' = "off"

SocketTick ==
  /\ link # "open" /\ (link = "opening" => ~up) /\ (link = "none" => wait > 0)
  /\ wait' = IF wait = 0 THEN 0 ELSE wait - 1
  /\ calm' = IF up /\ calm <= MaxBackoff THEN calm + 1 ELSE calm
  /\ UNCHANGED <<status, link, attempt, up>>

SocketNext ==
  \/ Connect \/ Opens \/ StreamReady \/ Close \/ Outage
  \/ Rerun \/ SwitchOff \/ SocketTick

-----------------------------------------------------------------------------
(* However long an outage was, and however often the token was refreshed,  *)
(* the connection is back within fifteen seconds of calm, and the status   *)
(* says so (RECONNECT_MAX_MS; useLiveEvents with its project and token).   *)
LiveAgain == calm > MaxBackoff => status = IF link = "off" THEN "offline" ELSE "live"
=============================================================================
