---------------------------- MODULE MCTransferRuns ----------------------------
(***************************************************************************)
(* Small instances of what goes on beside the terminal of an SSH tab: its  *)
(* transfers (TransferRuns) and the monitoring of its server (Monitoring). *)
(* They share no variable, so a behaviour drives one of them and leaves    *)
(* the other as it begins.  Transfers are model values; the configuration  *)
(* says which exist and which are uploads.                                 *)
(***************************************************************************)
EXTENDS TransferRuns

CONSTANT Parts      \* what this run drives

VARIABLES
    driven,
    \* Monitoring
    link, configured, shown, capable, points, control, enabled, settled, ended, clicks,
    closed, col, asked, late, closing, switch, stopped, forbidden, openings, torn, joined,
    changes, crashes

monitorVars == <<link, configured, shown, capable, points, control, enabled, settled, ended,
                 clicks, closed, col, asked, late, closing, switch, stopped, forbidden, openings,
                 torn, joined, changes, crashes>>

\* One connection and everything that may happen to it, or two of them.
Monitor == INSTANCE Monitoring WITH
               conn <- link, call <- switch, cancelled <- ended, opened <- openings,
               Gens <- {1}, Calls <- {1, 2}, MaxAttempts <- 1, Sustain <- 1,
               Changes <- 1, Crashes <- 1
Regain == INSTANCE Monitoring WITH
              conn <- link, call <- switch, cancelled <- ended, opened <- openings,
              Gens <- {1, 2}, Calls <- {1}, MaxAttempts <- 0, Sustain <- 1,
              Changes <- 0, Crashes <- 0

PartsInit ==
    /\ driven \in Parts /\ Init
    /\ IF driven = "regain" THEN Regain!Init ELSE Monitor!Init

\* The last connection is gone and its collector has ended.
NothingLeft == \A g \in DOMAIN col : col[g].pc \in {"none", "ended"}

PartsNext ==
    \/ driven = "transfers" /\ Next /\ UNCHANGED <<driven, monitorVars>>
    \/ driven = "monitor" /\ Monitor!Next /\ UNCHANGED <<driven, vars>>
    \/ driven = "regain" /\ Regain!Next /\ UNCHANGED <<driven, vars>>
    \/ driven # "transfers" /\ NothingLeft /\ UNCHANGED <<driven, vars, monitorVars>>

PartsSpec == PartsInit /\ [][PartsNext]_<<driven, vars, monitorVars>>

\* What the user or the settings stopped collects nothing, a channel is retried so
\* many times, and every collector that may go on can be reached.
MonitoringSound ==
    /\ driven = "monitor" => Monitor!TypeOK /\ Monitor!MonitoringSound
    /\ driven = "regain" => Regain!TypeOK /\ Regain!MonitoringSound
===============================================================================
