----------------------------- MODULE TuyaReport -----------------------------
(***************************************************************************)
(* What the cloud is told about the machine: data points reported while    *)
(* the cloud is connected go out when they differ from what went out       *)
(* before, those reported while it is not are kept and go out with the     *)
(* next report of everything (src/src/protocol/tuya_os_mgr.cc).            *)
(*                                                                         *)
(* Three data points stand for the kinds there are: WORK_STATE is told     *)
(* again from eqStatus by every report of everything, MAKEING_START from   *)
(* machineState unless a kept value is told instead, CLEANING_MODE is told *)
(* only when it changes.                                                   *)
(***************************************************************************)
EXTENDS Naturals

CONSTANT MaxChanges     \* bound on what the machine does: what its pages report

ASSUME MaxChangesAssumption == MaxChanges \in Nat

VARIABLES
    net,        \* tuyaWifiStatus, mIsConnCloud and mIsNetDisConn
    eq,         \* eqStatus
    making,     \* does machineState have the bit of a brew or of hot water?
    dp,         \* mTuyaDpList, mTuyaDpCacheList, mNextReportStandbyTime and the cloud
    changes     \* how often the machine has changed

vars == <<net, eq, making, dp, changes>>

None == "none"
WorkStates == {"STANDBY", "EXTRACTING", "EXTRACT_DONE"}
ModeValues == {"PIPE", "CAL"}
Dps == {"WORK_STATE", "MAKEING_START", "CLEANING_MODE"}
Switch(b) == IF b THEN "ON" ELSE "OFF"
Values == WorkStates \cup ModeValues \cup {"ON", "OFF"}

\* isNeedReport.
Online == net.conn /\ net.status = "CLOUD"

-----------------------------------------------------------------------------
(* reportDpData and reportAllStatus, as steps from a state of dp to the next. *)

\* Mutant: the point is kept in place of its value.
Keep_Point(d, p, v) == [d EXCEPT !.cache[p] = p]

Keep(d, p, v) == [d EXCEPT !.cache[p] = v]

\* A value equal to the last one sent is not sent.
Tell(d, p, v) ==
    IF d.sent[p] = v THEN d
    ELSE [d EXCEPT !.sent[p] = v, !.cloud[p] = v,
                   !.standbyDue = @ \/ (p = "WORK_STATE" /\ v = "EXTRACT_DONE")]

Report(d, p, v) == IF Online THEN Tell(d, p, v) ELSE Keep(d, p, v)

Replay(d, p) == IF d.cache[p] = None THEN d ELSE Report(d, p, d.cache[p])

\* Mutant: the switch is told only when it was kept.
ReportAll_NoMaking(d) ==
    LET told == Report(d, "WORK_STATE", eq)
    IN [Replay(Replay(Replay(told, "WORK_STATE"), "MAKEING_START"), "CLEANING_MODE")
           EXCEPT !.cache = [p \in Dps |-> None]]

\* The work state, then what was kept, then the switch unless it was kept.  What
\* was kept is forgotten, also when it could not be sent.
ReportAll(d) ==
    LET told == Report(d, "WORK_STATE", eq)
        replayed == Replay(Replay(Replay(told, "WORK_STATE"), "MAKEING_START"), "CLEANING_MODE")
        switched == IF told.cache["MAKEING_START"] = None
                    THEN Report(replayed, "MAKEING_START", Switch(making)) ELSE replayed
    IN [switched EXCEPT !.cache = [p \in Dps |-> None]]
-----------------------------------------------------------------------------
Init ==
    /\ net = [status |-> "LAN_UNCONN", conn |-> FALSE, lost |-> FALSE]
    /\ eq = "STANDBY"
    /\ making = FALSE
    /\ dp = [sent |-> [p \in Dps |-> None], cache |-> [p \in Dps |-> None],
             cloud |-> [p \in Dps |-> None], standbyDue |-> FALSE]
    /\ changes = 0

\* onNetStatus.  The local network coming back within two minutes of a loss counts
\* as the cloud; coming back to it from the cloud leaves mIsConnCloud alone.
NetStatus ==
    /\ \E status \in {"LAN_UNCONN", "LAN_CONN", "CLOUD"} :
          net' = CASE status = "CLOUD" -> [net EXCEPT !.status = "CLOUD", !.conn = TRUE]
                   [] status = "LAN_CONN" ->
                         IF net.lost THEN [net EXCEPT !.status = "CLOUD", !.conn = TRUE]
                         ELSE [net EXCEPT !.status = "LAN_CONN"]
                   [] status = "LAN_UNCONN" ->
                         [status |-> status, conn |-> FALSE, lost |-> net.lost \/ net.conn]
    /\ UNCHANGED <<eq, making, dp, changes>>

\* One handleEvents with the timers that are due: the report of everything, the end
\* of the two minutes, standby three seconds after the end of a brew.
HandleEvents(all, expired, standby) ==
    /\ all => net.conn
    /\ expired => net.lost
    /\ standby => dp.standbyDue
    /\ LET d == IF all THEN ReportAll(dp) ELSE dp
       IN dp' = IF standby
                THEN [Report(d, "WORK_STATE", "STANDBY") EXCEPT !.standbyDue = FALSE]
                ELSE d
    /\ net' = [net EXCEPT !.lost = @ /\ ~expired]
    /\ eq' = IF standby THEN "STANDBY" ELSE eq
    /\ UNCHANGED <<making, changes>>

\* A brew starts, is stopped, is done; a cleaning reports its mode.
Brew(m, e) ==
    /\ changes < MaxChanges
    /\ changes' = changes + 1
    /\ making' = m
    /\ eq' = e
    /\ dp' = Report(Report(dp, "MAKEING_START", Switch(m)), "WORK_STATE", e)
    /\ UNCHANGED net

StartBrew == ~making /\ Brew(TRUE, "EXTRACTING")
StopBrew == making /\ Brew(FALSE, "STANDBY")
BrewDone == making /\ Brew(FALSE, "EXTRACT_DONE")

CleanMode ==
    /\ changes < MaxChanges
    /\ changes' = changes + 1
    /\ \E v \in ModeValues : dp' = Report(dp, "CLEANING_MODE", v)
    /\ UNCHANGED <<net, eq, making>>

Due(all, expired, standby) == (all \/ expired \/ standby) /\ HandleEvents(all, expired, standby)

Next ==
    \/ NetStatus \/ StartBrew \/ StopBrew \/ BrewDone \/ CleanMode
    \/ \E all, expired, standby \in BOOLEAN : Due(all, expired, standby)

\* Timers fire: handleEvents runs every tenth of a second.
Fairness ==
    /\ WF_vars(\E expired, standby \in BOOLEAN : Due(TRUE, expired, standby))
    /\ WF_vars(\E all, expired \in BOOLEAN : Due(all, expired, TRUE))

Spec == Init /\ [][Next]_vars /\ Fairness
-----------------------------------------------------------------------------
TypeOK ==
    /\ net \in [status : {"LAN_UNCONN", "LAN_CONN", "CLOUD"}, conn : BOOLEAN, lost : BOOLEAN]
    /\ eq \in WorkStates
    /\ making \in BOOLEAN
    /\ dp \in [sent : [Dps -> Values \cup {None}], cache : [Dps -> Values \cup {None}],
               cloud : [Dps -> Values \cup {None}], standbyDue : BOOLEAN]
    /\ changes \in 0..MaxChanges

\* However often the connection came and went, a cloud that stays connected to a
\* machine that rests ends up showing its work state and its switch.
CloudCatchesUp ==
    <>[]Online => <>[](dp.cloud["WORK_STATE"] = eq /\ dp.cloud["MAKEING_START"] = Switch(making))

\* A machine that brews is not reported as standing by (proto.h:122).
WorkingIsNotStandby == making => eq # "STANDBY"
=============================================================================
