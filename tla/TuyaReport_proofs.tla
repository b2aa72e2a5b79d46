-------------------------- MODULE TuyaReport_proofs --------------------------
(***************************************************************************)
(* The reports to the cloud keep their type: every value sent, kept or     *)
(* shown is one the data points have, however the connection comes and     *)
(* goes and the timers fall.                                               *)
(***************************************************************************)
EXTENDS TuyaReport, TLAPS

Points == [sent : [Dps -> Values \cup {None}], cache : [Dps -> Values \cup {None}],
           cloud : [Dps -> Values \cup {None}], standbyDue : BOOLEAN]

Nets == [status : {"LAN_UNCONN", "LAN_CONN", "CLOUD"}, conn : BOOLEAN, lost : BOOLEAN]

\* What the cloud shows is what was sent last.
Mirrors(d) == d \in Points /\ d.cloud = d.sent

LEMMA StatesType ==
    /\ WorkStates \subseteq Values /\ ModeValues \subseteq Values
    /\ \A b : Switch(b) \in Values
    /\ {"WORK_STATE", "MAKEING_START", "CLEANING_MODE"} = Dps
  BY DEF WorkStates, ModeValues, Values, Switch, Dps

LEMMA TellType ==
    ASSUME NEW d, Mirrors(d), NEW p \in Dps, NEW v \in Values
    PROVE  Mirrors(Tell(d, p, v))
<1>. DEFINE due == d.standbyDue \/ (p = "WORK_STATE" /\ v = "EXTRACT_DONE")
            sent == [d.sent EXCEPT ![p] = v]
<1>1. sent \in [Dps -> Values \cup {None}] /\ due \in BOOLEAN /\ [d.cloud EXCEPT ![p] = v] = sent
  BY DEF Mirrors, Points
<1>2. \A f \in [Dps -> Values \cup {None}], b \in BOOLEAN :
        Mirrors([d EXCEPT !.sent = f, !.cloud = f, !.standbyDue = b])
  BY DEF Mirrors, Points
<1>3. Mirrors([d EXCEPT !.sent = sent, !.cloud = sent, !.standbyDue = due])
  <2>. HIDE DEF sent, due
  <2>. QED  BY <1>1, <1>2
<1>4. d.sent[p] # v => Tell(d, p, v) = [d EXCEPT !.sent = sent, !.cloud = sent, !.standbyDue = due]
  <2>1. [d EXCEPT !.cloud[p] = v] = [d EXCEPT !.cloud = sent]
    BY <1>1 DEF Mirrors, Points
  <2>. QED  BY <1>1, <2>1 DEF Tell, Mirrors, Points
<1>. QED  BY <1>3, <1>4 DEF Tell

LEMMA KeepType ==
    ASSUME NEW d, Mirrors(d), NEW p \in Dps, NEW v \in Values
    PROVE  Mirrors(Keep(d, p, v))
<1>1. [d.cache EXCEPT ![p] = v] \in [Dps -> Values \cup {None}]
  BY DEF Mirrors, Points
<1>2. \A c \in [Dps -> Values \cup {None}] : Mirrors([d EXCEPT !.cache = c])
  BY DEF Mirrors, Points
<1>3. Keep(d, p, v) = [d EXCEPT !.cache = [d.cache EXCEPT ![p] = v]]
  BY DEF Keep, Mirrors, Points
<1>. QED  BY <1>1, <1>2, <1>3

LEMMA ReportType ==
    ASSUME NEW d, Mirrors(d), NEW p \in Dps, NEW v \in Values
    PROVE  Mirrors(Report(d, p, v))
BY TellType, KeepType DEF Report

LEMMA ReplayType ==
    ASSUME NEW d, Mirrors(d), NEW p \in Dps
    PROVE  Mirrors(Replay(d, p))
<1>1. d.cache[p] \in Values \cup {None}
  BY DEF Mirrors, Points
<1>. QED  BY <1>1, ReportType DEF Replay

LEMMA ReportAllType ==
    ASSUME NEW d, Mirrors(d), eq \in WorkStates
    PROVE  Mirrors(ReportAll(d))
<1>. DEFINE told == Report(d, "WORK_STATE", eq)
            first == Replay(told, "WORK_STATE")
            second == Replay(first, "MAKEING_START")
            replayed == Replay(second, "CLEANING_MODE")
            switched == IF told.cache["MAKEING_START"] = None
                        THEN Report(replayed, "MAKEING_START", Switch(making)) ELSE replayed
<1>1. {"WORK_STATE", "MAKEING_START", "CLEANING_MODE"} = Dps /\ Switch(making) \in Values
  BY StatesType
<1>2. Mirrors(told)
  BY <1>1, StatesType, ReportType
<1>3. Mirrors(first)
  BY <1>1, <1>2, ReplayType
<1>4. Mirrors(second)
  BY <1>1, <1>3, ReplayType
<1>5. Mirrors(replayed)
  BY <1>1, <1>4, ReplayType
<1>6. Mirrors(switched)
  BY <1>1, <1>5, ReportType
<1>7. ReportAll(d) = [switched EXCEPT !.cache = [p \in Dps |-> None]]
  BY DEF ReportAll
<1>. HIDE DEF switched
<1>. QED  BY <1>6, <1>7 DEF Mirrors, Points
-----------------------------------------------------------------------------
IInv ==
    /\ net \in Nets /\ eq \in WorkStates /\ making \in BOOLEAN /\ changes \in 0..MaxChanges
    /\ Mirrors(dp)

LEMMA InitIInv == Init => IInv
<1>. SUFFICES ASSUME Init PROVE IInv
  OBVIOUS
<1>1. net \in Nets
  BY DEF Init, Nets
<1>2. Mirrors(dp)
  <2>1. [p \in Dps |-> None] \in [Dps -> Values \cup {None}]
    OBVIOUS
  <2>2. \A f \in [Dps -> Values \cup {None}], b \in BOOLEAN :
          Mirrors([sent |-> f, cache |-> f, cloud |-> f, standbyDue |-> b])
    BY DEF Mirrors, Points
  <2>. QED  BY <2>1, <2>2 DEF Init
<1>3. eq \in WorkStates /\ making \in BOOLEAN
  BY DEF Init, WorkStates
<1>4. changes \in 0..MaxChanges
  <2>1. changes = 0
    BY DEF Init
  <2>. QED  BY <2>1, MaxChangesAssumption
<1>. QED  BY <1>1, <1>2, <1>3, <1>4 DEF IInv

LEMMA HandleEventsIInv ==
    ASSUME IInv, NEW all \in BOOLEAN, NEW expired \in BOOLEAN, NEW standby \in BOOLEAN,
           HandleEvents(all, expired, standby)
    PROVE  IInv'
<1>. DEFINE d == IF all THEN ReportAll(dp) ELSE dp
            r == Report(d, "WORK_STATE", "STANDBY")
<1>1. Mirrors(d)
  BY ReportAllType DEF IInv
<1>2. "WORK_STATE" \in Dps /\ "STANDBY" \in Values /\ "STANDBY" \in WorkStates
  BY DEF Dps, Values, WorkStates
<1>3. Mirrors(r)
  BY <1>1, <1>2, ReportType
<1>4. Mirrors([r EXCEPT !.standbyDue = FALSE])
  <2>. HIDE DEF r
  <2>. QED  BY <1>3 DEF Mirrors, Points
<1>5. dp' = IF standby THEN [r EXCEPT !.standbyDue = FALSE] ELSE d
  BY DEF HandleEvents
<1>6. Mirrors(dp')
  BY <1>1, <1>4, <1>5
<1>7. net' \in Nets
  BY DEF HandleEvents, IInv, Nets
<1>8. eq' \in WorkStates /\ making' \in BOOLEAN /\ changes' \in 0..MaxChanges
  BY <1>2 DEF HandleEvents, IInv
<1>. QED  BY <1>6, <1>7, <1>8 DEF IInv, Mirrors

LEMMA BrewIInv ==
    ASSUME IInv, NEW m \in BOOLEAN, NEW e \in WorkStates, Brew(m, e)
    PROVE  IInv'
<1>. DEFINE d == Report(dp, "MAKEING_START", Switch(m))
<1>1. {"WORK_STATE", "MAKEING_START"} \subseteq Dps /\ Switch(m) \in Values /\ e \in Values
  BY StatesType
<1>2. Mirrors(d)
  BY <1>1, ReportType DEF IInv
<1>3. Mirrors(Report(d, "WORK_STATE", e))
  BY <1>1, <1>2, ReportType
<1>4. Mirrors(dp')
  BY <1>3 DEF Brew
<1>5. changes' \in 0..MaxChanges
  BY MaxChangesAssumption DEF Brew, IInv
<1>. QED  BY <1>4, <1>5 DEF Brew, IInv, Mirrors

LEMMA NetStatusIInv ==
    ASSUME IInv, NetStatus
    PROVE  IInv'
<1>. DEFINE either == net.lost \/ net.conn
<1>1. net' \in Nets
  <2>1. net \in Nets /\ either \in BOOLEAN
    BY DEF IInv
  <2>2. \/ net' = [net EXCEPT !.status = "CLOUD", !.conn = TRUE]
        \/ net' = [net EXCEPT !.status = "LAN_CONN"]
        \/ net' = [status |-> "LAN_UNCONN", conn |-> FALSE, lost |-> either]
    BY DEF NetStatus
  <2>3. [net EXCEPT !.status = "CLOUD", !.conn = TRUE] \in Nets
    BY <2>1 DEF Nets
  <2>4. [net EXCEPT !.status = "LAN_CONN"] \in Nets
    BY <2>1 DEF Nets
  <2>. HIDE DEF either
  <2>5. [status |-> "LAN_UNCONN", conn |-> FALSE, lost |-> either] \in Nets
    BY <2>1 DEF Nets
  <2>. QED  BY <2>2, <2>3, <2>4, <2>5
<1>. QED  BY <1>1 DEF NetStatus, IInv, Mirrors

LEMMA CleanModeIInv ==
    ASSUME IInv, CleanMode
    PROVE  IInv'
<1>1. PICK v \in ModeValues : dp' = Report(dp, "CLEANING_MODE", v)
  BY DEF CleanMode
<1>2. "CLEANING_MODE" \in Dps /\ v \in Values
  BY StatesType
<1>3. Mirrors(dp')
  BY <1>1, <1>2, ReportType DEF IInv
<1>4. changes' \in 0..MaxChanges
  BY MaxChangesAssumption DEF CleanMode, IInv
<1>. QED  BY <1>3, <1>4 DEF CleanMode, IInv, Mirrors

LEMMA NextIInv ==
    ASSUME IInv, [Next]_vars
    PROVE  IInv'
<1>1. CASE UNCHANGED vars
  BY <1>1 DEF vars, IInv, Mirrors
<1>2. CASE StartBrew \/ StopBrew \/ BrewDone
  <2>1. {"EXTRACTING", "STANDBY", "EXTRACT_DONE"} \subseteq WorkStates
    BY DEF WorkStates
  <2>. QED  BY <1>2, <2>1, BrewIInv DEF StartBrew, StopBrew, BrewDone
<1>3. CASE \E all, expired, standby \in BOOLEAN : Due(all, expired, standby)
  BY <1>3, HandleEventsIInv DEF Due
<1>. QED  BY <1>1, <1>2, <1>3, NetStatusIInv, CleanModeIInv DEF Next

\* The state of the reports has its type, for any number of changes: no step sends or keeps
\* for a data point what is not a value.
THEOREM ReportsTypeOK == Spec => []TypeOK
<1>1. Init => IInv
  BY InitIInv
<1>2. IInv /\ [Next]_vars => IInv'
  BY NextIInv
<1>3. IInv => TypeOK
  BY DEF IInv, TypeOK, Nets, Mirrors, Points
<1>. QED  BY <1>1, <1>2, <1>3, PTL DEF Spec
=============================================================================
