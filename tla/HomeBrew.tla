------------------------------ MODULE HomeBrew ------------------------------
(***************************************************************************)
(* Brewing at the home page: the bean, cup, rebrew, hot water and steam    *)
(* buttons, the frames of the machine's controller (MCU), its warnings and *)
(* the commands of the cloud and of the voice assistant                    *)
(* (src/src/windows/page_home.cc with the managers of its tabs in          *)
(* home_tab_mode_*.cc, src/src/protocol/conn_mgr.cc, and the parts of      *)
(* wind_mgr.cc and pop_warn.cc that deliver events to the page).           *)
(*                                                                         *)
(* Every handler runs to its end on the main thread, and one handler may   *)
(* press several buttons by itself (performClick).  So a handler is an     *)
(* operator from a state of the page to the next, and an action applies    *)
(* the operators in the order of the calls.                                *)
(***************************************************************************)
EXTENDS Naturals, Sequences, FiniteSets

CONSTANTS
    Groups,     \* the tabs in use, out of AllGroups
    Faults,     \* the warnings the MCU may report, out of AllFaults
    Remote      \* what else happens, out of AllRemote

AllGroups == {"ESPRESSO", "AMERICANO", "MASTER", "HANDWASH", "TEA"}
AllFaults == {"E01", "E02", "E03", "E04", "E05", "E06", "E07", "E08", "E09",
              "E10", "E13", "E15", "E16", "A01", "A02", "A03"}
AllRemote == {"GRIND", "EXT", "STOP", "AI", "CLEAN", "REHEAT"}

ASSUME GroupsAssumption == {"ESPRESSO", "AMERICANO"} \subseteq Groups /\ Groups \subseteq AllGroups
ASSUME FaultsAssumption == Faults \subseteq AllFaults
ASSUME RemoteAssumption == Remote \subseteq AllRemote

VARIABLE home   \* the page and the fields of g_appData it works on

Beans == {"bean1", "bean2"}
Cups == {"cup1", "cup2"}
Buttons == Beans \cup Cups \cup {"rebrew"}
Jobs == {"POWDER", "EXT", "HOT_WATER"}
Pops == {"none", "WARN", "EXT_TIPS", "REBREW_TIPS", "CANCEL_WORK", "REBREW_SET", "LOST"}
EqStatus == {"STANDBY", "GRINDING", "GRIND_DONE", "EXTRACTING", "EXTRACT_DONE",
             "PRE_HEATING", "WASHING", "WASH_DONE"}

Home == [shown : BOOLEAN,                       \* is the home page mShowPage?
         tab : AllGroups,                       \* mModeData[homeTabSelectMode]
         group : AllGroups,                     \* mGroupType
         machine : SUBSET (Jobs \cup {"STEAM"}),\* machineState
         selected : SUBSET Buttons,             \* the buttons drawn as working
         activated : SUBSET Buttons,            \* the buttons that react
         beanItem : Beans,                      \* mBeanItemState
         cupItem : Cups \cup {"none"},          \* mCupItemState
         hot : BOOLEAN, steam : BOOLEAN,        \* level 10000 of the two buttons
         hotEnabled : BOOLEAN,                  \* is the hot water button enabled?
         ready : BOOLEAN,                       \* coffeePreheatPtc >= 100
         enough : BOOLEAN,                      \* grindBean >= the powder set
         step : {"WASH", "EXT", "REBREW"},      \* mExtractStep of the tea tab
         eq : EqStatus,                         \* eqStatus
         warn : SUBSET AllFaults,               \* warnState
         dealt : SUBSET AllFaults,              \* warnIsDealState
         pausing : BOOLEAN,                     \* mIsShowBeanWarn
         snoozed : BOOLEAN,                     \* nextPopWarnClean is still to come
         pop : Pops,                            \* mPopPage
         listed : SUBSET AllFaults,             \* mWarnData of an open warning
         asked : AllFaults \cup {"none"}]       \* warnShowType of an open warning

\* The warning masks of proto.h.
NeedStop == {"E01", "E15", "E16", "E02", "E03", "E04", "E05", "E06", "E10", "E13", "E08"}
StopGrind == {"E01", "E15", "E16", "E06", "E09", "E07", "E13", "E08"}
StopExt == {"E01", "E15", "E16", "E02", "E04", "E05", "E06", "E09", "E10", "A01", "E13"}
StopHotWater == {"E01", "E15", "E16", "E05", "E06", "E10", "A01", "E13"}
StopSteam == {"E01", "E15", "E16", "E03", "E06", "E10", "A01", "E13"}
Pausing == {"E07", "E09", "A01", "A03"}

\* initWarnText: the order in which warnings are put to the user.
WarnOrder == <<"E02", "E03", "E04", "E05", "E06", "E07", "E08", "E09", "E13", "E15", "E16",
               "E01", "E10", "A01", "A02", "A03">>
Place(w) == CHOOSE i \in DOMAIN WarnOrder : WarnOrder[i] = w
Leads(w, ws) == \A v \in ws : Place(w) <= Place(v)
FirstOf(ws) == IF \E w \in ws : Leads(w, ws) THEN CHOOSE w \in ws : Leads(w, ws) ELSE "none"

Undealt(h) == h.warn \ h.dealt
-----------------------------------------------------------------------------
(* Pop-ups.                                                                *)

\* A pop-up is not shown over another one.
ShowPop(h, kind) == IF h.pop = "none" THEN [h EXCEPT !.pop = kind] ELSE h

ListWarns(h, ws) == [h EXCEPT !.pop = "WARN", !.listed = ws, !.asked = FirstOf(ws)]
ShowWarn(h) == IF h.pop = "none" THEN ListWarns(h, Undealt(h)) ELSE h
WarnGone(h) == [h EXCEPT !.pop = "none", !.listed = {}, !.asked = "none"]

\* "No" to the next step of a tea goes back to the first one.
CancelPop(h) ==
    IF h.pop \in {"EXT_TIPS", "REBREW_TIPS"}
    THEN [h EXCEPT !.pop = "none", !.step = "WASH", !.eq = "STANDBY"]
    ELSE [h EXCEPT !.pop = "none"]

\* The cancel button of a warning calls updateDate with the flag that made the
\* page close the pop-up still set: it comes back here and never returns.
ClosePop(h) ==
    IF h.pop \in {"WARN", "LOST"} THEN [h EXCEPT !.pop = "LOST"] ELSE CancelPop(h)

\* A refused start shows its warnings again, dealt with or not.
ReWarn(h, mask) == ShowWarn([ClosePop(h) EXCEPT !.dealt = @ \ mask])

Blocked_Stops(h, mask, flagged, working) == h.warn \cap mask # {} /\ ~flagged
Blocked(h, mask, flagged, working) == h.warn \cap mask # {} /\ ~flagged /\ ~working

Remind_NoSnooze(h) ==
    IF "A02" \in h.warn THEN ShowWarn([h EXCEPT !.dealt = @ \ {"A02"}]) ELSE h

\* The clean reminder is shown again after a brew unless it was put off.
Remind(h) ==
    IF "A02" \in h.warn /\ ~h.snoozed
    THEN ShowWarn([h EXCEPT !.dealt = @ \ {"A02"}]) ELSE h
-----------------------------------------------------------------------------
(* The tea tab.                                                            *)

StartTea(h) ==
    [h EXCEPT !.selected = IF "rebrew" \in @ THEN @ ELSE @ \cup {"cup1"},
              !.activated = @ \ {IF "rebrew" \in h.selected THEN "cup1" ELSE "rebrew"},
              !.eq = IF h.step = "WASH" THEN "WASHING" ELSE "EXTRACTING",
              !.machine = @ \cup {"EXT"}]

TeaUnselected_Cup(h) == [h EXCEPT !.selected = @ \ {"cup1"}, !.activated = @ \cup {"rebrew"}]

TeaUnselected_StaysOff(h) ==
    [h EXCEPT !.selected = @ \ {IF "cup1" \in @ THEN "cup1" ELSE "rebrew"}]

TeaUnselected(h) ==
    IF "cup1" \in h.selected
    THEN [h EXCEPT !.selected = @ \ {"cup1"}, !.activated = @ \cup {"rebrew"}]
    ELSE [h EXCEPT !.selected = @ \ {"rebrew"}, !.activated = @ \cup {"cup1"}]

\* The MCU has finished: ask for the next step.
TeaDone(h) ==
    IF h.step = "WASH" THEN ShowPop([h EXCEPT !.eq = "WASH_DONE"], "EXT_TIPS")
                       ELSE ShowPop([h EXCEPT !.eq = "EXTRACT_DONE"], "REBREW_TIPS")

StopTea_Done(h) == Remind(TeaDone([TeaUnselected(h) EXCEPT !.machine = @ \ {"EXT"}]))

StopTea(h) ==
    LET u == TeaUnselected(h)
    IN Remind(IF "EXT" \in h.machine
              THEN [u EXCEPT !.eq = "STANDBY", !.machine = @ \ {"EXT"}]
              ELSE TeaDone(u))

TeaItemClick_NoQuestion(h, v) ==
    IF v \in h.selected
    THEN IF "EXT" \in h.machine THEN ShowPop(h, "CANCEL_WORK")
         ELSE StartTea([h EXCEPT !.step = "EXT"])
    ELSE IF v = "cup1" THEN StartTea(h) ELSE ShowPop(h, "REBREW_SET")

\* The cup or the rebrew button, past the checks of the page.
TeaItemClick(h, v) ==
    IF v \in h.selected
    THEN IF "EXT" \in h.machine THEN ShowPop(h, "CANCEL_WORK") ELSE StopTea(h)
    ELSE IF v = "cup1" THEN StartTea(h) ELSE ShowPop(h, "REBREW_SET")

RebrewClick(h) ==
    IF h.group = "TEA" /\ "rebrew" \in h.activated THEN TeaItemClick(h, "rebrew") ELSE h
-----------------------------------------------------------------------------
(* The coffee tabs.                                                        *)

\* The buttons a tab's manager listens to.
Handled(group) ==
    CASE group \in {"ESPRESSO", "AMERICANO", "MASTER"} -> Beans \cup Cups
      [] group = "HANDWASH" -> {"bean1", "cup1"}
      [] group = "TEA" -> {"cup1", "rebrew"}

TwoSizes == {"ESPRESSO", "AMERICANO"}

CupOf_NotReady(h) == IF h.group \in TwoSizes THEN {h.cupItem} ELSE {"cup1"}

\* The cup that reacts again when grinding ends, the bean when a cup ends.
CupOf(h) == CASE h.group \in TwoSizes -> {h.cupItem} \cap Cups
              [] h.group = "HANDWASH" -> IF h.ready THEN {"cup1"} ELSE {}
              [] OTHER -> {"cup1"}
BeanOf(h) == IF h.group \in TwoSizes THEN {h.beanItem} ELSE {"bean1"}
CupsOff(h) == IF h.group \in TwoSizes THEN Cups ELSE CupOf(h)
BeansOff(h) == IF h.group \in TwoSizes THEN Beans ELSE {"bean1"}

ToggleBean(h, v) ==
    IF v \notin Handled(h.group) THEN h
    ELSE IF v \in h.selected
    THEN [h EXCEPT !.selected = @ \ {v}, !.activated = @ \cup CupOf(h)]
    ELSE [h EXCEPT !.selected = @ \cup {v}, !.activated = @ \ CupsOff(h)]

BeanInfo_Grinds(h, v) ==
    IF v \in h.selected
    THEN [h EXCEPT !.enough = FALSE, !.eq = "GRINDING", !.hotEnabled = FALSE,
                   !.machine = @ \cup {"POWDER"}]
    ELSE [h EXCEPT !.eq = IF h.enough THEN "GRIND_DONE" ELSE "STANDBY", !.hotEnabled = TRUE]

\* dealPowderInfoGroup for a bean.
BeanInfo(h, v) ==
    IF v \in h.selected
    THEN [h EXCEPT !.enough = FALSE, !.eq = "GRINDING", !.hotEnabled = FALSE,
                   !.machine = @ \cup {"POWDER"}]
    ELSE [h EXCEPT !.eq = IF h.enough THEN "GRIND_DONE" ELSE "STANDBY",
                   !.hotEnabled = TRUE, !.machine = @ \ {"POWDER"}]

BeanClick_Unchecked(h, v, flagged) ==
    IF Blocked(h, StopGrind, flagged, v \in h.selected) THEN ReWarn(h, StopGrind)
    ELSE BeanInfo(ToggleBean(h, v), v)

BeanClick(h, v, flagged) ==
    CASE h.machine \cap {"HOT_WATER", "EXT"} # {} -> h
      [] OTHER -> IF Blocked(h, StopGrind, flagged, v \in h.selected) THEN ReWarn(h, StopGrind)
                  ELSE IF v \notin h.activated THEN h
                  ELSE BeanInfo(ToggleBean(h, v), v)

ToggleCup_Swapped(h, v) ==
    IF v \notin Handled(h.group) THEN h
    ELSE IF v \in h.selected
    THEN [h EXCEPT !.selected = @ \ {v}, !.activated = @ \cup BeanOf(h),
                   !.eq = IF "EXT" \in h.machine THEN "EXTRACT_DONE" ELSE "STANDBY",
                   !.machine = @ \ {"EXT"}]
    ELSE [h EXCEPT !.selected = @ \cup {v}, !.activated = @ \ BeansOff(h),
                   !.eq = "EXTRACTING", !.machine = @ \cup {"EXT"}]

ToggleCup_BeansOff(h, v) ==
    IF v \notin Handled(h.group) THEN h
    ELSE IF v \in h.selected
    THEN [h EXCEPT !.selected = @ \ {v},
                   !.eq = IF "EXT" \in h.machine THEN "STANDBY" ELSE "EXTRACT_DONE",
                   !.machine = @ \ {"EXT"}]
    ELSE [h EXCEPT !.selected = @ \cup {v}, !.activated = @ \ BeansOff(h),
                   !.eq = "EXTRACTING", !.machine = @ \cup {"EXT"}]

\* A cup that stops when the MCU has already finished is a brew done.
ToggleCup(h, v) ==
    IF v \notin Handled(h.group) THEN h
    ELSE IF v \in h.selected
    THEN [h EXCEPT !.selected = @ \ {v}, !.activated = @ \cup BeanOf(h),
                   !.eq = IF "EXT" \in h.machine THEN "STANDBY" ELSE "EXTRACT_DONE",
                   !.machine = @ \ {"EXT"}]
    ELSE [h EXCEPT !.selected = @ \cup {v}, !.activated = @ \ BeansOff(h),
                   !.eq = "EXTRACTING", !.machine = @ \cup {"EXT"}]

\* dealRightInfoGroup and dealPowderInfoGroup for a cup.
CupInfo(h, v) ==
    IF v \in h.selected
    THEN [h EXCEPT !.enough = FALSE, !.hotEnabled = FALSE]
    ELSE [Remind(h) EXCEPT !.hotEnabled = TRUE]

CupClick_NoHotCheck(h, v, flagged) ==
    CASE ~h.ready \/ "POWDER" \in h.machine -> h
      [] OTHER -> IF Blocked(h, StopExt, flagged, v \in h.selected) THEN ReWarn(h, StopExt)
                  ELSE IF v \notin h.activated THEN h
                  ELSE IF h.group # "TEA" THEN CupInfo(ToggleCup(h, v), v)
                  ELSE IF v = "cup1" THEN TeaItemClick(h, v) ELSE h

CupClick(h, v, flagged) ==
    CASE ~h.ready \/ h.machine \cap {"HOT_WATER", "POWDER"} # {} -> h
      [] OTHER -> IF Blocked(h, StopExt, flagged, v \in h.selected) THEN ReWarn(h, StopExt)
                  ELSE IF v \notin h.activated THEN h
                  ELSE IF h.group # "TEA" THEN CupInfo(ToggleCup(h, v), v)
                  ELSE IF v = "cup1" THEN TeaItemClick(h, v) ELSE h

\* The managers of espresso and americano let the buttons react again.
HotToggled(h) ==
    IF h.hot
    THEN [h EXCEPT !.hot = FALSE,
                   !.activated = IF h.group \in TwoSizes THEN @ \cup CupOf(h) \cup BeanOf(h) ELSE @,
                   !.eq = IF "HOT_WATER" \in h.machine THEN "STANDBY" ELSE "EXTRACT_DONE",
                   !.machine = @ \ {"HOT_WATER"}]
    ELSE [h EXCEPT !.hot = TRUE, !.activated = @ \ (Beans \cup Cups),
                   !.eq = "EXTRACTING", !.machine = @ \cup {"HOT_WATER"}]

HotClick_NoWorkCheck(h, flagged) ==
    CASE ~h.ready -> h
      [] OTHER -> IF Blocked(h, StopHotWater, flagged, h.hot) THEN ReWarn(h, StopHotWater)
                  ELSE HotToggled(h)

HotClick_NoWarnCheck(h, flagged) ==
    IF ~h.ready \/ h.machine \cap {"POWDER", "EXT"} # {} THEN h ELSE HotToggled(h)

HotClick(h, flagged) ==
    CASE ~h.ready \/ h.machine \cap {"POWDER", "EXT"} # {} -> h
      [] OTHER -> IF Blocked(h, StopHotWater, flagged, h.hot) THEN ReWarn(h, StopHotWater)
                  ELSE HotToggled(h)

SteamClick(h, flagged) ==
    CASE ~h.ready -> h
      [] OTHER -> IF Blocked(h, StopSteam, flagged, h.steam) THEN ReWarn(h, StopSteam)
                  ELSE [h EXCEPT !.steam = ~@,
                                 !.machine = IF h.steam THEN @ \ {"STEAM"} ELSE @ \cup {"STEAM"}]
-----------------------------------------------------------------------------
(* The tab shown.                                                          *)

Brewing(h) == h.machine \cap {"POWDER", "EXT"} # {}

\* updateBeanCupImgStatus, c being the cup that the water set calls for.
CupsUpdated(h, c) ==
    LET cups == CASE h.group \in TwoSizes -> Cups
                  [] h.group = "TEA" -> {"cup1", "rebrew"}
                  [] OTHER -> {"cup1"}
        item == IF h.ready THEN c ELSE "none"
        on == CASE ~h.ready -> {} [] h.ready /\ h.group \in TwoSizes -> {c} [] OTHER -> cups
    IN [h EXCEPT !.cupItem = IF h.group \in TwoSizes THEN item ELSE @,
                 !.activated = IF h.ready /\ Brewing(h) THEN @ ELSE (@ \ cups) \cup on]

\* A tab's updatePageData when the preheating flag is set.
Preheated(h, c) ==
    LET up == CupsUpdated(h, c)
    IN IF h.group \in TwoSizes /\ h.ready THEN [up EXCEPT !.hot = FALSE, !.steam = FALSE] ELSE up

\* The tab's own updateGroupData, b being the bean that the dose calls for.
GroupData(h, b, c) ==
    CASE h.group \in TwoSizes ->
            LET up == Preheated(h, c)
            IN [up EXCEPT !.beanItem = b, !.activated = (@ \ Beans) \cup {b}]
      [] h.group = "TEA" ->
            CupsUpdated([h EXCEPT !.activated = @ \cup {"rebrew"}, !.step = "WASH"], c)
      [] OTHER ->
            LET up == CupsUpdated(h, c) IN [up EXCEPT !.activated = @ \cup {"bean1"}]

\* setGroupType.
SetGroup(h, g, b, c) ==
    LET up == GroupData([h EXCEPT !.group = g], b, c)
    IN [up EXCEPT !.selected = @ \ (Beans \cup Cups)]

\* showPage(PAGE_HOME): resetPageAction when another page was shown.
ShowHome(h, c) == IF h.shown THEN h ELSE [Preheated(h, c) EXCEPT !.shown = TRUE]

SteamOff(h) == IF "STEAM" \in h.machine THEN SteamClick(h, FALSE) ELSE h

\* The button the page presses itself.
PressBean(h, flagged) == BeanClick(h, IF "bean1" \in h.selected THEN "bean1" ELSE "bean2", flagged)

PressCup_Single(h, flagged) == CupClick(h, "cup1", flagged)

PressCup(h, flagged) ==
    CASE "cup1" \in h.selected -> CupClick(h, "cup1", flagged)
      [] "cup1" \notin h.selected /\ "rebrew" \in h.selected -> RebrewClick(h)
      [] OTHER -> CupClick(h, "cup2", flagged)

StopForFault_NoSteam(h) ==
    CASE "POWDER" \in h.machine -> PressBean(h, TRUE)
      [] "POWDER" \notin h.machine /\ "EXT" \in h.machine -> PressCup(h, TRUE)
      [] h.machine \cap Jobs = {"HOT_WATER"} -> HotClick(h, TRUE)
      [] OTHER -> h

\* A warning that must stop the work.
StopForFault(h) ==
    LET p == CASE "POWDER" \in h.machine -> PressBean(h, TRUE)
               [] "POWDER" \notin h.machine /\ "EXT" \in h.machine -> PressCup(h, TRUE)
               [] h.machine \cap Jobs = {"HOT_WATER"} -> HotClick(h, TRUE)
               [] OTHER -> h
    IN IF "STEAM" \in p.machine THEN SteamClick(p, TRUE) ELSE p

DealWarn(h) ==
    IF Undealt(h) \cap NeedStop = {}
    THEN [h EXCEPT !.pausing = Undealt(h) \cap Pausing # {}]
    ELSE StopForFault([h EXCEPT !.pausing = FALSE])

WarnClosed_NoHotWater(h) ==
    LET p == CASE h.shown /\ h.pausing /\ "POWDER" \in h.machine -> PressBean(h, FALSE)
               [] h.shown /\ h.pausing /\ h.machine \cap Jobs = {"EXT"} -> PressCup(h, FALSE)
               [] OTHER -> h
        q == IF p.pop = "LOST" THEN p ELSE WarnGone(p)
    IN [q EXCEPT !.pausing = IF h.shown THEN FALSE ELSE @]

\* The last warning is confirmed: work that waited for it stops.
WarnClosed(h) ==
    LET p == CASE ~(h.shown /\ h.pausing) -> h
               [] OTHER ->
                  CASE "POWDER" \in h.machine -> PressBean(h, FALSE)
                    [] "POWDER" \notin h.machine /\ "EXT" \in h.machine ->
                          IF h.group = "TEA" THEN StopTea(h)
                          ELSE CupClick(h, IF "cup1" \in h.selected THEN "cup1" ELSE "cup2", FALSE)
                    [] h.machine \cap Jobs = {"HOT_WATER"} -> HotClick(h, FALSE)
                    [] OTHER -> h
        q == IF p.pop = "LOST" THEN p ELSE WarnGone(p)
    IN [q EXCEPT !.pausing = IF h.shown THEN FALSE ELSE @]

\* The cup the water set calls for: it does not change while the page stands, and
\* counts only when the machine is heated.
CupChoices(h) ==
    IF h.cupItem # "none" THEN {h.cupItem} ELSE IF h.ready THEN Cups ELSE {"cup1"}

\* The dose and the water of a group opened by a command, where it has both sizes.
Dose(sized) == IF sized THEN Beans ELSE {"bean1"}
Water(sized) == IF sized /\ home.ready THEN Cups ELSE {"cup1"}
-----------------------------------------------------------------------------
Init ==
    \E b \in Beans, c \in Cups :
       home = SetGroup([shown |-> TRUE, tab |-> "AMERICANO", group |-> "AMERICANO",
                        machine |-> {}, selected |-> {}, activated |-> {},
                        beanItem |-> b, cupItem |-> "none", hot |-> FALSE, steam |-> FALSE,
                        hotEnabled |-> TRUE, ready |-> FALSE, enough |-> FALSE,
                        step |-> "WASH", eq |-> "PRE_HEATING", warn |-> {}, dealt |-> {},
                        pausing |-> FALSE, snoozed |-> FALSE, pop |-> "none",
                        listed |-> {}, asked |-> "none"],
                       "AMERICANO", b, c)

(* The user.  A pop-up covers the page.                                    *)
AtPage == home.shown /\ home.pop = "none"

TapBean ==
    /\ AtPage
    /\ \E v \in IF home.group \in TwoSizes THEN Beans ELSE {"bean1"} :
          home.group # "TEA" /\ home' = BeanClick(home, v, FALSE)

TapCup ==
    /\ AtPage
    /\ \E v \in IF home.group \in TwoSizes THEN Cups ELSE {"cup1"} :
          home' = CupClick(home, v, FALSE)

TapRebrew == AtPage /\ home.group = "TEA" /\ home' = RebrewClick(home)

TapHotWater ==
    AtPage /\ home.group \in TwoSizes /\ home.hotEnabled /\ home' = HotClick(home, FALSE)

TapSteam == AtPage /\ home.group \in TwoSizes /\ home' = SteamClick(home, FALSE)

TapTab ==
    /\ AtPage
    /\ home.machine = {}
    /\ \E g \in Groups \ {home.tab}, b \in Beans, c \in Cups :
          home' = SetGroup([home EXCEPT !.tab = g], g, b, c)

\* Either arc, by hand or with its buttons; both are hidden while a brew or hot
\* water runs, the dose's also while grinding.
SlideDose ==
    /\ AtPage /\ home.group \in TwoSizes /\ home.hotEnabled /\ ~home.hot
    /\ \E b \in Beans :
          home' = [home EXCEPT !.beanItem = b, !.activated = (@ \ Beans) \cup {b}]

SlideWater ==
    /\ AtPage /\ home.group \in TwoSizes /\ home.ready
    /\ home.selected \cap Cups = {} /\ ~home.hot
    /\ \E c \in Cups :
          home' = [home EXCEPT !.cupItem = c, !.activated = (@ \ Cups) \cup {c}]

TapReset ==
    /\ AtPage /\ home.group \in TwoSizes
    /\ ~Brewing(home) /\ ~home.hot
    /\ \E b \in Beans, c \in Cups :
          home' = LET up == CupsUpdated(home, c)
                  IN [up EXCEPT !.beanItem = b, !.activated = (@ \ Beans) \cup {b}]

\* The arrow of the tea tab: a step back, or to the list of the teas.
TapTeaBack ==
    /\ AtPage /\ home.group = "TEA" /\ home.selected \cap {"cup1", "rebrew"} = {}
    /\ home' = CASE home.step = "WASH" -> GroupData(home, "bean1", "cup1")
                 [] home.step = "EXT" -> [home EXCEPT !.step = "WASH"]
                 [] home.step = "REBREW" -> [home EXCEPT !.step = "EXT"]

\* The two buttons of a tea pop-up.  A start refused because of a warning
\* closes the pop-up from within its own callback.
NextStep(h, step) ==
    LET c == CupClick([h EXCEPT !.step = step], "cup1", FALSE)
    IN [c EXCEPT !.pop = IF @ = h.pop THEN "none" ELSE "LOST"]

EnterPop(h) ==
    CASE h.pop = "EXT_TIPS" -> NextStep(h, "EXT")
      [] h.pop = "REBREW_TIPS" -> NextStep(h, "REBREW")
      [] h.pop = "CANCEL_WORK" ->
            [StopTea([h EXCEPT !.step = "WASH"]) EXCEPT !.pop = "none"]
      [] h.pop = "REBREW_SET" ->
            [StartTea([h EXCEPT !.step = "REBREW", !.selected = @ \cup {"rebrew"}])
                EXCEPT !.pop = "none"]

TapPop ==
    /\ home.pop \in {"EXT_TIPS", "REBREW_TIPS", "CANCEL_WORK", "REBREW_SET"}
    /\ home' = EnterPop(home) \/ home' = CancelPop(home)

\* "OK" to one warning; the pop-up goes on to the next one.
ConfirmWarn ==
    /\ home.pop = "WARN" /\ home.asked \notin {"A02", "none"}
    /\ LET d == [home EXCEPT !.dealt = @ \cup {home.asked}]
           rest == home.listed \ {home.asked}
       IN home' = IF rest # {} THEN ListWarns(d, rest) ELSE WarnClosed(d)

\* The clean reminder: clean at once, or later.
CleanNow ==
    /\ home.pop = "WARN" /\ home.asked = "A02"
    /\ home' = WarnGone([home EXCEPT !.dealt = @ \cup {"A02"}, !.shown = FALSE])

CleanLater ==
    /\ home.pop = "WARN" /\ home.asked = "A02"
    /\ \E s \in BOOLEAN :
          home' = WarnClosed([home EXCEPT !.dealt = @ \cup {"A02"}, !.snoozed = s])

SnoozeEnds == home.snoozed /\ home' = [home EXCEPT !.snoozed = FALSE]

\* Another page or the screen saver, only while nothing works; and back.
LeavePage ==
    /\ home.shown /\ home.machine = {} /\ home.pop # "WARN"
    /\ home' = [CancelPop(home) EXCEPT !.shown = FALSE]

ComeBack ==
    /\ ~home.shown /\ home.pop = "none"
    /\ \E c \in CupChoices(home) : home' = ShowHome(home, c)

\* A touch on the screen saver starts the heating again.
WakeUp ==
    /\ ~home.shown /\ home.pop = "none" /\ home.machine = {}
    /\ home.eq \notin {"GRINDING", "EXTRACTING", "WASHING"}
    /\ \E c \in Cups : home' = ShowHome([home EXCEPT !.ready = FALSE, !.eq = "PRE_HEATING"], c)
-----------------------------------------------------------------------------
(* Frames of the MCU: onCommDeal, then updateDate.                         *)

Preheat(ready) ==
    LET h == [home EXCEPT !.ready = ready]
    IN IF h.machine \subseteq {"POWDER"}
       THEN \E c \in CupChoices(h) :
               home' = [(IF h.shown THEN Preheated(h, c) ELSE h)
                           EXCEPT !.eq = IF ready THEN "STANDBY" ELSE "PRE_HEATING"]
       ELSE home' = h

PreheatDone == Preheat(TRUE)

\* Heating again after it was ready, as for a new temperature.
Reheat == "REHEAT" \in Remote /\ home.ready /\ Preheat(FALSE)

\* Enough powder is ground; a smaller amount only changes the display.
GrindDone ==
    /\ "POWDER" \in home.machine
    /\ LET h == [home EXCEPT !.enough = TRUE]
       IN home' = IF h.shown THEN PressBean(h, FALSE) ELSE h

BrewDone ==
    /\ "EXT" \in home.machine
    /\ LET h == [home EXCEPT !.machine = @ \ {"EXT"}]
       IN home' = IF h.shown THEN PressCup(h, FALSE) ELSE h

HotWaterDone ==
    /\ "HOT_WATER" \in home.machine
    /\ LET h == [home EXCEPT !.machine = @ \ {"HOT_WATER"}]
       IN home' = IF h.shown THEN HotClick(h, FALSE) ELSE h

SteamDone ==
    /\ "STEAM" \in home.machine
    /\ LET h == [home EXCEPT !.machine = @ \ {"STEAM"}]
       IN home' = IF h.shown THEN SteamClick(h, FALSE) ELSE h

\* The set of warnings changes.  One that is new covers the page, over the
\* screen saver it is not shown.
WarnFrame ==
    \E w \in SUBSET Faults \ {home.warn} :
       LET h == [home EXCEPT !.warn = w, !.dealt = @ \cap w]
           s == CASE h.pop # "WARN" -> ListWarns(CancelPop(h), Undealt(h))
                  [] h.pop = "WARN" /\ h.asked \in Undealt(h) -> [h EXCEPT !.listed = Undealt(h)]
                  [] OTHER -> ListWarns(h, Undealt(h))
       IN CASE Undealt(h) = {} /\ h.pop = "WARN" -> home' = WarnGone(h)
            [] Undealt(h) = {} /\ h.pop # "WARN" ->
                  home' = [h EXCEPT !.pausing = IF h.shown THEN FALSE ELSE @]
            [] Undealt(h) # {} /\ ~h.shown ->
                  \/ home' = s
                  \/ h.pop = "none" /\ home' = h
            [] Undealt(h) # {} /\ h.shown ->
                  home' = IF h.machine = {} THEN [s EXCEPT !.pausing = FALSE] ELSE DealWarn(s)
-----------------------------------------------------------------------------
(* The cloud (Tuya) and the voice assistant.                               *)

\* What updateDate does before the page sees a grind or brew command.
Called(h, c) == SteamOff(ShowHome(ClosePop(h), c))

TuyaGrindStart ==
    /\ "GRIND" \in Remote
    /\ \E b \in Dose(home.group = "TEA"), c \in CupChoices(home), d \in Water(home.group = "TEA") :
          LET h == Called(home, c)
              g == IF h.group = "TEA" THEN SetGroup([h EXCEPT !.tab = "AMERICANO"], "ESPRESSO", b, d) ELSE h
          IN home' = IF h.machine \cap Jobs # {} THEN h
                     ELSE BeanClick(g, IF "bean1" \in g.activated THEN "bean1" ELSE "bean2", FALSE)

TuyaGrindStop ==
    /\ "GRIND" \in Remote
    /\ \E c \in CupChoices(home) :
          LET h == Called(home, c)
          IN home' = IF "POWDER" \in h.machine THEN PressBean(h, FALSE) ELSE h

\* A brew command answers the question that is open, whatever it asks for.
Answered(h, yes, c) == SteamOff(ShowHome(IF yes THEN EnterPop(h) ELSE CancelPop(h), c))
Asking == home.pop \in {"EXT_TIPS", "REBREW_TIPS"}

TuyaAnswer ==
    /\ "EXT" \in Remote /\ Asking
    /\ \E yes \in BOOLEAN, c \in CupChoices(home) : home' = Answered(home, yes, c)

TuyaBrewCoffee ==
    /\ "EXT" \in Remote /\ ~Asking
    /\ \E g \in Groups \ {"TEA"}, c \in CupChoices(home) :
       \E b \in Dose(g \in TwoSizes), d \in Water(g \in TwoSizes) :
          LET h == SetGroup([Called(home, c) EXCEPT !.tab = g], g, b, d)
          IN home' = CASE "cup1" \in h.activated -> CupClick(h, "cup1", FALSE)
                       [] "cup1" \notin h.activated /\ "cup2" \in h.activated -> CupClick(h, "cup2", FALSE)
                       [] OTHER -> h

TuyaBrewTea ==
    /\ "EXT" \in Remote /\ ~Asking /\ "TEA" \in Groups
    /\ \E again \in BOOLEAN, c \in CupChoices(home) :
          LET h == [Called(home, c) EXCEPT !.tab = "TEA"]
              t == IF h.group = "TEA" THEN h ELSE SetGroup(h, "TEA", "bean1", "cup1")
          IN home' = StartTea([t EXCEPT !.selected = @ \cup (IF again THEN {"rebrew"} ELSE {})])

\* Hot water asked for while the tab has no such button opens the espresso
\* group under the first tab, americano.
HotWaterAt(h, b, c) ==
    HotClick(IF h.group \in TwoSizes THEN h
             ELSE SetGroup([h EXCEPT !.tab = "AMERICANO"], "ESPRESSO", b, c), FALSE)

TuyaHotWater ==
    /\ "EXT" \in Remote /\ ~Asking
    /\ \E c \in CupChoices(home) :
       \E b \in Dose(home.group \notin TwoSizes), d \in Water(home.group \notin TwoSizes) :
          home' = HotWaterAt(Called(home, c), b, d)

TuyaStop ==
    /\ "STOP" \in Remote /\ ~Asking
    /\ \E c \in CupChoices(home) :
          LET h == Called(home, c)
          IN home' = CASE h.machine = {} -> h
                       [] "HOT_WATER" \in h.machine -> IF h.hot THEN HotClick(h, FALSE) ELSE h
                       [] h.machine # {} /\ "HOT_WATER" \notin h.machine ->
                          IF h.group = "TEA" THEN StopTea(h)
                          ELSE CASE "cup1" \in h.selected -> CupClick(h, "cup1", FALSE)
                                 [] "cup1" \notin h.selected /\ "cup2" \in h.selected ->
                                       CupClick(h, "cup2", FALSE)
                                 [] OTHER -> h

\* The assistant opens the tab and sets its data; only hot water starts.
AiRecipe ==
    /\ "AI" \in Remote
    /\ \E g \in Groups, c \in CupChoices(home) :
       \E b \in Dose(g \in TwoSizes), d \in Water(g \in TwoSizes) :
          LET h == [ShowHome(home, c) EXCEPT !.tab = g]
          IN home' = IF g = "TEA" /\ h.group = "TEA" THEN h ELSE SetGroup(h, g, b, d)

AiHotWater ==
    /\ "AI" \in Remote
    /\ \E c \in CupChoices(home) :
       \E b \in Dose(home.group \notin TwoSizes), d \in Water(home.group \notin TwoSizes) :
          home' = HotWaterAt(ShowHome(home, c), b, d)

\* A cleaning command shows the clean page, whatever is being brewed.
TuyaClean ==
    /\ "CLEAN" \in Remote /\ home.shown
    /\ home' = [SteamOff(home) EXCEPT !.shown = FALSE]

User == \/ TapBean \/ TapCup \/ TapRebrew \/ TapHotWater \/ TapSteam \/ TapTab
        \/ SlideDose \/ SlideWater \/ TapReset \/ TapTeaBack \/ TapPop
        \/ ConfirmWarn \/ CleanNow \/ CleanLater \/ SnoozeEnds \/ LeavePage \/ ComeBack \/ WakeUp
Mcu == PreheatDone \/ Reheat \/ GrindDone \/ BrewDone \/ HotWaterDone \/ SteamDone \/ WarnFrame
Cloud == \/ TuyaGrindStart \/ TuyaGrindStop \/ TuyaAnswer \/ TuyaBrewCoffee \/ TuyaBrewTea
         \/ TuyaHotWater \/ TuyaStop \/ AiRecipe \/ AiHotWater \/ TuyaClean

Next == home.pop # "LOST" /\ (User \/ Mcu \/ Cloud)

Spec == Init /\ [][Next]_home
-----------------------------------------------------------------------------
\* The state keeps its type.
TypeOK == home \in Home

\* The machine grinds, brews or dispenses hot water, one at a time: the checks of
\* onChildDealClickListener hold against frames, pop-ups and warnings coming between.
OneJob == Cardinality(home.machine \cap Jobs) <= 1

\* Water never runs while the grinder does, whoever asked for either.
NeverGrindIntoWater == ~({"POWDER", "HOT_WATER"} \subseteq home.machine)

\* What the buttons show is what the machine does.  The page stops a job by pressing
\* the button that is drawn as working: a stale one starts a second job instead.
ButtonsMatch ==
    home.shown =>
       /\ "POWDER" \in home.machine <=> home.selected \cap Beans # {}
       /\ "EXT" \in home.machine <=> home.selected \cap {"cup1", "cup2", "rebrew"} # {}
       /\ "HOT_WATER" \in home.machine <=> home.hot
       /\ "STEAM" \in home.machine <=> home.steam

\* A heated machine that does nothing can be used: whatever ended the last job, a bean
\* and a cup (or both buttons of the tea tab) react again.
Usable ==
    home.shown /\ home.machine = {} /\ home.ready =>
       IF home.group = "TEA" THEN {"cup1", "rebrew"} \subseteq home.activated
       ELSE home.activated \cap Beans # {} /\ home.activated \cap Cups # {}

\* A job the MCU reports as done is not started again by the button the page presses.
DoneStaysDone ==
    [][/\ GrindDone /\ home.shown => "POWDER" \notin home'.machine
       /\ BrewDone => "EXT" \notin home'.machine
       /\ HotWaterDone => "HOT_WATER" \notin home'.machine
       /\ SteamDone => "STEAM" \notin home'.machine]_home

\* A warning of NEED_STOP_WORK_ERROR stops every job when it is reported.
FaultStops ==
    [][WarnFrame /\ home.shown /\ Undealt(home') \cap NeedStop # {} => home'.machine = {}]_home

\* No job starts while a warning against it is there, confirmed or not.
NoStartWhenWarned ==
    [][\A job \in home'.machine \ home.machine :
          home'.warn \cap (CASE job = "POWDER" -> StopGrind [] job = "EXT" -> StopExt
                             [] job = "HOT_WATER" -> StopHotWater [] job = "STEAM" -> StopSteam) = {}]_home

\* The machine reports a brew as done, and counts it, only when the MCU has ended it.
CountedWhenDone ==
    [][home.eq # "EXTRACT_DONE" /\ home'.eq = "EXTRACT_DONE" => BrewDone \/ HotWaterDone]_home

\* Confirming the last of the warnings that only pause a job ends that job.
ConfirmStops ==
    [][ConfirmWarn /\ home.shown /\ home.pausing /\ home'.pop = "none"
          => home'.machine \cap Jobs = {}]_home

\* A reminder put off for two weeks comes back with a frame of the MCU only, as itself
\* or in the list of another warning, and never after a brew.
SnoozeKept ==
    [][home.snoozed /\ home.asked # "A02" /\ home'.asked = "A02"
          => WarnFrame \/ "A02" \in home.listed]_home

\* No handler calls itself without end or frees the pop-up it runs in.
NotLost == home.pop # "LOST"
=============================================================================
