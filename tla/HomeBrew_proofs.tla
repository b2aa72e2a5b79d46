--------------------------- MODULE HomeBrew_proofs ---------------------------
(***************************************************************************)
(* HomeBrew keeps its type, water never runs while the grinder does, and a *)
(* reminder put off stays off, for every choice of tabs, faults and remote *)
(* events.  Each operator of the model takes a safe state to a safe state; *)
(* an action composes them.                                                *)
(***************************************************************************)
EXTENDS HomeBrew, TLAPS

Apart(h) == ~({"POWDER", "HOT_WATER"} \subseteq h.machine)
Safe(h) == h \in Home /\ Apart(h)

LEMMA FirstOfType ==
    ASSUME NEW ws \in SUBSET AllFaults
    PROVE  FirstOf(ws) \in AllFaults \cup {"none"}
  BY DEF FirstOf

LEMMA ShowPopSafe ==
    ASSUME NEW h, Safe(h), NEW kind \in Pops
    PROVE  Safe(ShowPop(h, kind))
  BY DEF Safe, Apart, Home, ShowPop

LEMMA UndealtType ==
    ASSUME NEW h, Safe(h)
    PROVE  Undealt(h) \in SUBSET AllFaults
  BY DEF Safe, Home, Undealt

LEMMA ListWarnsSafe ==
    ASSUME NEW h, Safe(h), NEW ws \in SUBSET AllFaults
    PROVE  Safe(ListWarns(h, ws))
  BY FirstOfType DEF Safe, Apart, Home, ListWarns, Pops

LEMMA ShowWarnSafe ==
    ASSUME NEW h, Safe(h)
    PROVE  Safe(ShowWarn(h))
  BY UndealtType, ListWarnsSafe DEF ShowWarn

LEMMA WarnGoneSafe ==
    ASSUME NEW h, Safe(h)
    PROVE  Safe(WarnGone(h))
  BY DEF Safe, Apart, Home, WarnGone, Pops

LEMMA CancelPopSafe ==
    ASSUME NEW h, Safe(h)
    PROVE  Safe(CancelPop(h))
  BY ZenonT(60) DEF Safe, Apart, Home, CancelPop, Pops, EqStatus

LEMMA ClosePopSafe ==
    ASSUME NEW h, Safe(h)
    PROVE  Safe(ClosePop(h))
<1>1. CASE h.pop \in {"WARN", "LOST"}
  BY <1>1 DEF Safe, Apart, Home, ClosePop, Pops
<1>2. CASE h.pop \notin {"WARN", "LOST"}
  BY <1>2, CancelPopSafe DEF ClosePop
<1> QED
  BY <1>1, <1>2

\* A warning put back among those to be shown.
LEMMA DealtSafe ==
    ASSUME NEW h, Safe(h), NEW ws \in SUBSET AllFaults
    PROVE  Safe([h EXCEPT !.dealt = ws])
  BY DEF Safe, Apart, Home

LEMMA ReWarnSafe ==
    ASSUME NEW h, Safe(h), NEW mask
    PROVE  Safe(ReWarn(h, mask))
<1>1. Safe(ClosePop(h)) /\ ClosePop(h).dealt \ mask \in SUBSET AllFaults
  BY ClosePopSafe DEF Safe, Home
<1> QED
  BY <1>1, DealtSafe, ShowWarnSafe DEF ReWarn

LEMMA RemindSafe ==
    ASSUME NEW h, Safe(h)
    PROVE  Safe(Remind(h))
<1>1. h.dealt \ {"A02"} \in SUBSET AllFaults
  BY DEF Safe, Home
<1> QED
  BY <1>1, DealtSafe, ShowWarnSafe DEF Remind
-----------------------------------------------------------------------------
(* The tea tab.                                                            *)

\* Any buttons may be drawn as working and any may react.
LEMMA ButtonsSafe ==
    ASSUME NEW h, Safe(h), NEW s \in SUBSET Buttons, NEW a \in SUBSET Buttons
    PROVE  Safe([h EXCEPT !.selected = s, !.activated = a])
  BY DEF Safe, Apart, Home

LEMMA ButtonsType ==
    ASSUME NEW h, Safe(h)
    PROVE  h.selected \in SUBSET Buttons /\ h.activated \in SUBSET Buttons
  BY DEF Safe, Home

LEMMA WorkSafe ==
    ASSUME NEW h, Safe(h), NEW s \in SUBSET Buttons, NEW a \in SUBSET Buttons,
           NEW e \in EqStatus, NEW m \in SUBSET (Jobs \cup {"STEAM"}),
           ~({"POWDER", "HOT_WATER"} \subseteq m)
    PROVE  Safe([h EXCEPT !.selected = s, !.activated = a, !.eq = e, !.machine = m])
<1> DEFINE g == [h EXCEPT !.selected = s, !.activated = a, !.eq = e, !.machine = m]
<1>1. g \in Home
  BY DEF Safe, Home
<1>2. g.machine = m
  BY DEF Safe, Home
<1> QED
  BY <1>1, <1>2 DEF Safe, Apart

LEMMA StartTeaSafe ==
    ASSUME NEW h, Safe(h)
    PROVE  Safe(StartTea(h))
<1> DEFINE s == IF "rebrew" \in h.selected THEN h.selected ELSE h.selected \cup {"cup1"}
           a == h.activated \ {IF "rebrew" \in h.selected THEN "cup1" ELSE "rebrew"}
           e == IF h.step = "WASH" THEN "WASHING" ELSE "EXTRACTING"
           m == h.machine \cup {"EXT"}
<1>1. s \in SUBSET Buttons /\ a \in SUBSET Buttons
  BY ButtonsType DEF Buttons, Cups
<1>2. e \in EqStatus
  BY DEF EqStatus
<1>3. m \in SUBSET (Jobs \cup {"STEAM"}) /\ ~({"POWDER", "HOT_WATER"} \subseteq m)
  BY DEF Safe, Apart, Home, Jobs
<1>4. StartTea(h) = [h EXCEPT !.selected = s, !.activated = a, !.eq = e, !.machine = m]
  BY DEF StartTea
<1> HIDE DEF s, a, e, m
<1>5. Safe([h EXCEPT !.selected = s, !.activated = a, !.eq = e, !.machine = m])
  BY <1>1, <1>2, <1>3, WorkSafe
<1> QED
  BY <1>4, <1>5

LEMMA TeaUnselectedSafe ==
    ASSUME NEW h, Safe(h)
    PROVE  Safe(TeaUnselected(h))
<1>1. /\ h.selected \ {"cup1"} \in SUBSET Buttons
      /\ h.selected \ {"rebrew"} \in SUBSET Buttons
      /\ h.activated \cup {"cup1"} \in SUBSET Buttons
      /\ h.activated \cup {"rebrew"} \in SUBSET Buttons
  BY ButtonsType DEF Buttons, Cups
<1> QED
  BY <1>1, ButtonsSafe DEF TeaUnselected

LEMMA TeaDoneSafe ==
    ASSUME NEW h, Safe(h)
    PROVE  Safe(TeaDone(h))
<1>1. \A e \in EqStatus : Safe([h EXCEPT !.eq = e])
  BY DEF Safe, Apart, Home
<1>2. {"WASH_DONE", "EXTRACT_DONE"} \subseteq EqStatus /\ {"EXT_TIPS", "REBREW_TIPS"} \subseteq Pops
  BY DEF EqStatus, Pops
<1> QED
  BY <1>1, <1>2, ShowPopSafe DEF TeaDone

LEMMA StopTeaSafe ==
    ASSUME NEW h, Safe(h)
    PROVE  Safe(StopTea(h))
<1> DEFINE u == TeaUnselected(h)
<1>1. Safe(u)
  BY TeaUnselectedSafe
<1>2. Safe([u EXCEPT !.eq = "STANDBY", !.machine = @ \ {"EXT"}])
  <2> HIDE DEF u
  <2> QED
    BY <1>1, ZenonT(60) DEF Safe, Apart, Home, EqStatus
<1>3. Safe(TeaDone(u))
  BY <1>1, TeaDoneSafe
<1> QED
  BY <1>2, <1>3, RemindSafe DEF StopTea

LEMMA TeaItemClickSafe ==
    ASSUME NEW h, Safe(h), NEW v
    PROVE  Safe(TeaItemClick(h, v))
<1>1. {"CANCEL_WORK", "REBREW_SET"} \subseteq Pops
  BY DEF Pops
<1> QED
  BY <1>1, ShowPopSafe, StopTeaSafe, StartTeaSafe DEF TeaItemClick

LEMMA RebrewClickSafe ==
    ASSUME NEW h, Safe(h)
    PROVE  Safe(RebrewClick(h))
  BY TeaItemClickSafe DEF RebrewClick
-----------------------------------------------------------------------------
(* The coffee tabs.                                                        *)

LEMMA CupOfType ==
    ASSUME NEW h
    PROVE  CupOf(h) \in SUBSET Buttons
  BY DEF CupOf, Buttons, Cups

LEMMA ToggleBeanSafe ==
    ASSUME NEW h, Safe(h), NEW v \in Beans
    PROVE  Safe(ToggleBean(h, v)) /\ ToggleBean(h, v).machine = h.machine
<1>1. /\ h.selected \ {v} \in SUBSET Buttons
      /\ h.selected \cup {v} \in SUBSET Buttons
      /\ h.activated \cup CupOf(h) \in SUBSET Buttons
      /\ h.activated \ CupsOff(h) \in SUBSET Buttons
  BY ButtonsType, CupOfType DEF Buttons
<1>2. Safe(ToggleBean(h, v))
  BY <1>1, ButtonsSafe DEF ToggleBean
<1>3. \A s, a : [h EXCEPT !.selected = s, !.activated = a].machine = h.machine
  BY DEF Safe, Home
<1>4. ToggleBean(h, v).machine = h.machine
  BY <1>3 DEF ToggleBean
<1> QED
  BY <1>2, <1>4

\* Grinding starts only when no water runs.
LEMMA BeanInfoSafe ==
    ASSUME NEW h, Safe(h), NEW v, "HOT_WATER" \notin h.machine
    PROVE  Safe(BeanInfo(h, v))
  BY ZenonT(60) DEF Safe, Apart, Home, BeanInfo, EqStatus, Jobs

LEMMA BeanClickSafe ==
    ASSUME NEW h, Safe(h), NEW v \in Beans, NEW flagged
    PROVE  Safe(BeanClick(h, v, flagged))
<1>1. Safe(ToggleBean(h, v)) /\ ToggleBean(h, v).machine = h.machine
  BY ToggleBeanSafe
<1>2. CASE h.machine \cap {"HOT_WATER", "EXT"} # {}
  BY <1>2 DEF BeanClick
<1>3. CASE h.machine \cap {"HOT_WATER", "EXT"} = {}
  <2>1. Safe(BeanInfo(ToggleBean(h, v), v))
    BY <1>1, <1>3, BeanInfoSafe
  <2> QED
    BY <2>1, <1>3, ReWarnSafe DEF BeanClick
<1> QED
  BY <1>2, <1>3

LEMMA ToggleCupSafe ==
    ASSUME NEW h, Safe(h), NEW v \in Cups
    PROVE  Safe(ToggleCup(h, v))
<1> DEFINE e == IF "EXT" \in h.machine THEN "STANDBY" ELSE "EXTRACT_DONE"
<1>1. /\ h.selected \ {v} \in SUBSET Buttons
      /\ h.selected \cup {v} \in SUBSET Buttons
      /\ h.activated \cup BeanOf(h) \in SUBSET Buttons
      /\ h.activated \ BeansOff(h) \in SUBSET Buttons
  <2>1. BeanOf(h) \in SUBSET Buttons
    BY DEF BeanOf, Safe, Home, Buttons, Beans
  <2> QED
    BY <2>1, ButtonsType DEF Buttons
<1>2. e \in EqStatus /\ "EXTRACTING" \in EqStatus
  BY DEF EqStatus
<1>3. /\ h.machine \ {"EXT"} \in SUBSET (Jobs \cup {"STEAM"})
      /\ h.machine \cup {"EXT"} \in SUBSET (Jobs \cup {"STEAM"})
      /\ ~({"POWDER", "HOT_WATER"} \subseteq h.machine \ {"EXT"})
      /\ ~({"POWDER", "HOT_WATER"} \subseteq h.machine \cup {"EXT"})
  BY DEF Safe, Apart, Home, Jobs
<1>4. Safe([h EXCEPT !.selected = h.selected \ {v}, !.activated = h.activated \cup BeanOf(h),
                     !.eq = e, !.machine = h.machine \ {"EXT"}])
  BY <1>1, <1>2, <1>3, WorkSafe
<1>5. Safe([h EXCEPT !.selected = h.selected \cup {v}, !.activated = h.activated \ BeansOff(h),
                     !.eq = "EXTRACTING", !.machine = h.machine \cup {"EXT"}])
  BY <1>1, <1>2, <1>3, WorkSafe
<1> QED
  BY <1>4, <1>5 DEF ToggleCup

LEMMA CupInfoSafe ==
    ASSUME NEW h, Safe(h), NEW v
    PROVE  Safe(CupInfo(h, v))
<1>1. \A g : Safe(g) => Safe([g EXCEPT !.hotEnabled = TRUE])
  BY ZenonT(60) DEF Safe, Apart, Home
<1>2. Safe([h EXCEPT !.enough = FALSE, !.hotEnabled = FALSE])
  BY DEF Safe, Apart, Home
<1> QED
  BY <1>1, <1>2, RemindSafe DEF CupInfo

LEMMA CupClickSafe ==
    ASSUME NEW h, Safe(h), NEW v \in Cups, NEW flagged
    PROVE  Safe(CupClick(h, v, flagged))
<1>1. Safe(CupInfo(ToggleCup(h, v), v))
  BY ToggleCupSafe, CupInfoSafe
<1> QED
  BY <1>1, ReWarnSafe, TeaItemClickSafe DEF CupClick

\* Hot water starts only when nothing is ground.
LEMMA HotToggledSafe ==
    ASSUME NEW h, Safe(h), "POWDER" \notin h.machine
    PROVE  Safe(HotToggled(h))
<1> DEFINE e == IF "HOT_WATER" \in h.machine THEN "STANDBY" ELSE "EXTRACT_DONE"
           a == IF h.group \in TwoSizes THEN h.activated \cup CupOf(h) \cup BeanOf(h)
                                        ELSE h.activated
<1>1. a \in SUBSET Buttons /\ h.activated \ (Beans \cup Cups) \in SUBSET Buttons
  <2>1. BeanOf(h) \in SUBSET Buttons
    BY DEF BeanOf, Safe, Home, Buttons, Beans
  <2> QED
    BY <2>1, CupOfType, ButtonsType
<1>2. e \in EqStatus /\ "EXTRACTING" \in EqStatus
  BY DEF EqStatus
<1>3. /\ h.machine \ {"HOT_WATER"} \in SUBSET (Jobs \cup {"STEAM"})
      /\ h.machine \cup {"HOT_WATER"} \in SUBSET (Jobs \cup {"STEAM"})
      /\ "POWDER" \notin h.machine \ {"HOT_WATER"}
      /\ "POWDER" \notin h.machine \cup {"HOT_WATER"}
  BY DEF Safe, Home, Jobs
<1>4. \A b \in BOOLEAN, x \in SUBSET Buttons, y \in EqStatus, m \in SUBSET (Jobs \cup {"STEAM"}) :
         "POWDER" \notin m => Safe([h EXCEPT !.hot = b, !.activated = x, !.eq = y, !.machine = m])
  <2> TAKE b \in BOOLEAN, x \in SUBSET Buttons, y \in EqStatus, m \in SUBSET (Jobs \cup {"STEAM"})
  <2> DEFINE g == [h EXCEPT !.hot = b, !.activated = x, !.eq = y, !.machine = m]
  <2>1. g \in Home
    BY DEF Safe, Home
  <2>2. g.machine = m
    BY DEF Safe, Home
  <2> QED
    BY <2>1, <2>2 DEF Safe, Apart
<1>5. Safe([h EXCEPT !.hot = FALSE, !.activated = a, !.eq = e, !.machine = h.machine \ {"HOT_WATER"}])
  BY <1>1, <1>2, <1>3, <1>4
<1>6. Safe([h EXCEPT !.hot = TRUE, !.activated = h.activated \ (Beans \cup Cups),
                     !.eq = "EXTRACTING", !.machine = h.machine \cup {"HOT_WATER"}])
  BY <1>1, <1>2, <1>3, <1>4
<1> QED
  BY <1>5, <1>6 DEF HotToggled

LEMMA HotClickSafe ==
    ASSUME NEW h, Safe(h), NEW flagged
    PROVE  Safe(HotClick(h, flagged))
<1>1. CASE "POWDER" \in h.machine
  BY <1>1 DEF HotClick
<1>2. CASE "POWDER" \notin h.machine
  BY <1>2, HotToggledSafe, ReWarnSafe DEF HotClick
<1> QED
  BY <1>1, <1>2

LEMMA SteamClickSafe ==
    ASSUME NEW h, Safe(h), NEW flagged
    PROVE  Safe(SteamClick(h, flagged))
<1> DEFINE m == IF h.steam THEN h.machine \ {"STEAM"} ELSE h.machine \cup {"STEAM"}
           b == ~h.steam
<1>1. m \in SUBSET (Jobs \cup {"STEAM"}) /\ ~({"POWDER", "HOT_WATER"} \subseteq m)
  BY DEF Safe, Apart, Home
<1>2. \A x \in BOOLEAN, y \in SUBSET (Jobs \cup {"STEAM"}) :
         ~({"POWDER", "HOT_WATER"} \subseteq y) => Safe([h EXCEPT !.steam = x, !.machine = y])
  BY DEF Safe, Apart, Home
<1>3. b \in BOOLEAN
  OBVIOUS
<1>4. Safe([h EXCEPT !.steam = b, !.machine = m])
  BY <1>1, <1>2, <1>3
<1> QED
  BY <1>4, ReWarnSafe DEF SteamClick
-----------------------------------------------------------------------------
(* The tab shown.                                                          *)

LEMMA CupsUpdatedSafe ==
    ASSUME NEW h, Safe(h), NEW c \in Cups
    PROVE  Safe(CupsUpdated(h, c))
<1> DEFINE cups == CASE h.group \in TwoSizes -> Cups
                     [] h.group = "TEA" -> {"cup1", "rebrew"}
                     [] OTHER -> {"cup1"}
           item == IF h.ready THEN c ELSE "none"
           on == CASE ~h.ready -> {} [] h.ready /\ h.group \in TwoSizes -> {c} [] OTHER -> cups
           i == IF h.group \in TwoSizes THEN item ELSE h.cupItem
           a == IF h.ready /\ Brewing(h) THEN h.activated ELSE (h.activated \ cups) \cup on
<1>1. cups \in SUBSET Buttons
  BY DEF Buttons, Cups
<1>2. on \in SUBSET Buttons
  BY <1>1 DEF Buttons
<1>3. a \in SUBSET Buttons
  BY <1>2, ButtonsType
<1>4. i \in Cups \cup {"none"}
  BY DEF Safe, Home
<1>5. \A x \in Cups \cup {"none"}, y \in SUBSET Buttons :
         Safe([h EXCEPT !.cupItem = x, !.activated = y])
  BY DEF Safe, Apart, Home
<1>6. Safe([h EXCEPT !.cupItem = i, !.activated = a])
  BY <1>3, <1>4, <1>5
<1> QED
  BY <1>6 DEF CupsUpdated

LEMMA PreheatedSafe ==
    ASSUME NEW h, Safe(h), NEW c \in Cups
    PROVE  Safe(Preheated(h, c))
<1>1. \A g : Safe(g) => Safe([g EXCEPT !.hot = FALSE, !.steam = FALSE])
  BY ZenonT(60) DEF Safe, Apart, Home
<1> QED
  BY <1>1, CupsUpdatedSafe DEF Preheated

LEMMA BeanItemSafe ==
    ASSUME NEW h, Safe(h), NEW b \in Beans
    PROVE  Safe([h EXCEPT !.beanItem = b, !.activated = (h.activated \ Beans) \cup {b}])
<1>1. (h.activated \ Beans) \cup {b} \in SUBSET Buttons
  BY ButtonsType DEF Buttons
<1>2. \A y \in SUBSET Buttons : Safe([h EXCEPT !.beanItem = b, !.activated = y])
  BY DEF Safe, Apart, Home
<1> QED
  BY <1>1, <1>2

LEMMA ActivatedSafe ==
    ASSUME NEW h, Safe(h), NEW a \in SUBSET Buttons
    PROVE  Safe([h EXCEPT !.activated = a])
  BY DEF Safe, Apart, Home

LEMMA GroupDataSafe ==
    ASSUME NEW h, Safe(h), NEW b \in Beans, NEW c \in Cups
    PROVE  Safe(GroupData(h, b, c))
<1>1. CASE h.group \in TwoSizes
  <2> DEFINE up == Preheated(h, c)
  <2>1. Safe(up)
    BY PreheatedSafe
  <2>2. Safe([up EXCEPT !.beanItem = b, !.activated = (up.activated \ Beans) \cup {b}])
    <3> HIDE DEF up
    <3> QED
      BY <2>1, BeanItemSafe
  <2>3. GroupData(h, b, c) = [up EXCEPT !.beanItem = b, !.activated = (up.activated \ Beans) \cup {b}]
    BY <1>1 DEF GroupData, TwoSizes
  <2> HIDE DEF up
  <2> QED
    BY <2>2, <2>3
<1>2. CASE h.group = "TEA"
  <2> DEFINE a == h.activated \cup {"rebrew"}
  <2>1. a \in SUBSET Buttons
    BY ButtonsType DEF Buttons
  <2>2. \A y \in SUBSET Buttons : Safe([h EXCEPT !.activated = y, !.step = "WASH"])
    BY DEF Safe, Apart, Home
  <2>3. Safe([h EXCEPT !.activated = a, !.step = "WASH"])
    BY <2>1, <2>2
  <2>4. h.group \notin TwoSizes
    BY <1>2 DEF TwoSizes
  <2> QED
    BY <1>2, <2>3, <2>4, CupsUpdatedSafe DEF GroupData
<1>3. CASE h.group \notin TwoSizes /\ h.group # "TEA"
  <2> DEFINE up == CupsUpdated(h, c)
  <2>1. Safe(up) /\ up.activated \cup {"bean1"} \in SUBSET Buttons
    BY CupsUpdatedSafe, ButtonsType DEF Buttons, Beans
  <2>2. Safe([up EXCEPT !.activated = up.activated \cup {"bean1"}])
    BY <2>1, ActivatedSafe
  <2> QED
    BY <1>3, <2>2 DEF GroupData
<1> QED
  BY <1>1, <1>2, <1>3

LEMMA SelectedSafe ==
    ASSUME NEW h, Safe(h), NEW s \in SUBSET Buttons
    PROVE  Safe([h EXCEPT !.selected = s])
  BY DEF Safe, Apart, Home

LEMMA SetGroupSafe ==
    ASSUME NEW h, Safe(h), NEW g \in AllGroups, NEW b \in Beans, NEW c \in Cups
    PROVE  Safe(SetGroup(h, g, b, c))
<1> DEFINE up == GroupData([h EXCEPT !.group = g], b, c)
<1>1. Safe([h EXCEPT !.group = g])
  BY DEF Safe, Apart, Home
<1>2. Safe(up) /\ up.selected \ (Beans \cup Cups) \in SUBSET Buttons
  BY <1>1, GroupDataSafe, ButtonsType
<1>3. Safe([up EXCEPT !.selected = up.selected \ (Beans \cup Cups)])
  BY <1>2, SelectedSafe
<1> QED
  BY <1>3 DEF SetGroup

LEMMA TabSafe ==
    ASSUME NEW h, Safe(h), NEW g \in AllGroups
    PROVE  Safe([h EXCEPT !.tab = g])
  BY DEF Safe, Apart, Home

LEMMA ShowHomeSafe ==
    ASSUME NEW h, Safe(h), NEW c \in Cups
    PROVE  Safe(ShowHome(h, c))
<1>1. \A g : Safe(g) => Safe([g EXCEPT !.shown = TRUE])
  BY ZenonT(60) DEF Safe, Apart, Home
<1> QED
  BY <1>1, PreheatedSafe DEF ShowHome

LEMMA SteamOffSafe ==
    ASSUME NEW h, Safe(h)
    PROVE  Safe(SteamOff(h))
  BY SteamClickSafe DEF SteamOff

LEMMA PressBeanSafe ==
    ASSUME NEW h, Safe(h), NEW flagged
    PROVE  Safe(PressBean(h, flagged))
  BY BeanClickSafe DEF PressBean, Beans

LEMMA PressCupSafe ==
    ASSUME NEW h, Safe(h), NEW flagged
    PROVE  Safe(PressCup(h, flagged))
  BY CupClickSafe, RebrewClickSafe DEF PressCup, Cups

LEMMA StopForFaultSafe ==
    ASSUME NEW h, Safe(h)
    PROVE  Safe(StopForFault(h))
  BY PressBeanSafe, PressCupSafe, HotClickSafe, SteamClickSafe DEF StopForFault

LEMMA PausingSafe ==
    ASSUME NEW h, Safe(h), NEW p \in BOOLEAN
    PROVE  Safe([h EXCEPT !.pausing = p])
  BY DEF Safe, Apart, Home

LEMMA DealWarnSafe ==
    ASSUME NEW h, Safe(h)
    PROVE  Safe(DealWarn(h))
<1>1. (Undealt(h) \cap Pausing # {}) \in BOOLEAN
  OBVIOUS
<1> QED
  BY <1>1, PausingSafe, StopForFaultSafe DEF DealWarn

LEMMA WarnClosedSafe ==
    ASSUME NEW h, Safe(h)
    PROVE  Safe(WarnClosed(h))
<1> DEFINE p == CASE ~(h.shown /\ h.pausing) -> h
                  [] OTHER ->
                     CASE "POWDER" \in h.machine -> PressBean(h, FALSE)
                       [] "POWDER" \notin h.machine /\ "EXT" \in h.machine ->
                             IF h.group = "TEA" THEN StopTea(h)
                             ELSE CupClick(h, IF "cup1" \in h.selected THEN "cup1" ELSE "cup2", FALSE)
                       [] h.machine \cap Jobs = {"HOT_WATER"} -> HotClick(h, FALSE)
                       [] OTHER -> h
           q == IF p.pop = "LOST" THEN p ELSE WarnGone(p)
           e == IF h.shown THEN FALSE ELSE q.pausing
<1>1. Safe(p)
  BY PressBeanSafe, StopTeaSafe, CupClickSafe, HotClickSafe DEF Cups
<1>2. Safe(q)
  <2> HIDE DEF p
  <2> QED
    BY <1>1, WarnGoneSafe
<1>3. e \in BOOLEAN
  <2> HIDE DEF q
  <2> QED
    BY <1>2 DEF Safe, Home
<1>4. Safe([q EXCEPT !.pausing = e])
  <2> HIDE DEF q, e
  <2> QED
    BY <1>2, <1>3, PausingSafe
<1>5. WarnClosed(h) = [q EXCEPT !.pausing = e]
  BY DEF WarnClosed
<1> HIDE DEF q, e
<1> QED
  BY <1>4, <1>5
-----------------------------------------------------------------------------
(* The steps.                                                              *)

LEMMA ChoicesType ==
    ASSUME NEW h, Safe(h)
    PROVE  CupChoices(h) \in SUBSET Cups
  BY DEF CupChoices, Safe, Home, Cups

\* The sizes a command may call for are sizes.
LEMMA SizesType ==
    ASSUME NEW sized
    PROVE  Dose(sized) \subseteq Beans /\ Water(sized) \subseteq Cups
  BY DEF Dose, Water, Beans, Cups

LEMMA InitSafe ==
    ASSUME Init
    PROVE  Safe(home)
<1> DEFINE blank(b) ==
              [shown |-> TRUE, tab |-> "AMERICANO", group |-> "AMERICANO",
               machine |-> {}, selected |-> {}, activated |-> {},
               beanItem |-> b, cupItem |-> "none", hot |-> FALSE, steam |-> FALSE,
               hotEnabled |-> TRUE, ready |-> FALSE, enough |-> FALSE,
               step |-> "WASH", eq |-> "PRE_HEATING", warn |-> {}, dealt |-> {},
               pausing |-> FALSE, snoozed |-> FALSE, pop |-> "none",
               listed |-> {}, asked |-> "none"]
<1>1. PICK b \in Beans, c \in Cups : home = SetGroup(blank(b), "AMERICANO", b, c)
  BY DEF Init
<1>2. Safe(blank(b))
  <2>1. "AMERICANO" \in AllGroups /\ "PRE_HEATING" \in EqStatus /\ "none" \in Pops
    BY DEF AllGroups, EqStatus, Pops
  <2> QED
    BY <2>1 DEF Safe, Apart, Home
<1>3. "AMERICANO" \in AllGroups
  BY DEF AllGroups
<1> HIDE DEF blank
<1> QED
  BY <1>1, <1>2, <1>3, SetGroupSafe

LEMMA EqSafe ==
    ASSUME NEW h, Safe(h), NEW e \in EqStatus
    PROVE  Safe([h EXCEPT !.eq = e])
  BY DEF Safe, Apart, Home

LEMMA StepSafe ==
    ASSUME NEW h, Safe(h), NEW s \in {"WASH", "EXT", "REBREW"}
    PROVE  Safe([h EXCEPT !.step = s])
  BY DEF Safe, Apart, Home

LEMMA PopSafe ==
    ASSUME NEW h, Safe(h), NEW p \in Pops
    PROVE  Safe([h EXCEPT !.pop = p])
  BY DEF Safe, Apart, Home

\* The end of a job takes it out of machineState.
LEMMA EndedSafe ==
    ASSUME NEW h, Safe(h), NEW job
    PROVE  Safe([h EXCEPT !.machine = h.machine \ {job}])
<1>1. h.machine \ {job} \in SUBSET (Jobs \cup {"STEAM"}) /\ ~({"POWDER", "HOT_WATER"} \subseteq h.machine \ {job})
  BY DEF Safe, Apart, Home
<1>2. \A m \in SUBSET (Jobs \cup {"STEAM"}) :
         ~({"POWDER", "HOT_WATER"} \subseteq m) => Safe([h EXCEPT !.machine = m])
  BY DEF Safe, Apart, Home
<1> QED
  BY <1>1, <1>2

LEMMA NextStepSafe ==
    ASSUME NEW h, Safe(h), NEW s \in {"WASH", "EXT", "REBREW"}
    PROVE  Safe(NextStep(h, s))
<1> DEFINE c == CupClick([h EXCEPT !.step = s], "cup1", FALSE)
           p == IF c.pop = h.pop THEN "none" ELSE "LOST"
<1>1. Safe(c)
  BY StepSafe, CupClickSafe DEF Cups
<1>2. p \in Pops
  BY DEF Pops
<1>3. Safe([c EXCEPT !.pop = p])
  <2> HIDE DEF c, p
  <2> QED
    BY <1>1, <1>2, PopSafe
<1>4. NextStep(h, s) = [c EXCEPT !.pop = p]
  BY DEF NextStep
<1> HIDE DEF c, p
<1> QED
  BY <1>3, <1>4

LEMMA EnterPopSafe ==
    ASSUME NEW h, Safe(h), h.pop \in {"EXT_TIPS", "REBREW_TIPS", "CANCEL_WORK", "REBREW_SET"}
    PROVE  Safe(EnterPop(h))
<1> DEFINE t == StopTea([h EXCEPT !.step = "WASH"])
           s == h.selected \cup {"rebrew"}
           u == [h EXCEPT !.step = "REBREW", !.selected = s]
           w == StartTea(u)
<1>1. "none" \in Pops
  BY DEF Pops
<1>2. Safe(t)
  BY StepSafe, StopTeaSafe
<1>3. Safe([t EXCEPT !.pop = "none"])
  <2> HIDE DEF t
  <2> QED
    BY <1>1, <1>2, PopSafe
<1>4. Safe(u)
  <2>1. s \in SUBSET Buttons
    BY ButtonsType DEF Buttons
  <2>2. \A x \in SUBSET Buttons : Safe([h EXCEPT !.step = "REBREW", !.selected = x])
    BY DEF Safe, Apart, Home
  <2> QED
    BY <2>1, <2>2
<1>5. Safe([w EXCEPT !.pop = "none"])
  <2>1. Safe(w)
    BY <1>4, StartTeaSafe
  <2> HIDE DEF w
  <2> QED
    BY <1>1, <2>1, PopSafe
<1> QED
  BY <1>3, <1>5, NextStepSafe DEF EnterPop

LEMMA CalledSafe ==
    ASSUME NEW h, Safe(h), NEW c \in Cups
    PROVE  Safe(Called(h, c))
  BY ClosePopSafe, ShowHomeSafe, SteamOffSafe DEF Called

LEMMA AnsweredSafe ==
    ASSUME NEW h, Safe(h), NEW c \in Cups, NEW yes, h.pop \in {"EXT_TIPS", "REBREW_TIPS"}
    PROVE  Safe(Answered(h, yes, c))
  BY EnterPopSafe, CancelPopSafe, ShowHomeSafe, SteamOffSafe DEF Answered

LEMMA HotWaterAtSafe ==
    ASSUME NEW h, Safe(h), NEW b \in Beans, NEW c \in Cups
    PROVE  Safe(HotWaterAt(h, b, c))
<1>1. {"AMERICANO", "ESPRESSO"} \subseteq AllGroups
  BY DEF AllGroups
<1>2. Safe(SetGroup([h EXCEPT !.tab = "AMERICANO"], "ESPRESSO", b, c))
  BY <1>1, TabSafe, SetGroupSafe
<1> QED
  BY <1>2, HotClickSafe DEF HotWaterAt

LEMMA UserSafe ==
    ASSUME Safe(home), User
    PROVE  Safe(home')
<1> USE Safe(home)
<1>1. CASE TapBean
  BY <1>1, BeanClickSafe DEF TapBean, Beans
<1>2. CASE TapCup
  BY <1>2, CupClickSafe DEF TapCup, Cups
<1>3. CASE TapRebrew
  BY <1>3, RebrewClickSafe DEF TapRebrew
<1>4. CASE TapHotWater
  BY <1>4, HotClickSafe DEF TapHotWater
<1>5. CASE TapSteam
  BY <1>5, SteamClickSafe DEF TapSteam
<1>6. CASE TapTab
  <2>1. PICK g \in Groups, b \in Beans, c \in Cups :
           home' = SetGroup([home EXCEPT !.tab = g], g, b, c)
    BY <1>6 DEF TapTab
  <2>2. g \in AllGroups
    BY GroupsAssumption
  <2> QED
    BY <2>1, <2>2, TabSafe, SetGroupSafe
<1>7. CASE SlideDose
  <2>1. PICK b \in Beans :
           home' = [home EXCEPT !.beanItem = b, !.activated = (home.activated \ Beans) \cup {b}]
    BY <1>7 DEF SlideDose
  <2> QED
    BY <2>1, BeanItemSafe
<1>8. CASE SlideWater
  <2>1. PICK c \in Cups :
           home' = [home EXCEPT !.cupItem = c, !.activated = (home.activated \ Cups) \cup {c}]
    BY <1>8 DEF SlideWater
  <2>2. (home.activated \ Cups) \cup {c} \in SUBSET Buttons
    BY ButtonsType DEF Buttons
  <2>3. \A a \in SUBSET Buttons : Safe([home EXCEPT !.cupItem = c, !.activated = a])
    BY DEF Safe, Apart, Home
  <2> QED
    BY <2>1, <2>2, <2>3
<1>9. CASE TapReset
  <2>1. PICK b \in Beans, c \in Cups :
           home' = [CupsUpdated(home, c) EXCEPT
                      !.beanItem = b,
                      !.activated = (CupsUpdated(home, c).activated \ Beans) \cup {b}]
    BY <1>9 DEF TapReset
  <2> QED
    BY <2>1, CupsUpdatedSafe, BeanItemSafe
<1>10. CASE TapTeaBack
  <2>1. home.step \in {"WASH", "EXT", "REBREW"}
    BY DEF Safe, Home
  <2> QED
    BY <1>10, <2>1, GroupDataSafe, StepSafe DEF TapTeaBack, Beans, Cups
<1>11. CASE TapPop
  BY <1>11, EnterPopSafe, CancelPopSafe DEF TapPop
<1>12. CASE ConfirmWarn
  <2> DEFINE d == [home EXCEPT !.dealt = home.dealt \cup {home.asked}]
  <2>1. home.dealt \cup {home.asked} \in SUBSET AllFaults /\ home.listed \ {home.asked} \in SUBSET AllFaults
    BY <1>12 DEF ConfirmWarn, Safe, Home
  <2>2. Safe(d)
    BY <2>1, DealtSafe
  <2>3. home' = IF home.listed \ {home.asked} # {} THEN ListWarns(d, home.listed \ {home.asked})
                ELSE WarnClosed(d)
    BY <1>12 DEF ConfirmWarn
  <2> HIDE DEF d
  <2> QED
    BY <2>1, <2>2, <2>3, ListWarnsSafe, WarnClosedSafe
<1>13. CASE CleanNow
  <2>1. home.dealt \cup {"A02"} \in SUBSET AllFaults
    BY DEF Safe, Home, AllFaults
  <2>2. \A ws \in SUBSET AllFaults : Safe([home EXCEPT !.dealt = ws, !.shown = FALSE])
    BY DEF Safe, Apart, Home
  <2>3. Safe([home EXCEPT !.dealt = home.dealt \cup {"A02"}, !.shown = FALSE])
    BY <2>1, <2>2
  <2> QED
    BY <1>13, <2>3, WarnGoneSafe DEF CleanNow
<1>14. CASE CleanLater
  <2>1. home.dealt \cup {"A02"} \in SUBSET AllFaults
    BY DEF Safe, Home, AllFaults
  <2>2. \A ws \in SUBSET AllFaults, s \in BOOLEAN : Safe([home EXCEPT !.dealt = ws, !.snoozed = s])
    BY ZenonT(60) DEF Safe, Apart, Home
  <2>3. PICK s \in BOOLEAN :
           home' = WarnClosed([home EXCEPT !.dealt = home.dealt \cup {"A02"}, !.snoozed = s])
    BY <1>14 DEF CleanLater
  <2>4. Safe([home EXCEPT !.dealt = home.dealt \cup {"A02"}, !.snoozed = s])
    BY <2>1, <2>2
  <2> QED
    BY <2>3, <2>4, WarnClosedSafe
<1>15. CASE SnoozeEnds
  BY <1>15 DEF SnoozeEnds, Safe, Apart, Home
<1>16. CASE LeavePage
  <2>1. \A g : Safe(g) => Safe([g EXCEPT !.shown = FALSE])
    BY ZenonT(60) DEF Safe, Apart, Home
  <2> QED
    BY <1>16, <2>1, CancelPopSafe DEF LeavePage
<1>17. CASE ComeBack
  BY <1>17, ShowHomeSafe, ChoicesType DEF ComeBack
<1>18. CASE WakeUp
  <2>1. Safe([home EXCEPT !.ready = FALSE, !.eq = "PRE_HEATING"])
    BY DEF Safe, Apart, Home, EqStatus
  <2> QED
    BY <1>18, <2>1, ShowHomeSafe DEF WakeUp
<1> QED
  BY <1>1, <1>2, <1>3, <1>4, <1>5, <1>6, <1>7, <1>8, <1>9, <1>10, <1>11, <1>12, <1>13,
     <1>14, <1>15, <1>16, <1>17, <1>18 DEF User

LEMMA PreheatSafe ==
    ASSUME Safe(home), NEW ready \in BOOLEAN, Preheat(ready)
    PROVE  Safe(home')
<1> DEFINE h == [home EXCEPT !.ready = ready]
           e == IF ready THEN "STANDBY" ELSE "PRE_HEATING"
<1>1. Safe(h)
  BY DEF Safe, Apart, Home
<1>2. e \in EqStatus
  BY DEF EqStatus
<1>3. \A c \in CupChoices(h) : Safe(IF h.shown THEN Preheated(h, c) ELSE h)
  <2> HIDE DEF h
  <2> QED
    BY <1>1, PreheatedSafe, ChoicesType
<1>4. \/ home' = h
      \/ \E c \in CupChoices(h) :
            home' = [(IF h.shown THEN Preheated(h, c) ELSE h) EXCEPT !.eq = e]
  BY DEF Preheat
<1> HIDE DEF h, e
<1> QED
  BY <1>1, <1>2, <1>3, <1>4, EqSafe

LEMMA WarnFrameSafe ==
    ASSUME Safe(home), WarnFrame
    PROVE  Safe(home')
<1>1. PICK w \in SUBSET Faults : 
        LET h == [home EXCEPT !.warn = w, !.dealt = home.dealt \cap w]
            s == CASE h.pop # "WARN" -> ListWarns(CancelPop(h), Undealt(h))
                   [] h.pop = "WARN" /\ h.asked \in Undealt(h) -> [h EXCEPT !.listed = Undealt(h)]
                   [] OTHER -> ListWarns(h, Undealt(h))
        IN  \/ home' = WarnGone(h)
            \/ home' = [h EXCEPT !.pausing = IF h.shown THEN FALSE ELSE h.pausing]
            \/ home' = s
            \/ home' = h
            \/ home' = [s EXCEPT !.pausing = FALSE]
            \/ home' = DealWarn(s)
  BY DEF WarnFrame
<1> DEFINE d == home.dealt \cap w
           h == [home EXCEPT !.warn = w, !.dealt = d]
           s == CASE h.pop # "WARN" -> ListWarns(CancelPop(h), Undealt(h))
                  [] h.pop = "WARN" /\ h.asked \in Undealt(h) -> [h EXCEPT !.listed = Undealt(h)]
                  [] OTHER -> ListWarns(h, Undealt(h))
           p == IF h.shown THEN FALSE ELSE h.pausing
<1>2. Safe(h)
  <2>1. w \in SUBSET AllFaults /\ d \in SUBSET AllFaults
    BY FaultsAssumption DEF Safe, Home
  <2>2. \A x \in SUBSET AllFaults, y \in SUBSET AllFaults : Safe([home EXCEPT !.warn = x, !.dealt = y])
    BY DEF Safe, Apart, Home
  <2> HIDE DEF d
  <2> QED
    BY <2>1, <2>2
<1>3. Safe(s) /\ p \in BOOLEAN
  <2> HIDE DEF h
  <2>1. Undealt(h) \in SUBSET AllFaults
    BY <1>2, UndealtType
  <2>2. Safe([h EXCEPT !.listed = Undealt(h)])
    <3>1. \A ws \in SUBSET AllFaults : Safe([h EXCEPT !.listed = ws])
      BY <1>2 DEF Safe, Apart, Home
    <3> QED
      BY <2>1, <3>1
  <2>3. p \in BOOLEAN
    BY <1>2 DEF Safe, Home
  <2> QED
    BY <1>2, <2>1, <2>2, <2>3, ListWarnsSafe, CancelPopSafe
<1>4. \/ home' = WarnGone(h)
      \/ home' = [h EXCEPT !.pausing = p]
      \/ home' = s
      \/ home' = h
      \/ home' = [s EXCEPT !.pausing = FALSE]
      \/ home' = DealWarn(s)
  BY <1>1
<1> HIDE DEF h, s, p
<1> QED
  BY <1>2, <1>3, <1>4, WarnGoneSafe, PausingSafe, DealWarnSafe

LEMMA McuSafe ==
    ASSUME Safe(home), Mcu
    PROVE  Safe(home')
<1> USE Safe(home)
<1>1. CASE PreheatDone \/ Reheat
  BY <1>1, PreheatSafe DEF PreheatDone, Reheat
<1>2. CASE GrindDone
  <2>1. Safe([home EXCEPT !.enough = TRUE])
    BY DEF Safe, Apart, Home
  <2> QED
    BY <1>2, <2>1, PressBeanSafe DEF GrindDone
<1>3. CASE BrewDone
  BY <1>3, EndedSafe, PressCupSafe DEF BrewDone
<1>4. CASE HotWaterDone
  BY <1>4, EndedSafe, HotClickSafe DEF HotWaterDone
<1>5. CASE SteamDone
  BY <1>5, EndedSafe, SteamClickSafe DEF SteamDone
<1>6. CASE WarnFrame
  BY <1>6, WarnFrameSafe
<1> QED
  BY <1>1, <1>2, <1>3, <1>4, <1>5, <1>6 DEF Mcu

LEMMA TuyaGrindSafe ==
    ASSUME Safe(home), TuyaGrindStart
    PROVE  Safe(home')
<1>1. PICK b \in Dose(home.group = "TEA"), c \in CupChoices(home), d \in Water(home.group = "TEA") :
        LET h == Called(home, c)
            g == IF h.group = "TEA" THEN SetGroup([h EXCEPT !.tab = "AMERICANO"], "ESPRESSO", b, d) ELSE h
        IN home' = IF h.machine \cap Jobs # {} THEN h
                   ELSE BeanClick(g, IF "bean1" \in g.activated THEN "bean1" ELSE "bean2", FALSE)
  BY DEF TuyaGrindStart
<1>b. b \in Beans /\ d \in Cups
  BY SizesType
<1> DEFINE h == Called(home, c)
           t == SetGroup([h EXCEPT !.tab = "AMERICANO"], "ESPRESSO", b, d)
           g == IF h.group = "TEA" THEN t ELSE h
<1>2. Safe(h)
  BY CalledSafe, ChoicesType
<1>3. Safe(t)
  <2>1. {"AMERICANO", "ESPRESSO"} \subseteq AllGroups
    BY DEF AllGroups
  <2> HIDE DEF h
  <2> QED
    BY <1>2, <2>1, <1>b, TabSafe, SetGroupSafe
<1>4. Safe(g)
  BY <1>2, <1>3
<1>5. home' = h \/ home' = BeanClick(g, IF "bean1" \in g.activated THEN "bean1" ELSE "bean2", FALSE)
  BY <1>1
<1> HIDE DEF g, h
<1> QED
  BY <1>2, <1>4, <1>5, BeanClickSafe DEF Beans

LEMMA TuyaBrewCoffeeSafe ==
    ASSUME Safe(home), TuyaBrewCoffee
    PROVE  Safe(home')
<1>0. PICK g \in Groups \ {"TEA"}, c \in CupChoices(home) :
        \E b \in Dose(g \in TwoSizes), d \in Water(g \in TwoSizes) :
           LET h == SetGroup([Called(home, c) EXCEPT !.tab = g], g, b, d)
           IN home' = CupClick(h, "cup1", FALSE) \/ home' = CupClick(h, "cup2", FALSE) \/ home' = h
  BY ZenonT(60) DEF TuyaBrewCoffee
<1>1. PICK b \in Dose(g \in TwoSizes), d \in Water(g \in TwoSizes) :
        LET h == SetGroup([Called(home, c) EXCEPT !.tab = g], g, b, d)
        IN home' = CupClick(h, "cup1", FALSE) \/ home' = CupClick(h, "cup2", FALSE) \/ home' = h
  BY <1>0
<1>b. b \in Beans /\ d \in Cups
  BY SizesType
<1> DEFINE called == Called(home, c)
           h == SetGroup([called EXCEPT !.tab = g], g, b, d)
<1>2. Safe(called) /\ g \in AllGroups
  BY CalledSafe, ChoicesType, GroupsAssumption
<1>3. Safe(h)
  <2> HIDE DEF called
  <2> QED
    BY <1>2, <1>b, TabSafe, SetGroupSafe
<1>4. home' = CupClick(h, "cup1", FALSE) \/ home' = CupClick(h, "cup2", FALSE) \/ home' = h
  BY <1>1
<1> HIDE DEF h
<1> QED
  BY <1>3, <1>4, CupClickSafe DEF Cups

LEMMA TuyaBrewTeaSafe ==
    ASSUME Safe(home), TuyaBrewTea
    PROVE  Safe(home')
<1>1. PICK again \in BOOLEAN, c \in CupChoices(home) :
        LET h == [Called(home, c) EXCEPT !.tab = "TEA"]
            t == IF h.group = "TEA" THEN h ELSE SetGroup(h, "TEA", "bean1", "cup1")
        IN home' = StartTea([t EXCEPT !.selected = t.selected \cup (IF again THEN {"rebrew"} ELSE {})])
  BY DEF TuyaBrewTea
<1> DEFINE called == Called(home, c)
           h == [called EXCEPT !.tab = "TEA"]
           t == IF h.group = "TEA" THEN h ELSE SetGroup(h, "TEA", "bean1", "cup1")
           s == t.selected \cup (IF again THEN {"rebrew"} ELSE {})
<1>2. Safe(called) /\ "TEA" \in AllGroups
  BY CalledSafe, ChoicesType DEF AllGroups
<1>3. Safe(h)
  <2> HIDE DEF called
  <2> QED
    BY <1>2, TabSafe
<1>4. Safe(t)
  <2> HIDE DEF h
  <2> QED
    BY <1>2, <1>3, SetGroupSafe DEF Beans, Cups
<1>5. Safe([t EXCEPT !.selected = s])
  <2>1. s \in SUBSET Buttons
    <3> HIDE DEF t
    <3> QED
      BY <1>4, ButtonsType DEF Buttons
  <2> HIDE DEF t, s
  <2> QED
    BY <1>4, <2>1, SelectedSafe
<1>6. home' = StartTea([t EXCEPT !.selected = s])
  BY <1>1
<1> HIDE DEF t, s
<1> QED
  BY <1>5, <1>6, StartTeaSafe

LEMMA TuyaStopSafe ==
    ASSUME Safe(home), TuyaStop
    PROVE  Safe(home')
<1>1. PICK c \in CupChoices(home) :
        LET h == Called(home, c)
        IN \/ home' = h
           \/ home' = HotClick(h, FALSE)
           \/ home' = StopTea(h)
           \/ home' = CupClick(h, "cup1", FALSE)
           \/ home' = CupClick(h, "cup2", FALSE)
  BY DEF TuyaStop
<1> DEFINE h == Called(home, c)
<1>2. Safe(h)
  BY CalledSafe, ChoicesType
<1>3. \/ home' = h \/ home' = HotClick(h, FALSE) \/ home' = StopTea(h)
      \/ home' = CupClick(h, "cup1", FALSE) \/ home' = CupClick(h, "cup2", FALSE)
  BY <1>1
<1> HIDE DEF h
<1> QED
  BY <1>2, <1>3, HotClickSafe, StopTeaSafe, CupClickSafe DEF Cups

LEMMA AiRecipeSafe ==
    ASSUME Safe(home), AiRecipe
    PROVE  Safe(home')
<1>1. PICK g \in Groups, b \in Beans, c \in CupChoices(home), d \in Cups :
        LET h == [ShowHome(home, c) EXCEPT !.tab = g]
        IN home' = h \/ home' = SetGroup(h, g, b, d)
  BY SizesType DEF AiRecipe
<1> DEFINE shown == ShowHome(home, c)
           h == [shown EXCEPT !.tab = g]
<1>2. Safe(shown) /\ g \in AllGroups
  BY ShowHomeSafe, ChoicesType, GroupsAssumption
<1>3. Safe(h)
  <2> HIDE DEF shown
  <2> QED
    BY <1>2, TabSafe
<1>4. home' = h \/ home' = SetGroup(h, g, b, d)
  BY <1>1
<1> HIDE DEF h
<1> QED
  BY <1>2, <1>3, <1>4, SetGroupSafe

LEMMA CloudSafe ==
    ASSUME Safe(home), Cloud
    PROVE  Safe(home')
<1> USE Safe(home)
<1>1. CASE TuyaGrindStart
  BY <1>1, TuyaGrindSafe
<1>2. CASE TuyaGrindStop
  BY <1>2, CalledSafe, PressBeanSafe, ChoicesType DEF TuyaGrindStop
<1>3. CASE TuyaAnswer
  BY <1>3, AnsweredSafe, ChoicesType DEF TuyaAnswer, Asking
<1>4. CASE TuyaBrewCoffee
  BY <1>4, TuyaBrewCoffeeSafe
<1>5. CASE TuyaBrewTea
  BY <1>5, TuyaBrewTeaSafe
<1>6. CASE TuyaHotWater
  BY <1>6, CalledSafe, HotWaterAtSafe, ChoicesType, SizesType DEF TuyaHotWater
<1>7. CASE TuyaStop
  BY <1>7, TuyaStopSafe
<1>8. CASE AiRecipe
  BY <1>8, AiRecipeSafe
<1>9. CASE AiHotWater
  BY <1>9, ShowHomeSafe, HotWaterAtSafe, ChoicesType, SizesType DEF AiHotWater
<1>10. CASE TuyaClean
  <2>1. \A g : Safe(g) => Safe([g EXCEPT !.shown = FALSE])
    BY ZenonT(60) DEF Safe, Apart, Home
  <2> QED
    BY <1>10, <2>1, SteamOffSafe DEF TuyaClean
<1> QED
  BY <1>1, <1>2, <1>3, <1>4, <1>5, <1>6, <1>7, <1>8, <1>9, <1>10 DEF Cloud

LEMMA NextSafe ==
    ASSUME Safe(home), [Next]_home
    PROVE  Safe(home')
  BY UserSafe, McuSafe, CloudSafe DEF Next
-----------------------------------------------------------------------------
\* Every state of the page has its type, whatever tabs, faults and remote events there are.
THEOREM HomeTypeOK == Spec => []TypeOK
<1>1. Init => Safe(home)
  BY InitSafe
<1>2. Safe(home) /\ [Next]_home => Safe(home)'
  BY NextSafe
<1>3. Safe(home) => TypeOK
  BY DEF Safe, TypeOK
<1> QED
  BY <1>1, <1>2, <1>3, PTL DEF Spec

\* The grinder and the hot water never run together, with any mix of frames, warnings
\* and commands: every press passes the checks of onChildDealClickListener.
THEOREM WaterAndGrinderApart == Spec => []NeverGrindIntoWater
<1>1. Init => Safe(home)
  BY InitSafe
<1>2. Safe(home) /\ [Next]_home => Safe(home)'
  BY NextSafe
<1>3. Safe(home) => NeverGrindIntoWater
  BY DEF Safe, Apart, NeverGrindIntoWater
<1> QED
  BY <1>1, <1>2, <1>3, PTL DEF Spec
-----------------------------------------------------------------------------
(* The clean reminder put off: the operators leave it alone.              *)

\* While the reminder is put off, t does not put it to the user unless s did.
Quiet(s, t) ==
    t.snoozed = s.snoozed /\ (s.snoozed /\ t.asked = "A02" => s.asked = "A02")

LEMMA QuietChain ==
    ASSUME NEW r, NEW s, NEW t, Quiet(r, s), Quiet(s, t)
    PROVE  Quiet(r, t)
  BY DEF Quiet

\* The reminder is led by every warning that stops a job.
LEMMA ReminderIsLate ==
    ASSUME NEW ws \in SUBSET AllFaults, NEW w \in ws, w \notin {"A02", "A03"}
    PROVE  FirstOf(ws) # "A02"
<1>1. \A i \in 1..16 : Place(WarnOrder[i]) = i
  <2>. SUFFICES ASSUME NEW i \in 1..16 PROVE Place(WarnOrder[i]) = i
    OBVIOUS
  <2>1. DOMAIN WarnOrder = 1..16
    BY DEF WarnOrder
  <2>2. \A j \in 1..16 : WarnOrder[j] = WarnOrder[i] => j = i
    BY DEF WarnOrder
  <2>. QED  BY <2>1, <2>2 DEF Place
<1>2. Place("A02") = 15
  BY <1>1 DEF WarnOrder
<1>3. PICK i \in 1..14 : WarnOrder[i] = w
  <2>1. \A v \in AllFaults \ {"A02", "A03"} : \E i \in 1..14 : WarnOrder[i] = v
    BY DEF WarnOrder, AllFaults
  <2> QED
    BY <2>1
<1>4. Place(w) = i
  BY <1>1, <1>3
<1>5. ~(15 <= i)
  BY <1>3
<1>6. ~Leads("A02", ws)
  BY <1>2, <1>4, <1>5 DEF Leads
<1>. QED  BY <1>6 DEF FirstOf

\* Warnings and pop-ups.
LEMMA WarnsQuiet ==
    ASSUME NEW h, Safe(h), NEW ws \in SUBSET AllFaults, NEW w \in ws, w \notin {"A02", "A03"}
    PROVE  Quiet(h, ListWarns(h, ws))
  BY ReminderIsLate DEF Safe, Home, Quiet, ListWarns

LEMMA PopQuiet ==
    ASSUME NEW h, Safe(h)
    PROVE  /\ \A kind : Quiet(h, ShowPop(h, kind))
           /\ Quiet(h, WarnGone(h))
           /\ Quiet(h, CancelPop(h))
           /\ Quiet(h, ClosePop(h))
<1>1. \A kind : Quiet(h, ShowPop(h, kind))
  BY DEF Safe, Home, Quiet, ShowPop
<1>2. Quiet(h, WarnGone(h))
  BY DEF Safe, Home, Quiet, WarnGone
<1>3. Quiet(h, CancelPop(h))
  BY DEF Safe, Home, Quiet, CancelPop
<1>4. Quiet(h, ClosePop(h))
  BY <1>3 DEF Safe, Home, Quiet, ClosePop
<1> QED
  BY <1>1, <1>2, <1>3, <1>4

\* A refusal shows the warning it is refused for, which comes before the reminder.
LEMMA ReWarnQuiet ==
    ASSUME NEW h, Safe(h), NEW mask, h.warn \cap mask # {}, mask \cap {"A02", "A03"} = {}
    PROVE  Quiet(h, ReWarn(h, mask))
<1> DEFINE c == ClosePop(h)
           d == [c EXCEPT !.dealt = c.dealt \ mask]
<1>1. Safe(c) /\ Quiet(h, c) /\ c.warn = h.warn
  BY ClosePopSafe, PopQuiet DEF ClosePop, CancelPop, Safe, Home
<1> HIDE DEF c
<1>2. Safe(d) /\ Quiet(c, d) /\ d.warn = h.warn /\ d.dealt \cap mask = {}
  <2>1. c.dealt \ mask \in SUBSET AllFaults
    BY <1>1 DEF Safe, Home
  <2> QED
    BY <1>1, <2>1, DealtSafe DEF Safe, Home, Quiet
<1>3. ReWarn(h, mask) = ShowWarn(d)
  BY DEF ReWarn, c
<1> HIDE DEF d
<1>4. PICK w \in h.warn \cap mask : TRUE
  OBVIOUS
<1>5. w \in Undealt(d) /\ w \notin {"A02", "A03"}
  BY <1>2, <1>4 DEF Undealt
<1>6. Quiet(d, ShowWarn(d))
  BY <1>2, <1>5, UndealtType, WarnsQuiet DEF ShowWarn, Quiet
<1> QED
  BY <1>1, <1>2, <1>3, <1>6, QuietChain

LEMMA MasksAreEarly ==
    \A mask \in {StopGrind, StopExt, StopHotWater, StopSteam} : mask \cap {"A02", "A03"} = {}
  BY DEF StopGrind, StopExt, StopHotWater, StopSteam

\* The reminder after a brew is not shown while it is put off.
LEMMA RemindQuiet ==
    ASSUME NEW h, Safe(h)
    PROVE  Quiet(h, Remind(h))
<1>1. CASE h.snoozed
  BY <1>1 DEF Remind, Quiet
<1>2. CASE ~h.snoozed
  <2> DEFINE d == [h EXCEPT !.dealt = h.dealt \ {"A02"}]
  <2>1. d.snoozed = h.snoozed /\ ShowWarn(d).snoozed = h.snoozed
    BY DEF Safe, Home, ShowWarn, ListWarns
  <2> QED
    BY <1>2, <2>1 DEF Remind, Quiet
<1> QED
  BY <1>1, <1>2

\* The tea tab.
LEMMA TeaQuiet ==
    ASSUME NEW h, Safe(h)
    PROVE  /\ Quiet(h, StartTea(h))
           /\ Quiet(h, StopTea(h))
           /\ \A v : Quiet(h, TeaItemClick(h, v))
           /\ Quiet(h, RebrewClick(h))
<1>1. Quiet(h, StartTea(h))
  BY DEF Safe, Home, Quiet, StartTea
<1> DEFINE u == TeaUnselected(h)
           s == [u EXCEPT !.eq = "STANDBY", !.machine = @ \ {"EXT"}]
<1>2. Safe(u) /\ Quiet(h, u)
  BY TeaUnselectedSafe DEF Safe, Home, Quiet, TeaUnselected
<1>3. Safe(s) /\ Quiet(u, s)
  <2> HIDE DEF u
  <2> QED
    BY <1>2, ZenonT(60) DEF Safe, Apart, Home, EqStatus, Quiet
<1>4. Safe(TeaDone(u)) /\ Quiet(u, TeaDone(u))
  <2> HIDE DEF u
  <2>1. \A e \in EqStatus : Quiet(u, [u EXCEPT !.eq = e]) /\ Safe([u EXCEPT !.eq = e])
    BY <1>2 DEF Safe, Apart, Home, Quiet
  <2>2. {"WASH_DONE", "EXTRACT_DONE"} \subseteq EqStatus
    BY DEF EqStatus
  <2> QED
    BY <1>2, <2>1, <2>2, TeaDoneSafe, PopQuiet, QuietChain DEF TeaDone
<1>5. StopTea(h) = Remind(s) \/ StopTea(h) = Remind(TeaDone(u))
  BY DEF StopTea
<1> HIDE DEF u, s
<1>6. Quiet(h, StopTea(h))
  BY <1>2, <1>3, <1>4, <1>5, RemindQuiet, QuietChain
<1>7. \A v : Quiet(h, TeaItemClick(h, v))
  BY <1>1, <1>6, PopQuiet DEF TeaItemClick
<1>8. Quiet(h, RebrewClick(h))
  BY <1>7 DEF RebrewClick, Quiet
<1> QED
  BY <1>1, <1>6, <1>7, <1>8

\* The buttons of the coffee tabs.
LEMMA BeanClickQuiet ==
    ASSUME NEW h, Safe(h), NEW v \in Beans, NEW flagged
    PROVE  Quiet(h, BeanClick(h, v, flagged))
<1> DEFINE t == ToggleBean(h, v)
<1>1. Safe(t) /\ Quiet(h, t)
  <2>1. \A s, a : Quiet(h, [h EXCEPT !.selected = s, !.activated = a])
    BY DEF Safe, Home, Quiet
  <2>2. Quiet(h, h)
    BY DEF Quiet
  <2> QED
    BY <2>1, <2>2, ToggleBeanSafe DEF ToggleBean
<1>2. Quiet(t, BeanInfo(t, v))
  <2> HIDE DEF t
  <2> QED
    BY <1>1 DEF Safe, Home, Quiet, BeanInfo
<1>3. h.warn \cap StopGrind # {} => Quiet(h, ReWarn(h, StopGrind))
  BY ReWarnQuiet, MasksAreEarly
<1>4. Quiet(h, h)
  BY DEF Quiet
<1> QED
  BY <1>1, <1>2, <1>3, <1>4, QuietChain DEF BeanClick, Blocked

LEMMA CupClickQuiet ==
    ASSUME NEW h, Safe(h), NEW v \in Cups, NEW flagged
    PROVE  Quiet(h, CupClick(h, v, flagged))
<1> DEFINE t == ToggleCup(h, v)
           r == Remind(t)
           s == [t EXCEPT !.enough = FALSE, !.hotEnabled = FALSE]
           e == [r EXCEPT !.hotEnabled = TRUE]
<1>1. Safe(t) /\ Quiet(h, t)
  <2>1. \A x, a, y, m :
           Quiet(h, [h EXCEPT !.selected = x, !.activated = a, !.eq = y, !.machine = m])
    BY DEF Safe, Home, Quiet
  <2>2. Quiet(h, h)
    BY DEF Quiet
  <2> QED
    BY <2>1, <2>2, ToggleCupSafe DEF ToggleCup
<1>2. Safe(r) /\ Quiet(t, r)
  <2> HIDE DEF t
  <2> QED
    BY <1>1, RemindSafe, RemindQuiet
<1>3. Quiet(t, CupInfo(t, v))
  <2>1. Quiet(t, s)
    <3> HIDE DEF t
    <3> QED
      BY <1>1 DEF Safe, Home, Quiet
  <2>2. Quiet(r, e)
    <3> HIDE DEF r
    <3> QED
      BY <1>2 DEF Safe, Home, Quiet
  <2>3. CupInfo(t, v) = s \/ CupInfo(t, v) = e
    BY DEF CupInfo
  <2> HIDE DEF t, r, s, e
  <2> QED
    BY <1>2, <2>1, <2>2, <2>3, QuietChain
<1>4. h.warn \cap StopExt # {} => Quiet(h, ReWarn(h, StopExt))
  BY ReWarnQuiet, MasksAreEarly
<1>5. Quiet(h, h) /\ Quiet(h, CupInfo(t, v))
  <2> HIDE DEF t
  <2> QED
    BY <1>1, <1>3, QuietChain DEF Quiet
<1> QED
  BY <1>4, <1>5, TeaQuiet DEF CupClick, Blocked

LEMMA HotClickQuiet ==
    ASSUME NEW h, Safe(h), NEW flagged
    PROVE  Quiet(h, HotClick(h, flagged))
<1>1. Quiet(h, HotToggled(h))
  BY DEF Safe, Home, Quiet, HotToggled
<1>2. h.warn \cap StopHotWater # {} => Quiet(h, ReWarn(h, StopHotWater))
  BY ReWarnQuiet, MasksAreEarly
<1> QED
  BY <1>1, <1>2 DEF HotClick, Blocked, Quiet

LEMMA SteamClickQuiet ==
    ASSUME NEW h, Safe(h), NEW flagged
    PROVE  Quiet(h, SteamClick(h, flagged))
<1> DEFINE t == [h EXCEPT !.steam = ~h.steam,
                          !.machine = IF h.steam THEN h.machine \ {"STEAM"} ELSE h.machine \cup {"STEAM"}]
<1>1. Quiet(h, h) /\ Quiet(h, t)
  BY DEF Safe, Home, Quiet
<1>2. h.warn \cap StopSteam # {} => Quiet(h, ReWarn(h, StopSteam))
  BY ReWarnQuiet, MasksAreEarly
<1>3. \/ SteamClick(h, flagged) = h
      \/ h.warn \cap StopSteam # {} /\ SteamClick(h, flagged) = ReWarn(h, StopSteam)
      \/ SteamClick(h, flagged) = t
  BY DEF SteamClick, Blocked
<1> HIDE DEF t
<1> QED
  BY <1>1, <1>2, <1>3
-----------------------------------------------------------------------------
(* The tab shown.                                                          *)

LEMMA CupsUpdatedQuiet ==
    ASSUME NEW h, Safe(h), NEW c
    PROVE  Quiet(h, CupsUpdated(h, c))
<1>1. \A x, a : Quiet(h, [h EXCEPT !.cupItem = x, !.activated = a])
  BY DEF Safe, Home, Quiet
<1> QED
  BY <1>1 DEF CupsUpdated

LEMMA PreheatedQuiet ==
    ASSUME NEW h, Safe(h), NEW c \in Cups
    PROVE  Quiet(h, Preheated(h, c))
<1> DEFINE up == CupsUpdated(h, c)
           t == [up EXCEPT !.hot = FALSE, !.steam = FALSE]
<1>1. Safe(up) /\ Quiet(h, up)
  BY CupsUpdatedSafe, CupsUpdatedQuiet
<1>2. Quiet(up, t)
  <2> HIDE DEF up
  <2> QED
    BY <1>1 DEF Safe, Home, Quiet
<1>3. Preheated(h, c) = up \/ Preheated(h, c) = t
  BY DEF Preheated
<1> HIDE DEF up, t
<1> QED
  BY <1>1, <1>2, <1>3, QuietChain

LEMMA GroupDataQuiet ==
    ASSUME NEW h, Safe(h), NEW b \in Beans, NEW c \in Cups
    PROVE  Quiet(h, GroupData(h, b, c))
<1>1. \A s : Safe(s) => \A x, a : /\ Quiet(s, [s EXCEPT !.beanItem = x, !.activated = a])
                                  /\ Quiet(s, [s EXCEPT !.activated = a, !.step = x])
                                  /\ Quiet(s, [s EXCEPT !.activated = a])
  BY DEF Safe, Home, Quiet
<1>2. CASE h.group \in TwoSizes
  <2> DEFINE up == Preheated(h, c)
  <2>1. Safe(up) /\ Quiet(h, up)
    BY PreheatedSafe, PreheatedQuiet
  <2>2. GroupData(h, b, c) = [up EXCEPT !.beanItem = b, !.activated = (up.activated \ Beans) \cup {b}]
    BY <1>2 DEF GroupData, TwoSizes
  <2> HIDE DEF up
  <2>3. Quiet(up, [up EXCEPT !.beanItem = b, !.activated = (up.activated \ Beans) \cup {b}])
    BY <1>1, <2>1
  <2> QED
    BY <2>1, <2>2, <2>3, QuietChain
<1>3. CASE h.group = "TEA"
  <2> DEFINE a == h.activated \cup {"rebrew"}
             t == [h EXCEPT !.activated = a, !.step = "WASH"]
  <2>1. a \in SUBSET Buttons
    BY ButtonsType DEF Buttons
  <2>2. \A y \in SUBSET Buttons : Safe([h EXCEPT !.activated = y, !.step = "WASH"])
    BY DEF Safe, Apart, Home
  <2>3. Safe(t) /\ Quiet(h, t)
    BY <1>1, <2>1, <2>2
  <2>4. GroupData(h, b, c) = CupsUpdated(t, c)
    BY <1>3 DEF GroupData, TwoSizes
  <2> HIDE DEF t
  <2> QED
    BY <2>3, <2>4, CupsUpdatedQuiet, QuietChain
<1>4. CASE h.group \notin TwoSizes /\ h.group # "TEA"
  <2> DEFINE up == CupsUpdated(h, c)
  <2>1. Safe(up) /\ Quiet(h, up)
    BY CupsUpdatedSafe, CupsUpdatedQuiet
  <2>2. GroupData(h, b, c) = [up EXCEPT !.activated = up.activated \cup {"bean1"}]
    BY <1>4 DEF GroupData
  <2> HIDE DEF up
  <2>3. Quiet(up, [up EXCEPT !.activated = up.activated \cup {"bean1"}])
    BY <1>1, <2>1
  <2> QED
    BY <2>1, <2>2, <2>3, QuietChain
<1> QED
  BY <1>2, <1>3, <1>4

LEMMA SetGroupQuiet ==
    ASSUME NEW h, Safe(h), NEW tab \in AllGroups, NEW g \in AllGroups,
           NEW b \in Beans, NEW c \in Cups
    PROVE  /\ Quiet(h, SetGroup(h, g, b, c))
           /\ Quiet(h, [h EXCEPT !.tab = tab])
           /\ Quiet(h, SetGroup([h EXCEPT !.tab = tab], g, b, c))
<1>1. \A k : Safe(k) => Quiet(k, SetGroup(k, g, b, c))
  <2> SUFFICES ASSUME NEW k, Safe(k) PROVE Quiet(k, SetGroup(k, g, b, c))
    OBVIOUS
  <2> DEFINE s == [k EXCEPT !.group = g]
             up == GroupData(s, b, c)
             t == [up EXCEPT !.selected = up.selected \ (Beans \cup Cups)]
  <2>1. Safe(s) /\ Quiet(k, s)
    BY DEF Safe, Apart, Home, Quiet
  <2>2. Safe(up) /\ Quiet(s, up)
    <3> HIDE DEF s
    <3> QED
      BY <2>1, GroupDataSafe, GroupDataQuiet
  <2>3. Quiet(up, t)
    <3> HIDE DEF up
    <3> QED
      BY <2>2 DEF Safe, Home, Quiet
  <2>4. SetGroup(k, g, b, c) = t
    BY DEF SetGroup
  <2> HIDE DEF s, up, t
  <2> QED
    BY <2>1, <2>2, <2>3, <2>4, QuietChain
<1>2. Safe([h EXCEPT !.tab = tab]) /\ Quiet(h, [h EXCEPT !.tab = tab])
  BY TabSafe DEF Safe, Home, Quiet
<1> QED
  BY <1>1, <1>2, QuietChain

LEMMA ShowHomeQuiet ==
    ASSUME NEW h, Safe(h), NEW c \in Cups
    PROVE  Quiet(h, ShowHome(h, c))
<1> DEFINE p == Preheated(h, c)
           t == [p EXCEPT !.shown = TRUE]
<1>1. Safe(p) /\ Quiet(h, p)
  BY PreheatedSafe, PreheatedQuiet
<1>2. Quiet(p, t) /\ Quiet(h, h)
  <2> HIDE DEF p
  <2> QED
    BY <1>1 DEF Safe, Home, Quiet
<1>3. ShowHome(h, c) = h \/ ShowHome(h, c) = t
  BY DEF ShowHome
<1> HIDE DEF p, t
<1> QED
  BY <1>1, <1>2, <1>3, QuietChain

LEMMA PressQuiet ==
    ASSUME NEW h, Safe(h), NEW flagged
    PROVE  /\ Quiet(h, SteamOff(h))
           /\ Quiet(h, PressBean(h, flagged))
           /\ Quiet(h, PressCup(h, flagged))
<1>1. Quiet(h, h)
  BY DEF Quiet
<1> QED
  BY <1>1, SteamClickQuiet, BeanClickQuiet, CupClickQuiet, TeaQuiet
  DEF SteamOff, PressBean, PressCup, Beans, Cups

LEMMA WarnClosedQuiet ==
    ASSUME NEW h, Safe(h)
    PROVE  Quiet(h, WarnClosed(h))
<1> DEFINE p == CASE ~(h.shown /\ h.pausing) -> h
                  [] OTHER ->
                     CASE "POWDER" \in h.machine -> PressBean(h, FALSE)
                       [] "POWDER" \notin h.machine /\ "EXT" \in h.machine ->
                             IF h.group = "TEA" THEN StopTea(h)
                             ELSE CupClick(h, IF "cup1" \in h.selected THEN "cup1" ELSE "cup2", FALSE)
                       [] h.machine \cap Jobs = {"HOT_WATER"} -> HotClick(h, FALSE)
                       [] OTHER -> h
           q == IF p.pop = "LOST" THEN p ELSE WarnGone(p)
           e == IF h.shown THEN FALSE ELSE q.pausing
           t == [q EXCEPT !.pausing = e]
<1>1. Safe(p) /\ Quiet(h, p)
  <2>1. Quiet(h, h)
    BY DEF Quiet
  <2> QED
    BY <2>1, PressBeanSafe, StopTeaSafe, CupClickSafe, HotClickSafe,
       PressQuiet, TeaQuiet, CupClickQuiet, HotClickQuiet DEF Cups
<1>2. Safe(q) /\ Quiet(p, q)
  <2> HIDE DEF p
  <2>1. Quiet(p, p)
    BY DEF Quiet
  <2> QED
    BY <1>1, <2>1, WarnGoneSafe, PopQuiet
<1>3. Quiet(q, t)
  <2> HIDE DEF q, e
  <2> QED
    BY <1>2 DEF Safe, Home, Quiet
<1>4. WarnClosed(h) = t
  BY DEF WarnClosed
<1> HIDE DEF p, q, t
<1> QED
  BY <1>1, <1>2, <1>3, <1>4, QuietChain

LEMMA NextStepQuiet ==
    ASSUME NEW h, Safe(h), NEW s \in {"WASH", "EXT", "REBREW"}
    PROVE  Quiet(h, NextStep(h, s))
<1> DEFINE a == [h EXCEPT !.step = s]
           c == CupClick(a, "cup1", FALSE)
           t == [c EXCEPT !.pop = IF c.pop = h.pop THEN "none" ELSE "LOST"]
<1>1. Safe(a) /\ Quiet(h, a)
  <2>1. Safe(a)
    BY StepSafe
  <2>2. Quiet(h, a)
    BY DEF Safe, Home, Quiet
  <2> QED
    BY <2>1, <2>2
<1>2. Safe(c) /\ Quiet(a, c)
  <2> HIDE DEF a
  <2> QED
    BY <1>1, CupClickSafe, CupClickQuiet DEF Cups
<1>3. Quiet(c, t)
  <2> HIDE DEF c
  <2> QED
    BY <1>2 DEF Safe, Home, Quiet
<1>4. NextStep(h, s) = t
  BY DEF NextStep
<1> HIDE DEF a, c, t
<1> QED
  BY <1>1, <1>2, <1>3, <1>4, QuietChain

LEMMA EnterPopQuiet ==
    ASSUME NEW h, Safe(h), h.pop \in {"EXT_TIPS", "REBREW_TIPS", "CANCEL_WORK", "REBREW_SET"}
    PROVE  Quiet(h, EnterPop(h))
<1> DEFINE a == [h EXCEPT !.step = "WASH"]
           t == StopTea(a)
           x == [t EXCEPT !.pop = "none"]
           u == [h EXCEPT !.step = "REBREW", !.selected = h.selected \cup {"rebrew"}]
           w == StartTea(u)
           y == [w EXCEPT !.pop = "none"]
<1>1. Safe(a) /\ Quiet(h, a)
  <2>1. Safe(a)
    BY StepSafe
  <2>2. Quiet(h, a)
    BY DEF Safe, Home, Quiet
  <2> QED
    BY <2>1, <2>2
<1>2. Safe(t) /\ Quiet(a, t)
  <2> HIDE DEF a
  <2> QED
    BY <1>1, StopTeaSafe, TeaQuiet
<1>3. Quiet(t, x)
  <2> HIDE DEF t
  <2> QED
    BY <1>2 DEF Safe, Home, Quiet
<1>4. Safe(u) /\ Quiet(h, u)
  <2>1. h.selected \cup {"rebrew"} \in SUBSET Buttons
    BY ButtonsType DEF Buttons
  <2>2. \A s \in SUBSET Buttons : /\ Safe([h EXCEPT !.step = "REBREW", !.selected = s])
                                  /\ Quiet(h, [h EXCEPT !.step = "REBREW", !.selected = s])
    BY DEF Safe, Apart, Home, Quiet
  <2> QED
    BY <2>1, <2>2
<1>5. Safe(w) /\ Quiet(u, w)
  <2> HIDE DEF u
  <2> QED
    BY <1>4, StartTeaSafe, TeaQuiet
<1>6. Quiet(w, y)
  <2> HIDE DEF w
  <2> QED
    BY <1>5 DEF Safe, Home, Quiet
<1>7. \/ EnterPop(h) = NextStep(h, "EXT")
      \/ EnterPop(h) = NextStep(h, "REBREW")
      \/ EnterPop(h) = x
      \/ EnterPop(h) = y
  BY DEF EnterPop
<1> HIDE DEF a, t, x, u, w, y
<1>8. Quiet(h, x) /\ Quiet(h, y)
  BY <1>1, <1>2, <1>3, <1>4, <1>5, <1>6, QuietChain
<1> QED
  BY <1>7, <1>8, NextStepQuiet

LEMMA CalledQuiet ==
    ASSUME NEW h, Safe(h), NEW c \in Cups
    PROVE  Quiet(h, Called(h, c))
<1> DEFINE p == ClosePop(h)
           q == ShowHome(p, c)
<1>1. Safe(p) /\ Quiet(h, p)
  BY ClosePopSafe, PopQuiet
<1>2. Safe(q) /\ Quiet(p, q)
  <2> HIDE DEF p
  <2> QED
    BY <1>1, ShowHomeSafe, ShowHomeQuiet
<1>3. Called(h, c) = SteamOff(q)
  BY DEF Called
<1> HIDE DEF p, q
<1> QED
  BY <1>1, <1>2, <1>3, PressQuiet, QuietChain

LEMMA AnsweredQuiet ==
    ASSUME NEW h, Safe(h), NEW c \in Cups, NEW yes, h.pop \in {"EXT_TIPS", "REBREW_TIPS"}
    PROVE  Quiet(h, Answered(h, yes, c))
<1> DEFINE p == IF yes THEN EnterPop(h) ELSE CancelPop(h)
           q == ShowHome(p, c)
<1>1. Safe(p) /\ Quiet(h, p)
  BY EnterPopSafe, CancelPopSafe, EnterPopQuiet, PopQuiet
<1>2. Safe(q) /\ Quiet(p, q)
  <2> HIDE DEF p
  <2> QED
    BY <1>1, ShowHomeSafe, ShowHomeQuiet
<1>3. Answered(h, yes, c) = SteamOff(q)
  BY DEF Answered
<1> HIDE DEF p, q
<1> QED
  BY <1>1, <1>2, <1>3, PressQuiet, QuietChain

LEMMA HotWaterAtQuiet ==
    ASSUME NEW h, Safe(h), NEW b \in Beans, NEW c \in Cups
    PROVE  Quiet(h, HotWaterAt(h, b, c))
<1> DEFINE g == SetGroup([h EXCEPT !.tab = "AMERICANO"], "ESPRESSO", b, c)
<1>1. {"AMERICANO", "ESPRESSO"} \subseteq AllGroups
  BY DEF AllGroups
<1>2. Safe(g) /\ Quiet(h, g)
  BY <1>1, TabSafe, SetGroupSafe, SetGroupQuiet
<1> DEFINE x == HotClick(h, FALSE)
           y == HotClick(g, FALSE)
<1>3. HotWaterAt(h, b, c) = x \/ HotWaterAt(h, b, c) = y
  BY DEF HotWaterAt
<1> HIDE DEF g
<1>4. Quiet(h, x) /\ Quiet(g, y)
  BY <1>2, HotClickQuiet
<1> HIDE DEF x, y
<1> QED
  BY <1>2, <1>3, <1>4, QuietChain
-----------------------------------------------------------------------------
\* What a step may do to the reminder.
Kept == home.snoozed /\ home.asked # "A02" /\ home'.asked = "A02" => WarnFrame \/ "A02" \in home.listed

LEMMA UserKept ==
    ASSUME Safe(home), User
    PROVE  Kept
<1> USE Safe(home)
<1> SUFFICES Quiet(home, home') \/ Kept
  BY DEF Quiet, Kept
<1>1. CASE TapBean
  BY <1>1, BeanClickQuiet DEF TapBean, Beans
<1>2. CASE TapCup
  BY <1>2, CupClickQuiet DEF TapCup, Cups
<1>3. CASE TapRebrew
  BY <1>3, TeaQuiet DEF TapRebrew
<1>4. CASE TapHotWater
  BY <1>4, HotClickQuiet DEF TapHotWater
<1>5. CASE TapSteam
  BY <1>5, SteamClickQuiet DEF TapSteam
<1>6. CASE TapTab
  <2>1. PICK g \in Groups, b \in Beans, c \in Cups :
           home' = SetGroup([home EXCEPT !.tab = g], g, b, c)
    BY <1>6 DEF TapTab
  <2>2. g \in AllGroups
    BY GroupsAssumption
  <2> QED
    BY <2>1, <2>2, SetGroupQuiet
<1>7. CASE SlideDose
  <2>1. \A b, a : Quiet(home, [home EXCEPT !.beanItem = b, !.activated = a])
    BY DEF Safe, Home, Quiet
  <2>2. PICK b \in Beans :
           home' = [home EXCEPT !.beanItem = b, !.activated = (home.activated \ Beans) \cup {b}]
    BY <1>7 DEF SlideDose
  <2> QED
    BY <2>1, <2>2
<1>8. CASE SlideWater
  <2>1. \A c, a : Quiet(home, [home EXCEPT !.cupItem = c, !.activated = a])
    BY DEF Safe, Home, Quiet
  <2>2. PICK c \in Cups :
           home' = [home EXCEPT !.cupItem = c, !.activated = (home.activated \ Cups) \cup {c}]
    BY <1>8 DEF SlideWater
  <2> QED
    BY <2>1, <2>2
<1>9. CASE TapReset
  <2>1. PICK b \in Beans, c \in Cups :
           home' = [CupsUpdated(home, c) EXCEPT
                      !.beanItem = b,
                      !.activated = (CupsUpdated(home, c).activated \ Beans) \cup {b}]
    BY <1>9 DEF TapReset
  <2> DEFINE up == CupsUpdated(home, c)
  <2>2. Safe(up) /\ Quiet(home, up)
    BY CupsUpdatedSafe, CupsUpdatedQuiet
  <2>3. home' = [up EXCEPT !.beanItem = b, !.activated = (up.activated \ Beans) \cup {b}]
    BY <2>1
  <2> HIDE DEF up
  <2>4. Quiet(up, home')
    BY <2>2, <2>3 DEF Safe, Home, Quiet
  <2> QED
    BY <2>2, <2>4, QuietChain
<1>10. CASE TapTeaBack
  <2>1. home.step \in {"WASH", "EXT", "REBREW"}
    BY DEF Safe, Home
  <2>2. \A s : Quiet(home, [home EXCEPT !.step = s])
    BY DEF Safe, Home, Quiet
  <2> QED
    BY <1>10, <2>1, <2>2, GroupDataQuiet DEF TapTeaBack, Beans, Cups
<1>11. CASE TapPop
  BY <1>11, EnterPopQuiet, PopQuiet DEF TapPop
<1>12. CASE ConfirmWarn
  <2> DEFINE d == [home EXCEPT !.dealt = home.dealt \cup {home.asked}]
             rest == home.listed \ {home.asked}
  <2>1. home.dealt \cup {home.asked} \in SUBSET AllFaults /\ home.listed \in SUBSET AllFaults
    BY <1>12 DEF ConfirmWarn, Safe, Home
  <2>2. Safe(d) /\ Quiet(home, d)
    BY <2>1, DealtSafe DEF Safe, Home, Quiet
  <2>3. home' = IF rest # {} THEN ListWarns(d, rest) ELSE WarnClosed(d)
    BY <1>12 DEF ConfirmWarn
  <2>4. FirstOf(rest) \in rest \cup {"none"}
    BY DEF FirstOf
  <2>5. ListWarns(d, rest).asked = FirstOf(rest)
    <3> HIDE DEF d, rest
    <3> QED
      BY <2>2 DEF Safe, Home, ListWarns
  <2>6. CASE rest # {}
    BY <2>3, <2>4, <2>5, <2>6 DEF Kept
  <2>7. CASE rest = {}
    <3> HIDE DEF d, rest
    <3> QED
      BY <2>2, <2>3, <2>7, WarnClosedQuiet, QuietChain
  <2> QED
    BY <2>6, <2>7
<1>13. CASE CleanNow \/ CleanLater
  BY <1>13 DEF CleanNow, CleanLater, Kept
<1>14. CASE SnoozeEnds
  BY <1>14 DEF SnoozeEnds, Safe, Home, Kept
<1>15. CASE LeavePage
  <2> DEFINE p == CancelPop(home)
  <2>1. Safe(p) /\ Quiet(home, p)
    BY CancelPopSafe, PopQuiet
  <2>2. home' = [p EXCEPT !.shown = FALSE]
    BY <1>15 DEF LeavePage
  <2> HIDE DEF p
  <2>3. Quiet(p, home')
    BY <2>1, <2>2 DEF Safe, Home, Quiet
  <2> QED
    BY <2>1, <2>3, QuietChain
<1>16. CASE ComeBack
  BY <1>16, ShowHomeQuiet, ChoicesType DEF ComeBack
<1>17. CASE WakeUp
  <2> DEFINE a == [home EXCEPT !.ready = FALSE, !.eq = "PRE_HEATING"]
  <2>1. Safe(a) /\ Quiet(home, a)
    BY DEF Safe, Apart, Home, EqStatus, Quiet
  <2>2. PICK c \in Cups : home' = ShowHome(a, c)
    BY <1>17 DEF WakeUp
  <2> HIDE DEF a
  <2> QED
    BY <2>1, <2>2, ShowHomeQuiet, QuietChain
<1> QED
  BY <1>1, <1>2, <1>3, <1>4, <1>5, <1>6, <1>7, <1>8, <1>9, <1>10, <1>11, <1>12, <1>13,
     <1>14, <1>15, <1>16, <1>17 DEF User

LEMMA McuKept ==
    ASSUME Safe(home), Mcu
    PROVE  Kept
<1> USE Safe(home)
<1> SUFFICES Quiet(home, home') \/ Kept
  BY DEF Quiet, Kept
<1>1. CASE PreheatDone \/ Reheat
  <2>1. PICK r \in BOOLEAN : Preheat(r)
    BY <1>1 DEF PreheatDone, Reheat
  <2> DEFINE h == [home EXCEPT !.ready = r]
             e == IF r THEN "STANDBY" ELSE "PRE_HEATING"
  <2>2. Safe(h) /\ Quiet(home, h)
    BY DEF Safe, Apart, Home, Quiet
  <2>3. \/ home' = h
        \/ \E c \in CupChoices(h) :
              home' = [(IF h.shown THEN Preheated(h, c) ELSE h) EXCEPT !.eq = e]
    BY <2>1 DEF Preheat
  <2>4. CASE home' = h
    BY <2>2, <2>4
  <2>5. CASE \E c \in CupChoices(h) :
                home' = [(IF h.shown THEN Preheated(h, c) ELSE h) EXCEPT !.eq = e]
    <3>1. PICK c \in CupChoices(h) :
                home' = [(IF h.shown THEN Preheated(h, c) ELSE h) EXCEPT !.eq = e]
      BY <2>5
    <3> DEFINE p == IF h.shown THEN Preheated(h, c) ELSE h
    <3>2. Safe(p) /\ Quiet(h, p)
      <4> HIDE DEF h
      <4>1. Quiet(h, h)
        BY DEF Quiet
      <4> QED
        BY <2>2, <4>1, PreheatedSafe, PreheatedQuiet, ChoicesType
    <3>3. home' = [p EXCEPT !.eq = e]
      BY <3>1
    <3> HIDE DEF p, e, h
    <3>4. Quiet(p, home')
      BY <3>2, <3>3 DEF Safe, Home, Quiet
    <3> QED
      BY <2>2, <3>2, <3>4, QuietChain
  <2> QED
    BY <2>3, <2>4, <2>5
<1>2. CASE GrindDone
  <2> DEFINE h == [home EXCEPT !.enough = TRUE]
  <2>1. Safe(h) /\ Quiet(home, h)
    BY DEF Safe, Apart, Home, Quiet
  <2>2. home' = PressBean(h, FALSE) \/ home' = h
    BY <1>2 DEF GrindDone
  <2> HIDE DEF h
  <2> QED
    BY <2>1, <2>2, PressQuiet, QuietChain
<1>3. CASE BrewDone \/ HotWaterDone \/ SteamDone
  <2>1. PICK job : LET h == [home EXCEPT !.machine = home.machine \ {job}]
                   IN home' \in {h, PressCup(h, FALSE), HotClick(h, FALSE), SteamClick(h, FALSE)}
    BY <1>3 DEF BrewDone, HotWaterDone, SteamDone
  <2> DEFINE h == [home EXCEPT !.machine = home.machine \ {job}]
  <2>2. Safe(h)
    BY EndedSafe
  <2>3. Quiet(home, h)
    BY DEF Safe, Home, Quiet
  <2> DEFINE x == PressCup(h, FALSE)
             y == HotClick(h, FALSE)
             z == SteamClick(h, FALSE)
  <2>4. home' \in {h, x, y, z}
    BY <2>1
  <2> HIDE DEF h
  <2>5. Quiet(h, h) /\ Quiet(h, x) /\ Quiet(h, y) /\ Quiet(h, z)
    <3>1. Quiet(h, h)
      BY DEF Quiet
    <3> QED
      BY <2>2, <3>1, PressQuiet, HotClickQuiet, SteamClickQuiet
  <2> HIDE DEF x, y, z
  <2> QED
    BY <2>3, <2>4, <2>5, QuietChain
<1>4. CASE WarnFrame
  BY <1>4 DEF Kept
<1> QED
  BY <1>1, <1>2, <1>3, <1>4 DEF Mcu

LEMMA CloudKept ==
    ASSUME Safe(home), Cloud
    PROVE  Quiet(home, home')
<1> USE Safe(home)
<1>0. {"AMERICANO", "ESPRESSO", "TEA"} \subseteq AllGroups /\ Groups \subseteq AllGroups
  BY GroupsAssumption DEF AllGroups
<1>1. CASE TuyaGrindStart
  <2>1. PICK b \in Dose(home.group = "TEA"), c \in CupChoices(home), d \in Water(home.group = "TEA") :
          LET h == Called(home, c)
              g == IF h.group = "TEA" THEN SetGroup([h EXCEPT !.tab = "AMERICANO"], "ESPRESSO", b, d) ELSE h
          IN home' = IF h.machine \cap Jobs # {} THEN h
                     ELSE BeanClick(g, IF "bean1" \in g.activated THEN "bean1" ELSE "bean2", FALSE)
    BY <1>1 DEF TuyaGrindStart
  <2>b. b \in Beans /\ d \in Cups
    BY SizesType
  <2> DEFINE h == Called(home, c)
             t == SetGroup([h EXCEPT !.tab = "AMERICANO"], "ESPRESSO", b, d)
             g == IF h.group = "TEA" THEN t ELSE h
  <2>2. Safe(h) /\ Quiet(home, h)
    BY CalledSafe, CalledQuiet, ChoicesType
  <2>3. Safe(g) /\ Quiet(home, g)
    <3> HIDE DEF h
    <3> QED
      BY <1>0, <2>2, <2>b, TabSafe, SetGroupSafe, SetGroupQuiet, QuietChain
  <2>4. home' = h \/ home' = BeanClick(g, IF "bean1" \in g.activated THEN "bean1" ELSE "bean2", FALSE)
    BY <2>1
  <2> HIDE DEF g, h
  <2> QED
    BY <2>2, <2>3, <2>4, BeanClickQuiet, QuietChain DEF Beans
<1>2. CASE TuyaGrindStop
  <2>1. PICK c \in CupChoices(home) :
           home' = Called(home, c) \/ home' = PressBean(Called(home, c), FALSE)
    BY <1>2 DEF TuyaGrindStop
  <2> DEFINE h == Called(home, c)
             x == PressBean(h, FALSE)
  <2>2. Safe(h) /\ Quiet(home, h)
    BY CalledSafe, CalledQuiet, ChoicesType
  <2>3. home' = h \/ home' = x
    BY <2>1
  <2> HIDE DEF h
  <2>4. Quiet(h, x)
    BY <2>2, PressQuiet
  <2> HIDE DEF x
  <2> QED
    BY <2>2, <2>3, <2>4, QuietChain
<1>3. CASE TuyaAnswer
  BY <1>3, AnsweredQuiet, ChoicesType DEF TuyaAnswer, Asking
<1>4. CASE TuyaBrewCoffee
  <2>0. PICK g \in Groups \ {"TEA"}, c \in CupChoices(home) :
          \E b \in Dose(g \in TwoSizes), d \in Water(g \in TwoSizes) :
             LET h == SetGroup([Called(home, c) EXCEPT !.tab = g], g, b, d)
             IN home' = CupClick(h, "cup1", FALSE) \/ home' = CupClick(h, "cup2", FALSE) \/ home' = h
    BY <1>4, ZenonT(60) DEF TuyaBrewCoffee
  <2>1. PICK b \in Dose(g \in TwoSizes), d \in Water(g \in TwoSizes) :
          LET h == SetGroup([Called(home, c) EXCEPT !.tab = g], g, b, d)
          IN home' = CupClick(h, "cup1", FALSE) \/ home' = CupClick(h, "cup2", FALSE) \/ home' = h
    BY <2>0
  <2>b. b \in Beans /\ d \in Cups
    BY SizesType
  <2> DEFINE called == Called(home, c)
             h == SetGroup([called EXCEPT !.tab = g], g, b, d)
  <2>2. Safe(called) /\ Quiet(home, called)
    BY CalledSafe, CalledQuiet, ChoicesType
  <2>3. Safe(h) /\ Quiet(called, h)
    <3> HIDE DEF called
    <3> QED
      BY <1>0, <2>2, <2>b, TabSafe, SetGroupSafe, SetGroupQuiet
  <2> DEFINE x == CupClick(h, "cup1", FALSE)
             y == CupClick(h, "cup2", FALSE)
  <2>4. home' = x \/ home' = y \/ home' = h
    BY <2>1
  <2> HIDE DEF called, h
  <2>5. Quiet(h, x) /\ Quiet(h, y) /\ Quiet(h, h)
    <3>1. Quiet(h, h)
      BY DEF Quiet
    <3> QED
      BY <2>3, <3>1, CupClickQuiet DEF Cups
  <2> HIDE DEF x, y
  <2> QED
    BY <2>2, <2>3, <2>4, <2>5, QuietChain
<1>5. CASE TuyaBrewTea
  <2>1. PICK again \in BOOLEAN, c \in CupChoices(home) :
          LET h == [Called(home, c) EXCEPT !.tab = "TEA"]
              t == IF h.group = "TEA" THEN h ELSE SetGroup(h, "TEA", "bean1", "cup1")
          IN home' = StartTea([t EXCEPT !.selected = t.selected \cup (IF again THEN {"rebrew"} ELSE {})])
    BY <1>5 DEF TuyaBrewTea
  <2> DEFINE called == Called(home, c)
             h == [called EXCEPT !.tab = "TEA"]
             t == IF h.group = "TEA" THEN h ELSE SetGroup(h, "TEA", "bean1", "cup1")
             s == t.selected \cup (IF again THEN {"rebrew"} ELSE {})
             u == [t EXCEPT !.selected = s]
  <2>2. Safe(called) /\ Quiet(home, called)
    BY CalledSafe, CalledQuiet, ChoicesType
  <2>3. Safe(h) /\ Quiet(called, h)
    <3> HIDE DEF called
    <3>1. Safe(h)
      BY <1>0, <2>2, TabSafe
    <3>2. Quiet(called, h)
      BY <2>2 DEF Safe, Home, Quiet
    <3> QED
      BY <3>1, <3>2
  <2>4. Safe(t) /\ Quiet(h, t)
    <3> HIDE DEF h
    <3>1. Quiet(h, h) /\ "bean1" \in Beans /\ "cup1" \in Cups
      BY DEF Quiet, Beans, Cups
    <3> QED
      BY <1>0, <2>3, <3>1, SetGroupSafe, SetGroupQuiet
  <2>5. Safe(u) /\ Quiet(t, u)
    <3> HIDE DEF t
    <3>1. s \in SUBSET Buttons
      BY <2>4, ButtonsType DEF Buttons
    <3>2. Safe(u)
      BY <2>4, <3>1, SelectedSafe
    <3>3. Quiet(t, u)
      BY <2>4 DEF Safe, Home, Quiet
    <3> QED
      BY <3>2, <3>3
  <2>6. home' = StartTea(u)
    BY <2>1
  <2> HIDE DEF called, h, t, u
  <2> QED
    BY <2>2, <2>3, <2>4, <2>5, <2>6, TeaQuiet, QuietChain
<1>6. CASE TuyaHotWater
  <2>1. PICK c \in CupChoices(home), b \in Beans, d \in Cups : home' = HotWaterAt(Called(home, c), b, d)
    BY <1>6, SizesType DEF TuyaHotWater
  <2>2. Safe(Called(home, c)) /\ Quiet(home, Called(home, c))
    BY CalledSafe, CalledQuiet, ChoicesType
  <2> QED
    BY <2>1, <2>2, HotWaterAtQuiet, QuietChain
<1>7. CASE TuyaStop
  <2>1. PICK c \in CupChoices(home) :
          LET h == Called(home, c)
          IN \/ home' = h
             \/ home' = HotClick(h, FALSE)
             \/ home' = StopTea(h)
             \/ home' = CupClick(h, "cup1", FALSE)
             \/ home' = CupClick(h, "cup2", FALSE)
    BY <1>7 DEF TuyaStop
  <2> DEFINE h == Called(home, c)
  <2>2. Safe(h) /\ Quiet(home, h)
    BY CalledSafe, CalledQuiet, ChoicesType
  <2> DEFINE w == HotClick(h, FALSE)
             x == CupClick(h, "cup1", FALSE)
             y == CupClick(h, "cup2", FALSE)
             z == StopTea(h)
  <2>3. home' \in {h, w, x, y, z}
    BY <2>1
  <2> HIDE DEF h
  <2>4. Quiet(h, w) /\ Quiet(h, x) /\ Quiet(h, y) /\ Quiet(h, z)
    BY <2>2, HotClickQuiet, TeaQuiet, CupClickQuiet DEF Cups
  <2> HIDE DEF w, x, y, z
  <2> QED
    BY <2>2, <2>3, <2>4, QuietChain
<1>8. CASE AiRecipe
  <2>1. PICK g \in Groups, b \in Beans, c \in CupChoices(home), d \in Cups :
          LET h == [ShowHome(home, c) EXCEPT !.tab = g]
          IN home' = h \/ home' = SetGroup(h, g, b, d)
    BY <1>8, SizesType DEF AiRecipe
  <2> DEFINE shown == ShowHome(home, c)
  <2>2. Safe(shown) /\ Quiet(home, shown)
    BY ShowHomeSafe, ShowHomeQuiet, ChoicesType
  <2>3. home' = [shown EXCEPT !.tab = g] \/ home' = SetGroup([shown EXCEPT !.tab = g], g, b, d)
    BY <2>1
  <2> HIDE DEF shown
  <2>4. Quiet(shown, home')
    BY <1>0, <2>2, <2>3, SetGroupQuiet
  <2> QED
    BY <2>2, <2>4, QuietChain
<1>9. CASE AiHotWater
  <2>1. PICK c \in CupChoices(home), b \in Beans, d \in Cups : home' = HotWaterAt(ShowHome(home, c), b, d)
    BY <1>9, SizesType DEF AiHotWater
  <2>2. Safe(ShowHome(home, c)) /\ Quiet(home, ShowHome(home, c))
    BY ShowHomeSafe, ShowHomeQuiet, ChoicesType
  <2> QED
    BY <2>1, <2>2, HotWaterAtQuiet, QuietChain
<1>10. CASE TuyaClean
  <2> DEFINE p == SteamOff(home)
  <2>1. Safe(p) /\ Quiet(home, p)
    BY SteamOffSafe, PressQuiet
  <2>2. home' = [p EXCEPT !.shown = FALSE]
    BY <1>10 DEF TuyaClean
  <2> HIDE DEF p
  <2>3. Quiet(p, home')
    BY <2>1, <2>2 DEF Safe, Home, Quiet
  <2> QED
    BY <2>1, <2>3, QuietChain
<1> QED
  BY <1>1, <1>2, <1>3, <1>4, <1>5, <1>6, <1>7, <1>8, <1>9, <1>10 DEF Cloud

\* A clean reminder put off is not put to the user again by any press, pop-up, command
\* or end of a brew: only a frame of the MCU or the list it is already in brings it back.
THEOREM ReminderStaysOff == Spec => SnoozeKept
<1> DEFINE Step == home.snoozed /\ home.asked # "A02" /\ home'.asked = "A02"
                      => WarnFrame \/ "A02" \in home.listed
<1>1. Init => Safe(home)
  BY InitSafe
<1>2. Safe(home) /\ [Next]_home => Safe(home)'
  BY NextSafe
<1>3. Safe(home) /\ [Next]_home => [Step]_home
  <2> SUFFICES ASSUME Safe(home), Next PROVE Step
    OBVIOUS
  <2>1. Quiet(home, home') => Step
    BY DEF Quiet
  <2>2. Kept => Step
    BY DEF Kept
  <2> HIDE DEF Step
  <2> QED
    BY <2>1, <2>2, UserKept, McuKept, CloudKept DEF Next
<1> QED
  BY <1>1, <1>2, <1>3, PTL DEF Spec, SnoozeKept
=============================================================================
