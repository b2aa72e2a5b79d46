-------------------------- MODULE HomeCoffee_proofs --------------------------
(***************************************************************************)
(* Without the tea tab the machine does one job at a time, and starts none *)
(* that a warning is against, whatever the cloud and the assistant ask for.*)
(***************************************************************************)
EXTENDS HomeBrew_proofs, FiniteSetTheorems

CoffeeTabs == {"ESPRESSO", "AMERICANO", "MASTER", "HANDWASH"}
CoffeePops == {"none", "WARN", "LOST"}

\* The masks of the four jobs.
Mask(job) ==
    CASE job = "POWDER" -> StopGrind [] job = "EXT" -> StopExt
      [] job = "HOT_WATER" -> StopHotWater [] job = "STEAM" -> StopSteam

\* A bean drawn as working is one that the tab handles: pressing it stops it.
BeansHandled(h) == "bean2" \in h.selected => h.group # "HANDWASH"
Single(h) == \A i, j \in h.machine \cap Jobs : i = j

Coffee(h) ==
    /\ Safe(h)
    /\ h.group \in CoffeeTabs
    /\ h.pop \in CoffeePops
    /\ BeansHandled(h)
    /\ Single(h)

\* What t does and s did not has no warning against it.
Allowed(s, t) ==
    t.warn = s.warn /\ \A job \in t.machine \ s.machine : t.warn \cap Mask(job) = {}

Fine(s, t) == Coffee(t) /\ Allowed(s, t)

LEMMA FineChain ==
    ASSUME NEW r, NEW s, NEW t, Fine(r, s), Fine(s, t)
    PROVE  Fine(r, t)
  BY DEF Fine, Allowed

LEMMA FineSelf ==
    ASSUME NEW h, Coffee(h)
    PROVE  Fine(h, h)
  BY DEF Fine, Allowed

\* t differs from s in what the jobs do not depend on.
Keeps(s, t) ==
    /\ t.machine = s.machine /\ t.warn = s.warn
    /\ t.group = s.group /\ t.selected = s.selected

LEMMA KeepsFine ==
    ASSUME NEW s, NEW t, Coffee(s), Safe(t), Keeps(s, t), t.pop \in CoffeePops
    PROVE  Fine(s, t)
  BY DEF Fine, Coffee, Allowed, Keeps, BeansHandled, Single

LEMMA KeepsChain ==
    ASSUME NEW r, NEW s, NEW t, Keeps(r, s), Keeps(s, t)
    PROVE  Keeps(r, t)
  BY DEF Keeps
-----------------------------------------------------------------------------
(* Warnings and pop-ups.                                                   *)

LEMMA PopKeeps ==
    ASSUME NEW h, Safe(h)
    PROVE  /\ \A ws : Keeps(h, ListWarns(h, ws)) /\ ListWarns(h, ws).pop = "WARN"
           /\ Keeps(h, WarnGone(h)) /\ WarnGone(h).pop = "none"
           /\ Keeps(h, CancelPop(h)) /\ CancelPop(h).pop = "none"
           /\ Keeps(h, ClosePop(h)) /\ ClosePop(h).pop \in {"none", "LOST"}
<1>1. \A ws : Keeps(h, ListWarns(h, ws)) /\ ListWarns(h, ws).pop = "WARN"
  BY DEF Safe, Home, Keeps, ListWarns
<1>2. Keeps(h, WarnGone(h)) /\ WarnGone(h).pop = "none"
  BY DEF Safe, Home, Keeps, WarnGone
<1>3. Keeps(h, CancelPop(h)) /\ CancelPop(h).pop = "none"
  BY DEF Safe, Home, Keeps, CancelPop
<1>4. Keeps(h, ClosePop(h)) /\ ClosePop(h).pop \in {"none", "LOST"}
  BY <1>3 DEF Safe, Home, Keeps, ClosePop
<1> QED
  BY <1>1, <1>2, <1>3, <1>4

LEMMA PopFine ==
    ASSUME NEW h, Coffee(h)
    PROVE  /\ Fine(h, WarnGone(h))
           /\ Fine(h, CancelPop(h))
           /\ Fine(h, ClosePop(h))
           /\ \A ws \in SUBSET AllFaults : Fine(h, ListWarns(h, ws))
<1>1. Safe(h)
  BY DEF Coffee
<1> QED
  BY <1>1, PopKeeps, KeepsFine, WarnGoneSafe, CancelPopSafe, ClosePopSafe, ListWarnsSafe DEF CoffeePops

LEMMA ShowWarnFine ==
    ASSUME NEW h, Coffee(h)
    PROVE  Fine(h, ShowWarn(h))
<1>1. Undealt(h) \in SUBSET AllFaults
  BY UndealtType DEF Coffee
<1> QED
  BY <1>1, PopFine, FineSelf DEF ShowWarn

LEMMA DealtFine ==
    ASSUME NEW h, Coffee(h), NEW ws \in SUBSET AllFaults
    PROVE  Fine(h, [h EXCEPT !.dealt = ws])
<1> DEFINE t == [h EXCEPT !.dealt = ws]
<1>1. Safe(h) /\ Safe(t)
  BY DealtSafe DEF Coffee
<1>2. Keeps(h, t) /\ t.pop = h.pop
  BY <1>1 DEF Safe, Home, Keeps
<1> HIDE DEF t
<1>3. Fine(h, t)
  BY <1>1, <1>2, KeepsFine DEF Coffee
<1> QED
  BY <1>3 DEF t

LEMMA ReWarnFine ==
    ASSUME NEW h, Coffee(h), NEW mask
    PROVE  Fine(h, ReWarn(h, mask))
<1> DEFINE c == ClosePop(h)
           d == [c EXCEPT !.dealt = c.dealt \ mask]
<1>1. Coffee(c) /\ Fine(h, c)
  BY PopFine DEF Fine
<1>2. Coffee(d) /\ Fine(c, d)
  <2> HIDE DEF c
  <2>1. c.dealt \ mask \in SUBSET AllFaults
    BY <1>1 DEF Coffee, Safe, Home
  <2> QED
    BY <1>1, <2>1, DealtFine DEF Fine
<1>3. ReWarn(h, mask) = ShowWarn(d)
  BY DEF ReWarn
<1> HIDE DEF c, d
<1> QED
  BY <1>1, <1>2, <1>3, ShowWarnFine, FineChain

LEMMA RemindFine ==
    ASSUME NEW h, Coffee(h)
    PROVE  Fine(h, Remind(h))
<1> DEFINE d == [h EXCEPT !.dealt = h.dealt \ {"A02"}]
<1>1. h.dealt \ {"A02"} \in SUBSET AllFaults
  BY DEF Coffee, Safe, Home
<1>2. Coffee(d) /\ Fine(h, d)
  BY <1>1, DealtFine DEF Fine
<1>3. Remind(h) = h \/ Remind(h) = ShowWarn(d)
  BY DEF Remind
<1> HIDE DEF d
<1> QED
  BY <1>2, <1>3, ShowWarnFine, FineSelf, FineChain
-----------------------------------------------------------------------------
(* The buttons.                                                            *)

\* Only the bean grinds, and only when nothing else works.
LEMMA BeanInfoFine ==
    ASSUME NEW h, Coffee(h), NEW v \in Beans, h.machine \cap {"HOT_WATER", "EXT"} = {},
           v \in h.selected \/ h.warn \cap StopGrind = {} \/ "POWDER" \in h.machine
    PROVE  Fine(h, BeanInfo(ToggleBean(h, v), v))
<1> DEFINE t == ToggleBean(h, v)
           i == BeanInfo(t, v)
<1>1. /\ Safe(h) /\ Safe(t) /\ Safe(i)
      /\ t.machine = h.machine
  BY ToggleBeanSafe, BeanInfoSafe DEF Coffee
<1>2. t.warn = h.warn /\ t.group = h.group /\ t.pop = h.pop
  <2>1. \A s, a : LET x == [h EXCEPT !.selected = s, !.activated = a]
                  IN x.warn = h.warn /\ x.group = h.group /\ x.pop = h.pop
    BY <1>1 DEF Safe, Home
  <2> QED
    BY <2>1 DEF ToggleBean
<1>3. \/ v \notin Handled(h.group) /\ t.selected = h.selected
      \/ v \in Handled(h.group) /\ v \in h.selected /\ t.selected = h.selected \ {v}
      \/ v \in Handled(h.group) /\ v \notin h.selected /\ t.selected = h.selected \cup {v}
  BY <1>1 DEF Safe, Home, ToggleBean
<1>4. v \notin Handled(h.group) => v \notin h.selected
  BY DEF Coffee, Handled, CoffeeTabs, BeansHandled, Beans, Cups
<1>5. v = "bean2" /\ v \in Handled(h.group) => h.group # "HANDWASH"
  BY DEF Handled
<1>6. BeansHandled(t)
  BY <1>2, <1>3, <1>5 DEF Coffee, BeansHandled
<1>7. /\ i.warn = t.warn /\ i.group = t.group /\ i.pop = t.pop /\ i.selected = t.selected
      /\ i.machine = IF v \in t.selected THEN t.machine \cup {"POWDER"} ELSE t.machine \ {"POWDER"}
  <2> HIDE DEF t
  <2> QED
    BY <1>1 DEF Safe, Home, BeanInfo
<1> HIDE DEF t, i
<1>8. v \in t.selected => h.warn \cap StopGrind = {} \/ "POWDER" \in h.machine
  BY <1>3, <1>4
<1>9. Single(i)
  BY <1>1, <1>7 DEF Coffee, Single, Jobs
<1>10. Allowed(h, i)
  BY <1>1, <1>2, <1>7, <1>8 DEF Allowed, Mask
<1>11. BeansHandled(i)
  BY <1>6, <1>7 DEF BeansHandled
<1> QED
  BY <1>1, <1>2, <1>7, <1>9, <1>10, <1>11 DEF Fine, Coffee, i, t

LEMMA BeanClickFine ==
    ASSUME NEW h, Coffee(h), NEW v \in Beans, NEW flagged \in BOOLEAN,
           flagged => "POWDER" \in h.machine
    PROVE  Fine(h, BeanClick(h, v, flagged))
<1>1. CASE h.machine \cap {"HOT_WATER", "EXT"} # {} \/ BeanClick(h, v, flagged) = h
  BY <1>1, FineSelf DEF BeanClick
<1>2. CASE BeanClick(h, v, flagged) = ReWarn(h, StopGrind)
  BY <1>2, ReWarnFine
<1>3. CASE /\ h.machine \cap {"HOT_WATER", "EXT"} = {}
           /\ ~Blocked(h, StopGrind, flagged, v \in h.selected)
           /\ BeanClick(h, v, flagged) = BeanInfo(ToggleBean(h, v), v)
  <2>1. v \in h.selected \/ h.warn \cap StopGrind = {} \/ "POWDER" \in h.machine
    BY <1>3 DEF Blocked
  <2> QED
    BY <1>3, <2>1, BeanInfoFine
<1> QED
  BY <1>1, <1>2, <1>3 DEF BeanClick

LEMMA CupToggleFine ==
    ASSUME NEW h, Coffee(h), NEW v \in Cups, h.machine \cap {"HOT_WATER", "POWDER"} = {},
           v \in h.selected \/ h.warn \cap StopExt = {} \/ "EXT" \in h.machine
    PROVE  Fine(h, ToggleCup(h, v))
<1> DEFINE t == ToggleCup(h, v)
<1>1. Safe(h) /\ Safe(t)
  BY ToggleCupSafe DEF Coffee
<1>2. \/ t = h
      \/ /\ v \in h.selected /\ t.selected = h.selected \ {v}
         /\ t.machine = h.machine \ {"EXT"}
         /\ t.warn = h.warn /\ t.group = h.group /\ t.pop = h.pop
      \/ /\ v \notin h.selected /\ t.selected = h.selected \cup {v}
         /\ t.machine = h.machine \cup {"EXT"}
         /\ t.warn = h.warn /\ t.group = h.group /\ t.pop = h.pop
  <2>1. \A s, a, e, m :
           LET x == [h EXCEPT !.selected = s, !.activated = a, !.eq = e, !.machine = m]
           IN /\ x.selected = s /\ x.machine = m
              /\ x.warn = h.warn /\ x.group = h.group /\ x.pop = h.pop
    BY <1>1 DEF Safe, Home
  <2> QED
    BY <2>1 DEF ToggleCup
<1> HIDE DEF t
<1>3. CASE t = h
  BY <1>3, FineSelf DEF t
<1>4. CASE t # h
  <2>1. Single(t)
    BY <1>2, <1>4 DEF Coffee, Single, Jobs
  <2>2. Allowed(h, t)
    BY <1>2, <1>4 DEF Allowed, Mask
  <2>3. BeansHandled(t)
    BY <1>2, <1>4 DEF Coffee, BeansHandled, Cups
  <2>4. Fine(h, t)
    BY <1>1, <1>2, <1>4, <2>1, <2>2, <2>3 DEF Fine, Coffee
  <2> QED
    BY <2>4 DEF t
<1> QED
  BY <1>3, <1>4

LEMMA CupInfoFine ==
    ASSUME NEW h, Coffee(h), NEW v
    PROVE  Fine(h, CupInfo(h, v))
<1>1. \A k : Coffee(k) => \A x, y \in BOOLEAN :
         /\ Fine(k, [k EXCEPT !.enough = x, !.hotEnabled = y])
         /\ Fine(k, [k EXCEPT !.hotEnabled = y])
  <2> SUFFICES ASSUME NEW k, Coffee(k), NEW x \in BOOLEAN, NEW y \in BOOLEAN
               PROVE  /\ Fine(k, [k EXCEPT !.enough = x, !.hotEnabled = y])
                      /\ Fine(k, [k EXCEPT !.hotEnabled = y])
    OBVIOUS
  <2> DEFINE a == [k EXCEPT !.enough = x, !.hotEnabled = y]
             b == [k EXCEPT !.hotEnabled = y]
  <2>1. Safe(k)
    BY DEF Coffee
  <2>2. Safe(a) /\ Safe(b)
    BY <2>1, ZenonT(60) DEF Safe, Apart, Home
  <2>3. Keeps(k, a) /\ Keeps(k, b) /\ a.pop = k.pop /\ b.pop = k.pop
    BY <2>1 DEF Safe, Home, Keeps
  <2> HIDE DEF a, b
  <2>4. Fine(k, a) /\ Fine(k, b)
    BY <2>2, <2>3, KeepsFine DEF Coffee
  <2> QED
    BY <2>4 DEF a, b
<1> DEFINE r == Remind(h)
           s == [h EXCEPT !.enough = FALSE, !.hotEnabled = FALSE]
           t == [r EXCEPT !.hotEnabled = TRUE]
<1>2. Coffee(r) /\ Fine(h, r)
  BY RemindFine DEF Fine
<1>3. Fine(h, s)
  BY <1>1
<1>4. Fine(r, t)
  <2> HIDE DEF r
  <2> QED
    BY <1>1, <1>2
<1>5. CupInfo(h, v) = s \/ CupInfo(h, v) = t
  BY DEF CupInfo
<1> HIDE DEF r, s, t
<1> QED
  BY <1>2, <1>3, <1>4, <1>5, FineChain

LEMMA CupClickFine ==
    ASSUME NEW h, Coffee(h), NEW v \in Cups, NEW flagged \in BOOLEAN,
           flagged => "EXT" \in h.machine
    PROVE  Fine(h, CupClick(h, v, flagged))
<1>0. h.group # "TEA"
  BY DEF Coffee, CoffeeTabs
<1>1. CASE h.machine \cap {"HOT_WATER", "POWDER"} # {} \/ CupClick(h, v, flagged) = h
  BY <1>1, FineSelf DEF CupClick
<1>2. CASE CupClick(h, v, flagged) = ReWarn(h, StopExt)
  BY <1>2, ReWarnFine
<1>3. CASE /\ h.machine \cap {"HOT_WATER", "POWDER"} = {}
           /\ ~Blocked(h, StopExt, flagged, v \in h.selected)
           /\ CupClick(h, v, flagged) = CupInfo(ToggleCup(h, v), v)
  <2>1. v \in h.selected \/ h.warn \cap StopExt = {} \/ "EXT" \in h.machine
    BY <1>3 DEF Blocked
  <2>2. Fine(h, ToggleCup(h, v))
    BY <1>3, <2>1, CupToggleFine
  <2>3. Fine(ToggleCup(h, v), CupInfo(ToggleCup(h, v), v))
    BY <2>2, CupInfoFine DEF Fine
  <2> QED
    BY <1>3, <2>2, <2>3, FineChain
<1> QED
  BY <1>0, <1>1, <1>2, <1>3 DEF CupClick

LEMMA HotToggledFine ==
    ASSUME NEW h, Coffee(h), h.machine \cap {"POWDER", "EXT"} = {},
           h.hot \/ h.warn \cap StopHotWater = {} \/ "HOT_WATER" \in h.machine
    PROVE  Fine(h, HotToggled(h))
<1> DEFINE t == HotToggled(h)
<1>1. Safe(h) /\ Safe(t)
  BY HotToggledSafe DEF Coffee
<1>2. /\ t.machine = IF h.hot THEN h.machine \ {"HOT_WATER"} ELSE h.machine \cup {"HOT_WATER"}
      /\ t.warn = h.warn /\ t.group = h.group /\ t.pop = h.pop /\ t.selected = h.selected
  <2>1. \A b, a, e, m :
           LET x == [h EXCEPT !.hot = b, !.activated = a, !.eq = e, !.machine = m]
           IN /\ x.machine = m /\ x.selected = h.selected
              /\ x.warn = h.warn /\ x.group = h.group /\ x.pop = h.pop
    BY <1>1 DEF Safe, Home
  <2> QED
    BY <2>1 DEF HotToggled
<1> HIDE DEF t
<1>3. Single(t)
  BY <1>2 DEF Coffee, Single, Jobs
<1>4. Allowed(h, t)
  BY <1>2 DEF Allowed, Mask
<1>5. Fine(h, t)
  BY <1>1, <1>2, <1>3, <1>4 DEF Fine, Coffee, BeansHandled
<1> QED
  BY <1>5 DEF t

LEMMA HotClickFine ==
    ASSUME NEW h, Coffee(h), NEW flagged \in BOOLEAN, flagged => "HOT_WATER" \in h.machine
    PROVE  Fine(h, HotClick(h, flagged))
<1>1. CASE HotClick(h, flagged) = h
  BY <1>1, FineSelf
<1>2. CASE HotClick(h, flagged) = ReWarn(h, StopHotWater)
  BY <1>2, ReWarnFine
<1>3. CASE /\ h.machine \cap {"POWDER", "EXT"} = {}
           /\ ~Blocked(h, StopHotWater, flagged, h.hot)
           /\ HotClick(h, flagged) = HotToggled(h)
  BY <1>3, HotToggledFine DEF Blocked
<1> QED
  BY <1>1, <1>2, <1>3 DEF HotClick

LEMMA SteamClickFine ==
    ASSUME NEW h, Coffee(h), NEW flagged \in BOOLEAN, flagged => "STEAM" \in h.machine
    PROVE  Fine(h, SteamClick(h, flagged))
<1> DEFINE m == IF h.steam THEN h.machine \ {"STEAM"} ELSE h.machine \cup {"STEAM"}
           t == [h EXCEPT !.steam = ~h.steam, !.machine = m]
<1>1. CASE SteamClick(h, flagged) = h
  BY <1>1, FineSelf
<1>2. CASE SteamClick(h, flagged) = ReWarn(h, StopSteam)
  BY <1>2, ReWarnFine
<1>3. CASE h.ready /\ ~Blocked(h, StopSteam, flagged, h.steam) /\ SteamClick(h, flagged) = t
  <2>1. Safe(h) /\ Safe(t)
    BY <1>3, SteamClickSafe DEF Coffee
  <2>2. t.machine = m /\ Keeps(h, [t EXCEPT !.machine = h.machine]) /\ t.pop = h.pop
    BY <2>1 DEF Safe, Home, Keeps
  <2>3. t.warn = h.warn /\ t.group = h.group /\ t.selected = h.selected
    BY <2>1 DEF Safe, Home
  <2>4. h.steam \/ h.warn \cap StopSteam = {} \/ "STEAM" \in h.machine
    BY <1>3 DEF Blocked
  <2> HIDE DEF t
  <2>5. Single(t)
    BY <2>2 DEF Coffee, Single, Jobs
  <2>6. Allowed(h, t)
    BY <2>2, <2>3, <2>4 DEF Allowed, Mask
  <2>7. Fine(h, t)
    BY <2>1, <2>2, <2>3, <2>5, <2>6 DEF Fine, Coffee, BeansHandled
  <2> QED
    BY <1>3, <2>7
<1> QED
  BY <1>1, <1>2, <1>3 DEF SteamClick
-----------------------------------------------------------------------------
(* The tab shown.                                                          *)

\* t differs from s in buttons and sizes only.
Shows(s, t) == Safe(t) /\ Keeps(s, t) /\ t.pop = s.pop

LEMMA ShowsChain ==
    ASSUME NEW r, NEW s, NEW t, Shows(r, s), Shows(s, t)
    PROVE  Shows(r, t)
  BY DEF Shows, Keeps

LEMMA ShowsFine ==
    ASSUME NEW s, NEW t, Coffee(s), Shows(s, t)
    PROVE  Fine(s, t)
  BY KeepsFine DEF Shows, Coffee

LEMMA CupsUpdatedShows ==
    ASSUME NEW h, Safe(h), NEW c \in Cups
    PROVE  Shows(h, CupsUpdated(h, c))
<1>1. PICK x, a : CupsUpdated(h, c) = [h EXCEPT !.cupItem = x, !.activated = a]
  BY DEF CupsUpdated
<1>2. Keeps(h, CupsUpdated(h, c)) /\ CupsUpdated(h, c).pop = h.pop
  BY <1>1 DEF Safe, Home, Keeps
<1> QED
  BY <1>2, CupsUpdatedSafe DEF Shows

LEMMA PreheatedShows ==
    ASSUME NEW h, Safe(h), NEW c \in Cups
    PROVE  Shows(h, Preheated(h, c))
<1> DEFINE up == CupsUpdated(h, c)
           t == [up EXCEPT !.hot = FALSE, !.steam = FALSE]
<1>1. Safe(up) /\ Shows(h, up)
  BY CupsUpdatedShows DEF Shows
<1>2. Shows(up, t)
  <2> HIDE DEF up
  <2>1. Safe(t)
    BY <1>1, ZenonT(60) DEF Safe, Apart, Home
  <2>2. Keeps(up, t) /\ t.pop = up.pop
    BY <1>1 DEF Safe, Home, Keeps
  <2> QED
    BY <2>1, <2>2 DEF Shows
<1>3. Preheated(h, c) = up \/ Preheated(h, c) = t
  BY DEF Preheated
<1> HIDE DEF up, t
<1> QED
  BY <1>1, <1>2, <1>3, ShowsChain

LEMMA BeanItemShows ==
    ASSUME NEW h, Safe(h), NEW b \in Beans
    PROVE  Shows(h, [h EXCEPT !.beanItem = b, !.activated = (h.activated \ Beans) \cup {b}])
<1> DEFINE t == [h EXCEPT !.beanItem = b, !.activated = (h.activated \ Beans) \cup {b}]
<1>1. Safe(t)
  BY BeanItemSafe
<1>2. Keeps(h, t) /\ t.pop = h.pop
  BY DEF Safe, Home, Keeps
<1> HIDE DEF t
<1>3. Shows(h, t)
  BY <1>1, <1>2 DEF Shows
<1> QED
  BY <1>3 DEF t

LEMMA GroupDataShows ==
    ASSUME NEW h, Safe(h), h.group # "TEA", NEW b \in Beans, NEW c \in Cups
    PROVE  Shows(h, GroupData(h, b, c))
<1>1. CASE h.group \in TwoSizes
  <2> DEFINE up == Preheated(h, c)
             t == [up EXCEPT !.beanItem = b, !.activated = (up.activated \ Beans) \cup {b}]
  <2>1. Safe(up) /\ Shows(h, up)
    BY PreheatedShows DEF Shows
  <2>2. GroupData(h, b, c) = t
    BY <1>1 DEF GroupData, TwoSizes
  <2>3. Shows(up, t)
    <3> HIDE DEF up
    <3> QED
      BY <2>1, BeanItemShows
  <2> HIDE DEF up, t
  <2> QED
    BY <2>1, <2>2, <2>3, ShowsChain
<1>2. CASE h.group \notin TwoSizes
  <2> DEFINE up == CupsUpdated(h, c)
             t == [up EXCEPT !.activated = up.activated \cup {"bean1"}]
  <2>1. Safe(up) /\ Shows(h, up)
    BY CupsUpdatedShows DEF Shows
  <2>2. GroupData(h, b, c) = t
    BY <1>2 DEF GroupData
  <2>3. Safe(t)
    <3> HIDE DEF up
    <3>1. up.activated \cup {"bean1"} \in SUBSET Buttons
      BY <2>1, ButtonsType DEF Buttons, Beans
    <3> QED
      BY <2>1, <3>1, ActivatedSafe
  <2>4. Keeps(up, t) /\ t.pop = up.pop
    <3> HIDE DEF up
    <3> QED
      BY <2>1 DEF Safe, Home, Keeps
  <2> HIDE DEF up, t
  <2>5. Shows(up, t)
    BY <2>3, <2>4 DEF Shows
  <2> QED
    BY <2>1, <2>2, <2>5, ShowsChain
<1> QED
  BY <1>1, <1>2

\* Opening a tab leaves the machine alone and draws no bean as working.
LEMMA SetGroupFine ==
    ASSUME NEW h, Coffee(h), NEW g \in CoffeeTabs, NEW b \in Beans, NEW c \in Cups
    PROVE  Fine(h, SetGroup(h, g, b, c))
<1> DEFINE s == [h EXCEPT !.group = g]
           up == GroupData(s, b, c)
           t == SetGroup(h, g, b, c)
<1>1. Safe(h) /\ g \in AllGroups /\ g # "TEA"
  BY DEF Coffee, CoffeeTabs, AllGroups
<1>2. Safe(s) /\ s.group = g /\ s.machine = h.machine /\ s.warn = h.warn /\ s.pop = h.pop
  BY <1>1 DEF Safe, Apart, Home
<1>3. Shows(s, up)
  <2> HIDE DEF s
  <2> QED
    BY <1>1, <1>2, GroupDataShows
<1>4. Safe(t)
  BY <1>1, SetGroupSafe
<1>5. t = [up EXCEPT !.selected = up.selected \ (Beans \cup Cups)]
  BY DEF SetGroup
<1> HIDE DEF s, up
<1>6. /\ t.machine = up.machine /\ t.warn = up.warn /\ t.pop = up.pop
      /\ t.group = up.group /\ "bean2" \notin t.selected
  <2> HIDE DEF t
  <2>1. Safe(up)
    BY <1>3 DEF Shows
  <2> QED
    BY <1>5, <2>1 DEF Safe, Home, Beans
<1> HIDE DEF t
<1>7. t.machine = h.machine /\ t.warn = h.warn /\ t.pop = h.pop /\ t.group = g
  BY <1>2, <1>3, <1>6 DEF Shows, Keeps
<1>8. Fine(h, t)
  BY <1>4, <1>6, <1>7 DEF Fine, Coffee, Allowed, BeansHandled, Single
<1> QED
  BY <1>8 DEF t

LEMMA ShowHomeFine ==
    ASSUME NEW h, Coffee(h), NEW c \in Cups
    PROVE  Fine(h, ShowHome(h, c))
<1> DEFINE p == Preheated(h, c)
           t == [p EXCEPT !.shown = TRUE]
<1>1. Safe(h)
  BY DEF Coffee
<1>2. Safe(p) /\ Shows(h, p)
  BY <1>1, PreheatedShows DEF Shows
<1>3. Shows(p, t)
  <2> HIDE DEF p
  <2>1. Safe(t)
    BY <1>2, ZenonT(60) DEF Safe, Apart, Home
  <2>2. Keeps(p, t) /\ t.pop = p.pop
    BY <1>2 DEF Safe, Home, Keeps
  <2> QED
    BY <2>1, <2>2 DEF Shows
<1>4. ShowHome(h, c) = h \/ ShowHome(h, c) = t
  BY DEF ShowHome
<1> HIDE DEF p, t
<1> QED
  BY <1>2, <1>3, <1>4, FineSelf, ShowsChain, ShowsFine

\* The buttons the page presses itself: with the flag only to stop a job.
LEMMA PressFine ==
    ASSUME NEW h, Coffee(h)
    PROVE  /\ Fine(h, SteamOff(h))
           /\ \A flagged \in BOOLEAN :
                 /\ (flagged => "POWDER" \in h.machine) => Fine(h, PressBean(h, flagged))
                 /\ (flagged => "EXT" \in h.machine) => Fine(h, PressCup(h, flagged))
<1> DEFINE x == SteamClick(h, FALSE)
<1>1. Fine(h, x)
  BY SteamClickFine
<1>2. SteamOff(h) = h \/ SteamOff(h) = x
  BY DEF SteamOff
<1>3. Fine(h, SteamOff(h))
  <2> HIDE DEF x
  <2> QED
    BY <1>1, <1>2, FineSelf
<1>4. \A flagged \in BOOLEAN :
         (flagged => "POWDER" \in h.machine) => Fine(h, PressBean(h, flagged))
  BY BeanClickFine DEF PressBean, Beans
<1>5. RebrewClick(h) = h
  BY DEF RebrewClick, Coffee, CoffeeTabs
<1>6. \A flagged \in BOOLEAN :
         (flagged => "EXT" \in h.machine) => Fine(h, PressCup(h, flagged))
  BY <1>5, CupClickFine, FineSelf DEF PressCup, Cups
<1> QED
  BY <1>3, <1>4, <1>6

LEMMA StopForFaultFine ==
    ASSUME NEW h, Coffee(h)
    PROVE  Fine(h, StopForFault(h))
<1> DEFINE x == PressBean(h, TRUE)
           y == PressCup(h, TRUE)
           z == HotClick(h, TRUE)
           p == CASE "POWDER" \in h.machine -> x
                  [] "POWDER" \notin h.machine /\ "EXT" \in h.machine -> y
                  [] h.machine \cap Jobs = {"HOT_WATER"} -> z
                  [] OTHER -> h
           q == SteamClick(p, TRUE)
<1>1. Coffee(p) /\ Fine(h, p)
  <2>1. "POWDER" \in h.machine => Fine(h, x)
    BY PressFine
  <2>2. "EXT" \in h.machine => Fine(h, y)
    BY PressFine
  <2>3. "HOT_WATER" \in h.machine => Fine(h, z)
    BY HotClickFine
  <2> HIDE DEF x, y, z
  <2>4. Fine(h, p)
    BY <2>1, <2>2, <2>3, FineSelf
  <2> QED
    BY <2>4 DEF Fine
<1>2. StopForFault(h) = IF "STEAM" \in p.machine THEN q ELSE p
  BY DEF StopForFault
<1>3. "STEAM" \in p.machine => Fine(p, q)
  <2> HIDE DEF p
  <2> QED
    BY <1>1, SteamClickFine
<1> HIDE DEF p, q
<1> QED
  BY <1>1, <1>2, <1>3, FineChain

LEMMA PausingFine ==
    ASSUME NEW h, Coffee(h), NEW p \in BOOLEAN
    PROVE  Fine(h, [h EXCEPT !.pausing = p])
<1> DEFINE t == [h EXCEPT !.pausing = p]
<1>1. Safe(h) /\ Safe(t)
  BY PausingSafe DEF Coffee
<1>2. Keeps(h, t) /\ t.pop = h.pop
  BY <1>1 DEF Safe, Home, Keeps
<1> HIDE DEF t
<1>3. Fine(h, t)
  BY <1>1, <1>2, KeepsFine DEF Coffee
<1> QED
  BY <1>3 DEF t

LEMMA DealWarnFine ==
    ASSUME NEW h, Coffee(h)
    PROVE  Fine(h, DealWarn(h))
<1> DEFINE e == Undealt(h) \cap Pausing # {}
           s == [h EXCEPT !.pausing = e]
           t == [h EXCEPT !.pausing = FALSE]
<1>1. e \in BOOLEAN
  OBVIOUS
<1>2. Fine(h, s)
  <2> HIDE DEF e
  <2> QED
    BY <1>1, PausingFine
<1>3. Coffee(t) /\ Fine(h, t)
  BY PausingFine DEF Fine
<1>4. DealWarn(h) = s \/ DealWarn(h) = StopForFault(t)
  BY DEF DealWarn
<1> HIDE DEF s, t
<1> QED
  BY <1>2, <1>3, <1>4, StopForFaultFine, FineChain

LEMMA WarnClosedFine ==
    ASSUME NEW h, Coffee(h)
    PROVE  Fine(h, WarnClosed(h))
<1> DEFINE w == PressBean(h, FALSE)
           x == CupClick(h, "cup1", FALSE)
           y == CupClick(h, "cup2", FALSE)
           z == HotClick(h, FALSE)
           p == CASE ~(h.shown /\ h.pausing) -> h
                  [] OTHER ->
                     CASE "POWDER" \in h.machine -> w
                       [] "POWDER" \notin h.machine /\ "EXT" \in h.machine ->
                             IF h.group = "TEA" THEN StopTea(h)
                             ELSE CupClick(h, IF "cup1" \in h.selected THEN "cup1" ELSE "cup2", FALSE)
                       [] h.machine \cap Jobs = {"HOT_WATER"} -> z
                       [] OTHER -> h
           q == IF p.pop = "LOST" THEN p ELSE WarnGone(p)
           e == IF h.shown THEN FALSE ELSE q.pausing
           t == [q EXCEPT !.pausing = e]
<1>0. h.group # "TEA"
  BY DEF Coffee, CoffeeTabs
<1>1. Fine(h, h) /\ Fine(h, w) /\ Fine(h, x) /\ Fine(h, y) /\ Fine(h, z)
  BY FineSelf, PressFine, CupClickFine, HotClickFine DEF Cups
<1>2. p \in {h, w, x, y, z}
  BY <1>0
<1>3. Coffee(p) /\ Fine(h, p)
  <2> HIDE DEF w, x, y, z, p
  <2> QED
    BY <1>1, <1>2 DEF Fine
<1>4. Coffee(q) /\ Fine(p, q)
  <2> HIDE DEF p
  <2> QED
    BY <1>3, PopFine, FineSelf DEF Fine
<1>5. e \in BOOLEAN
  <2> HIDE DEF q
  <2> QED
    BY <1>4 DEF Coffee, Safe, Home
<1>6. Fine(q, t)
  <2> HIDE DEF q, e
  <2> QED
    BY <1>4, <1>5, PausingFine
<1>7. WarnClosed(h) = t
  BY DEF WarnClosed
<1> HIDE DEF p, q, t
<1> QED
  BY <1>3, <1>4, <1>6, <1>7, FineChain

LEMMA CalledFine ==
    ASSUME NEW h, Coffee(h), NEW c \in Cups
    PROVE  Fine(h, Called(h, c))
<1> DEFINE p == ClosePop(h)
           q == ShowHome(p, c)
<1>1. Coffee(p) /\ Fine(h, p)
  BY PopFine DEF Fine
<1>2. Coffee(q) /\ Fine(p, q)
  <2> HIDE DEF p
  <2> QED
    BY <1>1, ShowHomeFine DEF Fine
<1>3. Called(h, c) = SteamOff(q)
  BY DEF Called
<1> HIDE DEF p, q
<1> QED
  BY <1>1, <1>2, <1>3, PressFine, FineChain

LEMMA TabFine ==
    ASSUME NEW h, Coffee(h), NEW g \in AllGroups
    PROVE  Fine(h, [h EXCEPT !.tab = g])
<1> DEFINE t == [h EXCEPT !.tab = g]
<1>1. Safe(h) /\ Safe(t)
  BY TabSafe DEF Coffee
<1>2. Keeps(h, t) /\ t.pop = h.pop
  BY <1>1 DEF Safe, Home, Keeps
<1> HIDE DEF t
<1>3. Fine(h, t)
  BY <1>1, <1>2, KeepsFine DEF Coffee
<1> QED
  BY <1>3 DEF t

\* A command that opens another tab.
LEMMA OpenedFine ==
    ASSUME NEW h, Coffee(h), NEW tab \in AllGroups, NEW g \in CoffeeTabs,
           NEW b \in Beans, NEW c \in Cups
    PROVE  Fine(h, SetGroup([h EXCEPT !.tab = tab], g, b, c))
<1> DEFINE t == [h EXCEPT !.tab = tab]
<1>1. Coffee(t) /\ Fine(h, t)
  BY TabFine DEF Fine
<1> HIDE DEF t
<1>2. Fine(h, SetGroup(t, g, b, c))
  BY <1>1, SetGroupFine, FineChain
<1> QED
  BY <1>2 DEF t

LEMMA HotWaterAtFine ==
    ASSUME NEW h, Coffee(h), NEW b \in Beans, NEW c \in Cups
    PROVE  Fine(h, HotWaterAt(h, b, c))
<1> DEFINE g == SetGroup([h EXCEPT !.tab = "AMERICANO"], "ESPRESSO", b, c)
           x == HotClick(h, FALSE)
           y == HotClick(g, FALSE)
<1>1. "AMERICANO" \in AllGroups /\ "ESPRESSO" \in CoffeeTabs
  BY DEF AllGroups, CoffeeTabs
<1>2. Coffee(g) /\ Fine(h, g)
  BY <1>1, OpenedFine DEF Fine
<1>3. HotWaterAt(h, b, c) = x \/ HotWaterAt(h, b, c) = y
  BY DEF HotWaterAt
<1> HIDE DEF g
<1>4. Fine(h, x) /\ Fine(g, y)
  BY <1>2, HotClickFine
<1> HIDE DEF x, y
<1> QED
  BY <1>2, <1>3, <1>4, FineChain
-----------------------------------------------------------------------------
(* The steps.                                                              *)

LEMMA TabsOfCoffee ==
    ASSUME "TEA" \notin Groups
    PROVE  Groups \subseteq CoffeeTabs /\ CoffeeTabs \subseteq AllGroups
  BY GroupsAssumption DEF CoffeeTabs, AllGroups

LEMMA UserFine ==
    ASSUME "TEA" \notin Groups, Coffee(home), User
    PROVE  Fine(home, home')
<1> USE Coffee(home)
<1>0. Safe(home) /\ home.group # "TEA"
  BY DEF Coffee, CoffeeTabs
<1>1. CASE TapBean
  <2>1. PICK v \in Beans : home' = BeanClick(home, v, FALSE)
    BY <1>1 DEF TapBean, Beans
  <2> QED
    BY <2>1, BeanClickFine
<1>2. CASE TapCup
  <2>1. PICK v \in Cups : home' = CupClick(home, v, FALSE)
    BY <1>2 DEF TapCup, Cups
  <2> QED
    BY <2>1, CupClickFine
<1>3. CASE TapHotWater \/ TapSteam
  <2>1. home' = HotClick(home, FALSE) \/ home' = SteamClick(home, FALSE)
    BY <1>3 DEF TapHotWater, TapSteam
  <2> QED
    BY <2>1, HotClickFine, SteamClickFine
<1>4. CASE TapRebrew \/ TapTeaBack \/ TapPop
  BY <1>0, <1>4 DEF TapRebrew, TapTeaBack, TapPop, Coffee, CoffeePops
<1>5. CASE TapTab
  <2>1. PICK g \in Groups, b \in Beans, c \in Cups :
           home' = SetGroup([home EXCEPT !.tab = g], g, b, c)
    BY <1>5 DEF TapTab
  <2>2. g \in CoffeeTabs /\ g \in AllGroups
    BY TabsOfCoffee
  <2> QED
    BY <2>1, <2>2, OpenedFine
<1>6. CASE SlideDose
  <2>1. PICK b \in Beans :
           home' = [home EXCEPT !.beanItem = b, !.activated = (home.activated \ Beans) \cup {b}]
    BY <1>6 DEF SlideDose
  <2> QED
    BY <1>0, <2>1, BeanItemShows, ShowsFine
<1>7. CASE SlideWater
  <2>1. PICK c \in Cups :
           home' = [home EXCEPT !.cupItem = c, !.activated = (home.activated \ Cups) \cup {c}]
    BY <1>7 DEF SlideWater
  <2>2. Safe(home')
    BY <1>0, <1>7, UserSafe DEF User
  <2>3. Keeps(home, home') /\ home'.pop = home.pop
    BY <1>0, <2>1 DEF Safe, Home, Keeps
  <2> QED
    BY <2>2, <2>3, ShowsFine DEF Shows
<1>8. CASE TapReset
  <2>1. PICK b \in Beans, c \in Cups :
           home' = [CupsUpdated(home, c) EXCEPT
                      !.beanItem = b,
                      !.activated = (CupsUpdated(home, c).activated \ Beans) \cup {b}]
    BY <1>8 DEF TapReset
  <2> DEFINE up == CupsUpdated(home, c)
  <2>2. Safe(up) /\ Shows(home, up)
    BY <1>0, CupsUpdatedShows DEF Shows
  <2>3. home' = [up EXCEPT !.beanItem = b, !.activated = (up.activated \ Beans) \cup {b}]
    BY <2>1
  <2> HIDE DEF up
  <2>4. Shows(up, home')
    BY <2>2, <2>3, BeanItemShows
  <2> QED
    BY <2>2, <2>4, ShowsChain, ShowsFine
<1>9. CASE ConfirmWarn
  <2> DEFINE d == [home EXCEPT !.dealt = home.dealt \cup {home.asked}]
             rest == home.listed \ {home.asked}
  <2>1. home.dealt \cup {home.asked} \in SUBSET AllFaults /\ rest \in SUBSET AllFaults
    BY <1>0, <1>9 DEF ConfirmWarn, Safe, Home
  <2>2. Coffee(d) /\ Fine(home, d)
    BY <2>1, DealtFine DEF Fine
  <2>3. home' = IF rest # {} THEN ListWarns(d, rest) ELSE WarnClosed(d)
    BY <1>9 DEF ConfirmWarn
  <2> HIDE DEF d, rest
  <2>4. Fine(d, home')
    BY <2>1, <2>2, <2>3, PopFine, WarnClosedFine
  <2> QED
    BY <2>2, <2>4, FineChain
<1>10. CASE CleanNow
  <2>1. Safe(home')
    BY <1>0, <1>10, UserSafe DEF User
  <2>2. Keeps(home, home') /\ home'.pop = "none"
    BY <1>0, <1>10 DEF CleanNow, WarnGone, Safe, Home, Keeps
  <2> QED
    BY <2>1, <2>2, KeepsFine DEF CoffeePops
<1>11. CASE CleanLater
  <2>1. PICK s \in BOOLEAN :
           home' = WarnClosed([home EXCEPT !.dealt = home.dealt \cup {"A02"}, !.snoozed = s])
    BY <1>11 DEF CleanLater
  <2> DEFINE d == [home EXCEPT !.dealt = home.dealt \cup {"A02"}, !.snoozed = s]
  <2>2. home.dealt \cup {"A02"} \in SUBSET AllFaults
    BY <1>0 DEF Safe, Home, AllFaults
  <2>3. \A ws \in SUBSET AllFaults : Safe([home EXCEPT !.dealt = ws, !.snoozed = s])
    BY <1>0, ZenonT(60) DEF Safe, Apart, Home
  <2>4. Safe(d)
    BY <2>2, <2>3
  <2>5. Keeps(home, d) /\ d.pop = home.pop
    BY <1>0 DEF Safe, Home, Keeps
  <2> HIDE DEF d
  <2>6. Coffee(d) /\ Fine(home, d)
    BY <2>4, <2>5, ShowsFine DEF Shows, Fine
  <2>7. home' = WarnClosed(d)
    BY <2>1 DEF d
  <2> QED
    BY <2>6, <2>7, WarnClosedFine, FineChain
<1>12. CASE SnoozeEnds
  <2>1. Safe(home')
    BY <1>0, <1>12, UserSafe DEF User
  <2>2. Keeps(home, home') /\ home'.pop = home.pop
    BY <1>0, <1>12 DEF SnoozeEnds, Safe, Home, Keeps
  <2> QED
    BY <2>1, <2>2, ShowsFine DEF Shows
<1>13. CASE LeavePage
  <2> DEFINE p == CancelPop(home)
  <2>1. Coffee(p) /\ Safe(p) /\ Fine(home, p)
    BY PopFine DEF Fine, Coffee
  <2>2. home' = [p EXCEPT !.shown = FALSE]
    BY <1>13 DEF LeavePage
  <2>3. Safe(home')
    BY <1>0, <1>13, UserSafe DEF User
  <2> HIDE DEF p
  <2>4. Keeps(p, home') /\ home'.pop = p.pop
    BY <2>1, <2>2 DEF Safe, Home, Keeps
  <2>5. Fine(p, home')
    BY <2>1, <2>3, <2>4, ShowsFine DEF Shows
  <2> QED
    BY <2>1, <2>5, FineChain
<1>14. CASE ComeBack
  BY <1>0, <1>14, ShowHomeFine, ChoicesType DEF ComeBack
<1>15. CASE WakeUp
  <2> DEFINE a == [home EXCEPT !.ready = FALSE, !.eq = "PRE_HEATING"]
  <2>1. Safe(a)
    BY <1>0 DEF Safe, Apart, Home, EqStatus
  <2>2. Keeps(home, a) /\ a.pop = home.pop
    BY <1>0 DEF Safe, Home, Keeps
  <2>3. PICK c \in Cups : home' = ShowHome(a, c)
    BY <1>15 DEF WakeUp
  <2> HIDE DEF a
  <2>4. Coffee(a) /\ Fine(home, a)
    BY <2>1, <2>2, ShowsFine DEF Shows, Fine
  <2> QED
    BY <2>3, <2>4, ShowHomeFine, FineChain
<1> QED
  BY <1>1, <1>2, <1>3, <1>4, <1>5, <1>6, <1>7, <1>8, <1>9, <1>10, <1>11, <1>12, <1>13,
     <1>14, <1>15 DEF User

LEMMA PreheatFine ==
    ASSUME Coffee(home), NEW ready \in BOOLEAN, Preheat(ready)
    PROVE  Fine(home, home')
<1> DEFINE h == [home EXCEPT !.ready = ready]
           e == IF ready THEN "STANDBY" ELSE "PRE_HEATING"
<1>1. Safe(home) /\ Safe(h) /\ Shows(home, h)
  <2>1. Safe(home)
    BY DEF Coffee
  <2>2. Safe(h)
    BY <2>1 DEF Safe, Apart, Home
  <2>3. Keeps(home, h) /\ h.pop = home.pop
    BY <2>1 DEF Safe, Home, Keeps
  <2> HIDE DEF h
  <2> QED
    BY <2>1, <2>2, <2>3 DEF Shows
<1>2. \/ home' = h
      \/ \E c \in CupChoices(h) :
            home' = [(IF h.shown THEN Preheated(h, c) ELSE h) EXCEPT !.eq = e]
  BY DEF Preheat
<1>3. CASE home' = h
  <2> HIDE DEF h
  <2> QED
    BY <1>1, <1>3, ShowsFine
<1>4. CASE \E c \in CupChoices(h) :
              home' = [(IF h.shown THEN Preheated(h, c) ELSE h) EXCEPT !.eq = e]
  <2>1. PICK c \in CupChoices(h) :
              home' = [(IF h.shown THEN Preheated(h, c) ELSE h) EXCEPT !.eq = e]
    BY <1>4
  <2> DEFINE p == IF h.shown THEN Preheated(h, c) ELSE h
  <2>2. Safe(p) /\ Shows(h, p)
    <3> HIDE DEF h
    <3>1. Shows(h, h) /\ c \in Cups
      BY <1>1, ChoicesType DEF Shows, Keeps
    <3> QED
      BY <1>1, <3>1, PreheatedShows DEF Shows
  <2>3. home' = [p EXCEPT !.eq = e]
    BY <2>1
  <2>4. e \in EqStatus
    BY DEF EqStatus
  <2> HIDE DEF p, e, h
  <2>5. Safe(home')
    BY <2>2, <2>3, <2>4, EqSafe
  <2>6. Keeps(p, home') /\ home'.pop = p.pop
    BY <2>2, <2>3 DEF Safe, Home, Keeps
  <2> QED
    BY <1>1, <2>2, <2>5, <2>6, ShowsChain, ShowsFine DEF Shows
<1> QED
  BY <1>2, <1>3, <1>4

\* The end of a job: what the page presses then may start it again, unless warned.
LEMMA EndedFine ==
    ASSUME NEW h, Coffee(h), NEW job
    PROVE  Fine(h, [h EXCEPT !.machine = h.machine \ {job}])
<1> DEFINE t == [h EXCEPT !.machine = h.machine \ {job}]
<1>1. Safe(h) /\ Safe(t)
  BY EndedSafe DEF Coffee
<1>2. /\ t.machine = h.machine \ {job} /\ t.warn = h.warn /\ t.group = h.group
      /\ t.selected = h.selected /\ t.pop = h.pop
  BY <1>1 DEF Safe, Home
<1> HIDE DEF t
<1>3. Fine(h, t)
  BY <1>1, <1>2 DEF Fine, Coffee, Allowed, BeansHandled, Single
<1> QED
  BY <1>3 DEF t

LEMMA WarnFrameFine ==
    ASSUME Coffee(home), WarnFrame
    PROVE  /\ Coffee(home')
           /\ \A job \in home'.machine \ home.machine : home'.warn \cap Mask(job) = {}
<1>1. PICK w \in SUBSET Faults :
        LET h == [home EXCEPT !.warn = w, !.dealt = home.dealt \cap w]
            s == CASE h.pop # "WARN" -> ListWarns(CancelPop(h), Undealt(h))
                   [] h.pop = "WARN" /\ h.asked \in Undealt(h) -> [h EXCEPT !.listed = Undealt(h)]
                   [] OTHER -> ListWarns(h, Undealt(h))
        IN  \/ home' = WarnGone(h)
            \/ home' = [h EXCEPT !.pausing = IF h.shown THEN FALSE ELSE h.pausing]
            \/ home' = s
            \/ home' = h
            \/ home' = [s EXCEPT !.pausing = FALSE]
            \/ home' = DealWarn(s)
  BY DEF WarnFrame
<1> DEFINE d == home.dealt \cap w
           h == [home EXCEPT !.warn = w, !.dealt = d]
           l == [h EXCEPT !.listed = Undealt(h)]
           s == CASE h.pop # "WARN" -> ListWarns(CancelPop(h), Undealt(h))
                  [] h.pop = "WARN" /\ h.asked \in Undealt(h) -> l
                  [] OTHER -> ListWarns(h, Undealt(h))
           p == IF h.shown THEN FALSE ELSE h.pausing
           x == [h EXCEPT !.pausing = p]
           y == [s EXCEPT !.pausing = FALSE]
<1>2. Coffee(h) /\ h.machine = home.machine
  <2>0. Safe(home)
    BY DEF Coffee
  <2>1. w \in SUBSET AllFaults /\ d \in SUBSET AllFaults
    BY <2>0, FaultsAssumption DEF Safe, Home
  <2>2. \A a \in SUBSET AllFaults, b \in SUBSET AllFaults : Safe([home EXCEPT !.warn = a, !.dealt = b])
    BY <2>0 DEF Safe, Apart, Home
  <2>3. Safe(h)
    <3> HIDE DEF d
    <3> QED
      BY <2>1, <2>2
  <2>4. /\ h.machine = home.machine /\ h.group = home.group
        /\ h.selected = home.selected /\ h.pop = home.pop
    BY <2>0 DEF Safe, Home
  <2> HIDE DEF h
  <2> QED
    BY <2>3, <2>4 DEF Coffee, BeansHandled, Single
<1>3. Coffee(s) /\ Fine(h, s) /\ p \in BOOLEAN
  <2> HIDE DEF h
  <2>1. Safe(h) /\ Undealt(h) \in SUBSET AllFaults
    BY <1>2, UndealtType DEF Coffee
  <2>2. Fine(h, l)
    <3>1. \A ws \in SUBSET AllFaults : Safe([h EXCEPT !.listed = ws])
      BY <2>1 DEF Safe, Apart, Home
    <3>2. Safe(l)
      BY <2>1, <3>1
    <3>3. Keeps(h, l) /\ l.pop = h.pop
      BY <2>1 DEF Safe, Home, Keeps
    <3> HIDE DEF l
    <3> QED
      BY <1>2, <3>2, <3>3, ShowsFine DEF Shows
  <2>3. p \in BOOLEAN
    BY <2>1 DEF Safe, Home
  <2>4. Fine(h, ListWarns(h, Undealt(h)))
    BY <1>2, <2>1, PopFine
  <2>5. Fine(h, ListWarns(CancelPop(h), Undealt(h)))
    <3>1. Coffee(CancelPop(h)) /\ Fine(h, CancelPop(h))
      BY <1>2, PopFine DEF Fine
    <3> QED
      BY <2>1, <3>1, PopFine, FineChain
  <2>6. Fine(h, s)
    <3> HIDE DEF l
    <3> QED
      BY <2>2, <2>4, <2>5
  <2> QED
    BY <2>3, <2>6 DEF Fine
<1>4. \/ home' = WarnGone(h)
      \/ home' = x
      \/ home' = s
      \/ home' = h
      \/ home' = y
      \/ home' = DealWarn(s)
  BY <1>1
<1>5. Fine(h, x) /\ Fine(s, y)
  <2> HIDE DEF h, s, p
  <2> QED
    BY <1>2, <1>3, PausingFine
<1> HIDE DEF h, s, x, y, p
<1>6. Fine(h, home')
  BY <1>2, <1>3, <1>4, <1>5, PopFine, DealWarnFine, FineSelf, FineChain
<1> QED
  BY <1>2, <1>6 DEF Fine, Allowed

\* A step keeps what Coffee says, and starts no job with a warning against it.
Checked == Coffee(home') /\ \A job \in home'.machine \ home.machine : home'.warn \cap Mask(job) = {}

LEMMA McuChecked ==
    ASSUME Coffee(home), Mcu
    PROVE  Checked
<1> USE Coffee(home)
<1> SUFFICES Fine(home, home') \/ Checked
  BY DEF Fine, Allowed, Checked
<1>0. Safe(home)
  BY DEF Coffee
<1>1. CASE PreheatDone \/ Reheat
  BY <1>1, PreheatFine DEF PreheatDone, Reheat
<1>2. CASE GrindDone
  <2> DEFINE h == [home EXCEPT !.enough = TRUE]
             x == PressBean(h, FALSE)
  <2>1. Safe(h)
    BY <1>0 DEF Safe, Apart, Home
  <2>2. Keeps(home, h) /\ h.pop = home.pop
    BY <1>0 DEF Safe, Home, Keeps
  <2>3. home' = x \/ home' = h
    BY <1>2 DEF GrindDone
  <2> HIDE DEF h
  <2>4. Coffee(h) /\ Fine(home, h)
    BY <2>1, <2>2, ShowsFine DEF Shows, Fine
  <2>5. Fine(h, x)
    BY <2>4, PressFine
  <2> HIDE DEF x
  <2> QED
    BY <2>3, <2>4, <2>5, FineChain
<1>3. CASE BrewDone \/ HotWaterDone \/ SteamDone
  <2>1. PICK job : LET h == [home EXCEPT !.machine = home.machine \ {job}]
                   IN home' \in {h, PressCup(h, FALSE), HotClick(h, FALSE), SteamClick(h, FALSE)}
    BY <1>3 DEF BrewDone, HotWaterDone, SteamDone
  <2> DEFINE h == [home EXCEPT !.machine = home.machine \ {job}]
             x == PressCup(h, FALSE)
             y == HotClick(h, FALSE)
             z == SteamClick(h, FALSE)
  <2>2. Coffee(h) /\ Fine(home, h)
    BY EndedFine DEF Fine
  <2>3. home' \in {h, x, y, z}
    BY <2>1
  <2> HIDE DEF h
  <2>4. Fine(h, h) /\ Fine(h, x) /\ Fine(h, y) /\ Fine(h, z)
    BY <2>2, FineSelf, PressFine, HotClickFine, SteamClickFine
  <2> HIDE DEF x, y, z
  <2> QED
    BY <2>2, <2>3, <2>4, FineChain
<1>4. CASE WarnFrame
  BY <1>4, WarnFrameFine DEF Checked
<1> QED
  BY <1>1, <1>2, <1>3, <1>4 DEF Mcu

LEMMA CloudFine ==
    ASSUME "TEA" \notin Groups, Coffee(home), Cloud
    PROVE  Fine(home, home')
<1> USE Coffee(home)
<1>0. /\ Safe(home) /\ home.group # "TEA" /\ ~Asking
      /\ Groups \subseteq CoffeeTabs /\ Groups \subseteq AllGroups
      /\ CupChoices(home) \subseteq Cups
  BY TabsOfCoffee, ChoicesType DEF Coffee, CoffeeTabs, CoffeePops, Asking
<1>1. CASE TuyaGrindStart
  <2>1. PICK b \in Dose(home.group = "TEA"), c \in CupChoices(home), d \in Water(home.group = "TEA") :
          LET h == Called(home, c)
              g == IF h.group = "TEA" THEN SetGroup([h EXCEPT !.tab = "AMERICANO"], "ESPRESSO", b, d) ELSE h
          IN home' = IF h.machine \cap Jobs # {} THEN h
                     ELSE BeanClick(g, IF "bean1" \in g.activated THEN "bean1" ELSE "bean2", FALSE)
    BY <1>1 DEF TuyaGrindStart
  <2> DEFINE h == Called(home, c)
             v == IF "bean1" \in h.activated THEN "bean1" ELSE "bean2"
             x == BeanClick(h, v, FALSE)
  <2>2. Coffee(h) /\ Fine(home, h) /\ h.group # "TEA"
    BY <1>0, CalledFine DEF Fine, Coffee, CoffeeTabs
  <2>3. home' = h \/ home' = x
    BY <2>1, <2>2
  <2>4. v \in Beans
    BY DEF Beans
  <2> HIDE DEF h, v
  <2>5. Fine(h, x)
    BY <2>2, <2>4, BeanClickFine
  <2> HIDE DEF x
  <2> QED
    BY <2>2, <2>3, <2>5, FineChain
<1>2. CASE TuyaGrindStop
  <2>1. PICK c \in CupChoices(home) :
           home' = Called(home, c) \/ home' = PressBean(Called(home, c), FALSE)
    BY <1>2 DEF TuyaGrindStop
  <2> DEFINE h == Called(home, c)
             x == PressBean(h, FALSE)
  <2>2. Coffee(h) /\ Fine(home, h)
    BY <1>0, CalledFine DEF Fine
  <2>3. home' = h \/ home' = x
    BY <2>1
  <2> HIDE DEF h
  <2>4. Fine(h, x)
    BY <2>2, PressFine
  <2> HIDE DEF x
  <2> QED
    BY <2>2, <2>3, <2>4, FineChain
<1>3. CASE TuyaAnswer \/ TuyaBrewTea
  BY <1>0, <1>3 DEF TuyaAnswer, TuyaBrewTea
<1>4. CASE TuyaBrewCoffee
  <2>0. PICK g \in Groups \ {"TEA"}, c \in CupChoices(home) :
          \E b \in Dose(g \in TwoSizes), d \in Water(g \in TwoSizes) :
             LET h == SetGroup([Called(home, c) EXCEPT !.tab = g], g, b, d)
             IN home' = CupClick(h, "cup1", FALSE) \/ home' = CupClick(h, "cup2", FALSE) \/ home' = h
    BY <1>4, ZenonT(60) DEF TuyaBrewCoffee
  <2>1. PICK b \in Dose(g \in TwoSizes), d \in Water(g \in TwoSizes) :
          LET h == SetGroup([Called(home, c) EXCEPT !.tab = g], g, b, d)
          IN home' = CupClick(h, "cup1", FALSE) \/ home' = CupClick(h, "cup2", FALSE) \/ home' = h
    BY <2>0
  <2>b. b \in Beans /\ d \in Cups
    BY SizesType
  <2> DEFINE called == Called(home, c)
             h == SetGroup([called EXCEPT !.tab = g], g, b, d)
             x == CupClick(h, "cup1", FALSE)
             y == CupClick(h, "cup2", FALSE)
  <2>2. Coffee(called) /\ Fine(home, called)
    BY <1>0, CalledFine DEF Fine
  <2>3. Coffee(h) /\ Fine(called, h)
    <3> HIDE DEF called
    <3> QED
      BY <1>0, <2>2, <2>b, OpenedFine DEF Fine
  <2>4. home' = x \/ home' = y \/ home' = h
    BY <2>1
  <2> HIDE DEF called, h
  <2>5. Fine(h, x) /\ Fine(h, y) /\ Fine(h, h)
    BY <2>3, FineSelf, CupClickFine DEF Cups
  <2> HIDE DEF x, y
  <2> QED
    BY <2>2, <2>3, <2>4, <2>5, FineChain
<1>5. CASE TuyaHotWater
  <2>1. PICK c \in CupChoices(home), b \in Beans, d \in Cups : home' = HotWaterAt(Called(home, c), b, d)
    BY <1>5, SizesType DEF TuyaHotWater
  <2>2. Coffee(Called(home, c)) /\ Fine(home, Called(home, c))
    BY <1>0, CalledFine DEF Fine
  <2> QED
    BY <2>1, <2>2, HotWaterAtFine, FineChain
<1>6. CASE TuyaStop
  <2>1. PICK c \in CupChoices(home) :
          LET h == Called(home, c)
          IN \/ home' = h
             \/ home' = HotClick(h, FALSE)
             \/ home' = StopTea(h) /\ h.group = "TEA"
             \/ home' = CupClick(h, "cup1", FALSE)
             \/ home' = CupClick(h, "cup2", FALSE)
    BY <1>6 DEF TuyaStop
  <2> DEFINE h == Called(home, c)
             w == HotClick(h, FALSE)
             x == CupClick(h, "cup1", FALSE)
             y == CupClick(h, "cup2", FALSE)
  <2>2. Coffee(h) /\ Fine(home, h) /\ h.group # "TEA"
    BY <1>0, CalledFine DEF Fine, Coffee, CoffeeTabs
  <2>3. home' \in {h, w, x, y}
    BY <2>1, <2>2
  <2> HIDE DEF h
  <2>4. Fine(h, h) /\ Fine(h, w) /\ Fine(h, x) /\ Fine(h, y)
    BY <2>2, FineSelf, HotClickFine, CupClickFine DEF Cups
  <2> HIDE DEF w, x, y
  <2> QED
    BY <2>2, <2>3, <2>4, FineChain
<1>7. CASE AiRecipe
  <2>1. PICK g \in Groups, b \in Beans, c \in CupChoices(home), d \in Cups :
          LET h == [ShowHome(home, c) EXCEPT !.tab = g]
          IN home' = h \/ home' = SetGroup(h, g, b, d)
    BY <1>7, SizesType DEF AiRecipe
  <2> DEFINE shown == ShowHome(home, c)
             x == [shown EXCEPT !.tab = g]
             y == SetGroup([shown EXCEPT !.tab = g], g, b, d)
  <2>2. Coffee(shown) /\ Fine(home, shown)
    BY <1>0, ShowHomeFine DEF Fine
  <2>3. home' = x \/ home' = y
    BY <2>1
  <2> HIDE DEF shown
  <2>4. g \in CoffeeTabs /\ g \in AllGroups
    BY <1>0
  <2>5. Fine(shown, x)
    BY <2>2, <2>4, TabFine
  <2>6. Fine(shown, y)
    BY <2>2, <2>4, OpenedFine
  <2> HIDE DEF x, y
  <2> QED
    BY <2>2, <2>3, <2>5, <2>6, FineChain
<1>8. CASE AiHotWater
  <2>1. PICK c \in CupChoices(home), b \in Beans, d \in Cups : home' = HotWaterAt(ShowHome(home, c), b, d)
    BY <1>8, SizesType DEF AiHotWater
  <2>2. Coffee(ShowHome(home, c)) /\ Fine(home, ShowHome(home, c))
    BY <1>0, ShowHomeFine DEF Fine
  <2> QED
    BY <2>1, <2>2, HotWaterAtFine, FineChain
<1>9. CASE TuyaClean
  <2> DEFINE p == SteamOff(home)
  <2>1. Coffee(p) /\ Safe(p) /\ Fine(home, p)
    BY PressFine DEF Fine, Coffee
  <2>2. home' = [p EXCEPT !.shown = FALSE]
    BY <1>9 DEF TuyaClean
  <2>3. Safe(home')
    BY <1>0, <1>9, CloudSafe DEF Cloud
  <2> HIDE DEF p
  <2>4. Keeps(p, home') /\ home'.pop = p.pop
    BY <2>1, <2>2 DEF Safe, Home, Keeps
  <2> QED
    BY <2>1, <2>3, <2>4, ShowsFine, FineChain DEF Shows
<1> QED
  BY <1>1, <1>2, <1>3, <1>4, <1>5, <1>6, <1>7, <1>8, <1>9 DEF Cloud

LEMMA InitCoffee ==
    ASSUME Init
    PROVE  Coffee(home)
<1> DEFINE blank(b) ==
              [shown |-> TRUE, tab |-> "AMERICANO", group |-> "AMERICANO",
               machine |-> {}, selected |-> {}, activated |-> {},
               beanItem |-> b, cupItem |-> "none", hot |-> FALSE, steam |-> FALSE,
               hotEnabled |-> TRUE, ready |-> FALSE, enough |-> FALSE,
               step |-> "WASH", eq |-> "PRE_HEATING", warn |-> {}, dealt |-> {},
               pausing |-> FALSE, snoozed |-> FALSE, pop |-> "none",
               listed |-> {}, asked |-> "none"]
<1>1. PICK b \in Beans, c \in Cups : home = SetGroup(blank(b), "AMERICANO", b, c)
  BY DEF Init
<1>2. Safe(blank(b))
  <2>1. "AMERICANO" \in AllGroups /\ "PRE_HEATING" \in EqStatus /\ "none" \in Pops
    BY DEF AllGroups, EqStatus, Pops
  <2> QED
    BY <2>1 DEF Safe, Apart, Home
<1>3. "AMERICANO" \in CoffeeTabs
  BY DEF CoffeeTabs
<1>4. Coffee(blank(b))
  BY <1>2, <1>3 DEF Coffee, CoffeePops, BeansHandled, Single
<1> HIDE DEF blank
<1> QED
  BY <1>1, <1>3, <1>4, SetGroupFine DEF Fine

LEMMA NextChecked ==
    ASSUME "TEA" \notin Groups, Coffee(home), Next
    PROVE  Checked
<1>1. Fine(home, home') => Checked
  BY DEF Fine, Allowed, Checked
<1> QED
  BY <1>1, UserFine, McuChecked, CloudFine DEF Next
-----------------------------------------------------------------------------
\* Without the tea tab the machine grinds, brews or dispenses hot water, one at a time,
\* whatever warnings there are and whatever the cloud and the assistant ask for.
THEOREM OneJobWithoutTea ==
    ASSUME "TEA" \notin Groups
    PROVE  Spec => []OneJob
<1>1. Init => Coffee(home)
  BY InitCoffee
<1>2. Coffee(home) /\ [Next]_home => Coffee(home)'
  BY NextChecked DEF Checked
<1>3. Coffee(home) => OneJob
  <2> SUFFICES ASSUME Single(home) PROVE OneJob
    BY DEF Coffee
  <2>1. CASE home.machine \cap Jobs = {}
    BY <2>1, FS_EmptySet DEF OneJob
  <2>2. CASE home.machine \cap Jobs # {}
    <3>1. PICK job : home.machine \cap Jobs = {job}
      BY <2>2 DEF Single
    <3>2. Cardinality({job}) = 1
      BY FS_Singleton
    <3> QED
      BY <3>1, <3>2 DEF OneJob
  <2> QED
    BY <2>1, <2>2
<1> QED
  BY <1>1, <1>2, <1>3, PTL DEF Spec

\* Without the tea tab no press, frame, command or recipe starts a job while a warning
\* against it is there: the presses that pass over the warnings only ever stop one.
THEOREM StartsAreChecked ==
    ASSUME "TEA" \notin Groups
    PROVE  Spec => NoStartWhenWarned
<1> DEFINE Step == \A job \in home'.machine \ home.machine :
                      home'.warn \cap (CASE job = "POWDER" -> StopGrind [] job = "EXT" -> StopExt
                                         [] job = "HOT_WATER" -> StopHotWater
                                         [] job = "STEAM" -> StopSteam) = {}
<1>1. Init => Coffee(home)
  BY InitCoffee
<1>2. Coffee(home) /\ [Next]_home => Coffee(home)'
  BY NextChecked DEF Checked
<1>3. Coffee(home) /\ [Next]_home => [Step]_home
  BY NextChecked DEF Checked, Mask
<1> QED
  BY <1>1, <1>2, <1>3, PTL DEF Spec, NoStartWhenWarned
=============================================================================
