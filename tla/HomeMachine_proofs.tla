-------------------------- MODULE HomeMachine_proofs --------------------------
(***************************************************************************)
(* The coffee tabs used at the machine: without the tea tab, without the   *)
(* clean reminder (A02), and with no command of the cloud but those that   *)
(* grind or stop, the buttons show what the machine does and every job     *)
(* ends with the button that is drawn as working.                          *)
(***************************************************************************)
EXTENDS HomeCoffee_proofs

\* The hypothesis of the theorems, with its reasons. The proof rests on OneJob, which tea
\* breaks: it starts past the checks of onChildDealClickListener. A02 offers a way to the
\* clean page while a job runs; the commands that extract, clean or carry a recipe and a
\* machine that heats up again redraw or leave a tab whose job goes on: ButtonsMatch fails
\* with each of these.
AtMachine == "TEA" \notin Groups /\ "A02" \notin Faults /\ Remote \subseteq {"GRIND", "STOP"}

\* The bean and the cup that the sizes call for.
BeanBtn(h) == IF h.group \in TwoSizes THEN h.beanItem ELSE "bean1"
CupBtn(h) == IF h.group \in TwoSizes THEN h.cupItem ELSE "cup1"

\* A button is drawn as working when its job runs, and then it reacts.
Drawn(h) ==
    /\ \A x \in h.selected : \/ x = BeanBtn(h) /\ "POWDER" \in h.machine
                             \/ x = CupBtn(h) /\ "EXT" \in h.machine
    /\ "POWDER" \in h.machine => BeanBtn(h) \in h.selected \cap h.activated
    /\ "EXT" \in h.machine => CupBtn(h) \in h.selected \cap h.activated
    /\ "HOT_WATER" \in h.machine <=> h.hot
    /\ "STEAM" \in h.machine <=> h.steam

\* What a running job excludes.
Runs(h) ==
    /\ h.machine \cap {"EXT", "HOT_WATER", "STEAM"} # {} => h.ready
    /\ h.machine \cap {"POWDER", "EXT"} # {} => ~h.hotEnabled
    /\ "HOT_WATER" \in h.machine => h.group \in TwoSizes
    /\ ~h.shown => h.machine = {}

\* Of two sizes only the one called for reacts.
Sized(h) ==
    h.group \in TwoSizes => /\ h.activated \cap Beans \subseteq {h.beanItem}
                            /\ h.activated \cap Cups \subseteq {h.cupItem}

\* The bean reacts while no water runs, the cup when a heated machine is idle.
Reacts(h) ==
    /\ h.machine \cap {"EXT", "HOT_WATER"} = {} => BeanBtn(h) \in h.activated
    /\ h.shown /\ h.ready => CupBtn(h) \in Cups
    /\ h.shown /\ h.ready /\ h.machine \cap Jobs = {} => CupBtn(h) \in h.activated

NoReminder(h) == "A02" \notin h.warn /\ "A02" \notin h.listed /\ h.asked # "A02"

Mach(h) == Coffee(h) /\ Drawn(h) /\ Runs(h) /\ Sized(h) /\ Reacts(h) /\ NoReminder(h)

\* A brew is not reported as done by going from s to t.
Counts(s, t) == t.eq = "EXTRACT_DONE" => s.eq = "EXTRACT_DONE"

Proper(s, t) == Mach(t) /\ Counts(s, t)

LEMMA ProperChain ==
    ASSUME NEW r, NEW s, NEW t, Proper(r, s), Proper(s, t)
    PROVE  Proper(r, t)
  BY DEF Proper, Counts

LEMMA ProperSelf ==
    ASSUME NEW h, Mach(h)
    PROVE  Proper(h, h)
  BY DEF Proper, Counts

LEMMA MachType ==
    ASSUME NEW h, Mach(h)
    PROVE  /\ Coffee(h) /\ Safe(h) /\ h \in Home
           /\ h.group # "TEA"
           /\ h.beanItem \in Beans /\ h.cupItem \in Cups \cup {"none"}
           /\ BeanBtn(h) \in Beans /\ CupBtn(h) \in Cups \cup {"none"}
           /\ Beans \cap (Cups \cup {"none"}) = {} /\ {"none", "rebrew"} \cap Beans = {} /\ {"none", "rebrew"} \cap Cups = {}
           /\ h.selected \subseteq Buttons /\ h.activated \subseteq Buttons
  BY DEF Mach, Coffee, CoffeeTabs, Safe, Home, BeanBtn, CupBtn, Beans, Cups

\* The fields that Mach depends on, warnings apart.
Same(s, t) ==
    /\ t.shown = s.shown /\ t.group = s.group /\ t.machine = s.machine
    /\ t.selected = s.selected /\ t.activated = s.activated
    /\ t.beanItem = s.beanItem /\ t.cupItem = s.cupItem
    /\ t.hot = s.hot /\ t.steam = s.steam
    /\ t.hotEnabled = s.hotEnabled /\ t.ready = s.ready

LEMMA SameMach ==
    ASSUME NEW s, NEW t, Mach(s), Coffee(t), Same(s, t), NoReminder(t)
    PROVE  Mach(t)
  BY DEF Mach, Same, Drawn, Runs, Sized, Reacts, BeanBtn, CupBtn
-----------------------------------------------------------------------------
(* Warnings and pop-ups.                                                   *)

LEMMA WarnSame ==
    ASSUME NEW h, Safe(h)
    PROVE  /\ Same(h, WarnGone(h)) /\ WarnGone(h).eq = h.eq
           /\ Same(h, CancelPop(h)) /\ CancelPop(h).eq \in {h.eq, "STANDBY"}
           /\ Same(h, ClosePop(h)) /\ ClosePop(h).eq \in {h.eq, "STANDBY"}
           /\ \A ws : Same(h, ListWarns(h, ws)) /\ ListWarns(h, ws).eq = h.eq
           /\ \A ws : Same(h, [h EXCEPT !.dealt = ws]) /\ [h EXCEPT !.dealt = ws].eq = h.eq
<1>1. Same(h, WarnGone(h)) /\ WarnGone(h).eq = h.eq
  BY DEF Safe, Home, Same, WarnGone
<1>2. Same(h, CancelPop(h)) /\ CancelPop(h).eq \in {h.eq, "STANDBY"}
  BY DEF Safe, Home, Same, CancelPop
<1>3. Same(h, ClosePop(h)) /\ ClosePop(h).eq \in {h.eq, "STANDBY"}
  BY <1>2 DEF Safe, Home, Same, ClosePop
<1>4. \A ws : Same(h, ListWarns(h, ws)) /\ ListWarns(h, ws).eq = h.eq
  BY DEF Safe, Home, Same, ListWarns
<1>5. \A ws : Same(h, [h EXCEPT !.dealt = ws]) /\ [h EXCEPT !.dealt = ws].eq = h.eq
  BY DEF Safe, Home, Same
<1> QED
  BY <1>1, <1>2, <1>3, <1>4, <1>5

LEMMA WarnProper ==
    ASSUME NEW h, Mach(h)
    PROVE  /\ Proper(h, WarnGone(h))
           /\ Proper(h, CancelPop(h))
           /\ Proper(h, ClosePop(h))
           /\ \A ws \in SUBSET (AllFaults \ {"A02"}) : Proper(h, ListWarns(h, ws))
           /\ \A ws \in SUBSET AllFaults : Proper(h, [h EXCEPT !.dealt = ws])
<1>0. Coffee(h) /\ Safe(h) /\ NoReminder(h)
  BY MachType DEF Mach
<1>1. Proper(h, WarnGone(h))
  <2>1. NoReminder(WarnGone(h))
    BY <1>0 DEF Safe, Home, NoReminder, WarnGone
  <2> QED
    BY <1>0, <2>1, WarnSame, PopFine, SameMach DEF Proper, Counts, Fine
<1>2. Proper(h, CancelPop(h)) /\ Proper(h, ClosePop(h))
  <2>1. NoReminder(CancelPop(h)) /\ NoReminder(ClosePop(h))
    BY <1>0 DEF Safe, Home, NoReminder, CancelPop, ClosePop
  <2> QED
    BY <1>0, <2>1, WarnSame, PopFine, SameMach DEF Proper, Counts, Fine
<1>3. \A ws \in SUBSET (AllFaults \ {"A02"}) : Proper(h, ListWarns(h, ws))
  <2> SUFFICES ASSUME NEW ws \in SUBSET (AllFaults \ {"A02"}) PROVE Proper(h, ListWarns(h, ws))
    OBVIOUS
  <2>1. FirstOf(ws) \in ws \cup {"none"}
    BY DEF FirstOf
  <2>2. NoReminder(ListWarns(h, ws))
    BY <1>0, <2>1 DEF Safe, Home, NoReminder, ListWarns
  <2> QED
    BY <1>0, <2>2, WarnSame, PopFine, SameMach DEF Proper, Counts, Fine
<1>4. \A ws \in SUBSET AllFaults : Proper(h, [h EXCEPT !.dealt = ws])
  <2> SUFFICES ASSUME NEW ws \in SUBSET AllFaults PROVE Proper(h, [h EXCEPT !.dealt = ws])
    OBVIOUS
  <2> DEFINE t == [h EXCEPT !.dealt = ws]
  <2>1. NoReminder(t)
    BY <1>0 DEF Safe, Home, NoReminder
  <2>2. Coffee(t) /\ Same(h, t) /\ t.eq = h.eq
    BY <1>0, DealtFine, WarnSame DEF Fine
  <2> HIDE DEF t
  <2>3. Proper(h, t)
    BY <2>1, <2>2, SameMach DEF Proper, Counts
  <2> QED
    BY <2>3 DEF t
<1> QED
  BY <1>1, <1>2, <1>3, <1>4

LEMMA ShowWarnProper ==
    ASSUME NEW h, Mach(h)
    PROVE  Proper(h, ShowWarn(h))
<1>1. Undealt(h) \in SUBSET (AllFaults \ {"A02"})
  BY MachType DEF Mach, NoReminder, Undealt, Home
<1> QED
  BY <1>1, WarnProper, ProperSelf DEF ShowWarn

\* A refused press; at the page it leaves a pop-up that can be closed.
LEMMA ReWarnProper ==
    ASSUME NEW h, Mach(h), NEW mask
    PROVE  /\ Proper(h, ReWarn(h, mask))
           /\ h.pop = "none" => ReWarn(h, mask).pop # "LOST"
<1> DEFINE c == ClosePop(h)
           d == [c EXCEPT !.dealt = c.dealt \ mask]
<1>1. Mach(c) /\ Proper(h, c)
  BY WarnProper DEF Proper
<1>2. Mach(d) /\ Proper(c, d) /\ d.pop = c.pop
  <2> HIDE DEF c
  <2>1. c.dealt \ mask \in SUBSET AllFaults /\ c \in Home
    BY <1>1, MachType DEF Home
  <2>2. d.pop = c.pop
    BY <2>1 DEF Home
  <2> QED
    BY <1>1, <2>1, <2>2, WarnProper DEF Proper
<1>3. ReWarn(h, mask) = ShowWarn(d)
  BY DEF ReWarn
<1>4. h.pop = "none" => c.pop = "none"
  BY MachType DEF ClosePop, CancelPop, Home
<1> HIDE DEF c, d
<1>5. Proper(h, ReWarn(h, mask))
  BY <1>1, <1>2, <1>3, ShowWarnProper, ProperChain
<1>6. d \in Home /\ (d.pop # "LOST" => ShowWarn(d).pop # "LOST")
  BY <1>2, MachType DEF ShowWarn, ListWarns, Home
<1> QED
  BY <1>2, <1>3, <1>4, <1>5, <1>6

\* Without the reminder a brew ends with no pop-up.
LEMMA RemindSelf ==
    ASSUME NEW h, "A02" \notin h.warn
    PROVE  Remind(h) = h
  BY DEF Remind
-----------------------------------------------------------------------------
(* The end of a job, and the start of one.                                 *)

\* What no button changes.
Rest(s, t) ==
    /\ t.shown = s.shown /\ t.group = s.group /\ t.ready = s.ready
    /\ t.beanItem = s.beanItem /\ t.cupItem = s.cupItem
    /\ t.warn = s.warn /\ t.dealt = s.dealt /\ t.listed = s.listed
    /\ t.asked = s.asked /\ t.pop = s.pop /\ t.pausing = s.pausing

BeanEnds(s, t) ==
    /\ Rest(s, t) /\ t.hot = s.hot /\ t.steam = s.steam
    /\ t.machine = s.machine \ {"POWDER"} /\ t.hotEnabled
    /\ t.selected = s.selected \ {BeanBtn(s)} /\ t.activated = s.activated \cup CupOf(s)
    /\ t.eq # "EXTRACT_DONE"

CupEnds(s, t) ==
    /\ Rest(s, t) /\ t.hot = s.hot /\ t.steam = s.steam
    /\ t.machine = s.machine \ {"EXT"} /\ t.hotEnabled
    /\ t.selected = s.selected \ {CupBtn(s)} /\ t.activated = s.activated \cup BeanOf(s)

HotEnds(s, t) ==
    /\ Rest(s, t) /\ ~t.hot /\ t.steam = s.steam
    /\ t.machine = s.machine \ {"HOT_WATER"} /\ t.hotEnabled = s.hotEnabled
    /\ t.selected = s.selected /\ t.activated = s.activated \cup CupOf(s) \cup BeanOf(s)

SteamEnds(s, t) ==
    /\ Rest(s, t) /\ t.hot = s.hot /\ ~t.steam
    /\ t.machine = s.machine \ {"STEAM"} /\ t.hotEnabled = s.hotEnabled
    /\ t.selected = s.selected /\ t.activated = s.activated /\ t.eq = s.eq

BeanStarts(s, t) ==
    /\ Rest(s, t) /\ t.hot = s.hot /\ t.steam = s.steam
    /\ t.machine = s.machine \cup {"POWDER"} /\ ~t.hotEnabled
    /\ t.selected = s.selected \cup {BeanBtn(s)} /\ t.activated = s.activated \ CupsOff(s)
    /\ t.eq # "EXTRACT_DONE"

CupStarts(s, t) ==
    /\ Rest(s, t) /\ t.hot = s.hot /\ t.steam = s.steam
    /\ t.machine = s.machine \cup {"EXT"} /\ ~t.hotEnabled
    /\ t.selected = s.selected \cup {CupBtn(s)} /\ t.activated = s.activated \ BeansOff(s)
    /\ t.eq # "EXTRACT_DONE"

HotStarts(s, t) ==
    /\ Rest(s, t) /\ t.hot /\ t.steam = s.steam
    /\ t.machine = s.machine \cup {"HOT_WATER"} /\ t.hotEnabled = s.hotEnabled
    /\ t.selected = s.selected /\ t.activated = s.activated \ (Beans \cup Cups)
    /\ t.eq # "EXTRACT_DONE"

SteamStarts(s, t) ==
    /\ Rest(s, t) /\ t.hot = s.hot /\ t.steam
    /\ t.machine = s.machine \cup {"STEAM"} /\ t.hotEnabled = s.hotEnabled
    /\ t.selected = s.selected /\ t.activated = s.activated /\ t.eq = s.eq

\* What the tab's sizes say, whatever is going on.
LEMMA ButtonsOf ==
    ASSUME NEW s, NEW t, Rest(s, t)
    PROVE  /\ BeanBtn(t) = BeanBtn(s) /\ CupBtn(t) = CupBtn(s)
           /\ NoReminder(s) => NoReminder(t)
  BY DEF Rest, BeanBtn, CupBtn, NoReminder

LEMMA SizesOf ==
    ASSUME NEW h, Mach(h)
    PROVE  /\ BeanOf(h) = {BeanBtn(h)}
           /\ h.shown /\ h.ready => CupOf(h) = {CupBtn(h)} /\ CupBtn(h) \in Cups
           /\ h.group \in TwoSizes => CupOf(h) \subseteq {h.cupItem}
           /\ CupOf(h) \subseteq Cups
           /\ BeansOff(h) \subseteq Beans /\ CupsOff(h) \subseteq Cups
<1>1. h.group \in CoffeeTabs /\ h.cupItem \in Cups \cup {"none"}
  BY MachType DEF Mach, Coffee
<1>2. h.shown /\ h.ready => CupBtn(h) \in Cups
  BY DEF Mach, Reacts
<1> QED
  BY <1>1, <1>2 DEF BeanOf, CupOf, BeansOff, CupsOff, BeanBtn, CupBtn, TwoSizes, Cups, Beans, CoffeeTabs

LEMMA BeanEndsMach ==
    ASSUME NEW s, NEW t, Mach(s), "POWDER" \in s.machine, Coffee(t), BeanEnds(s, t)
    PROVE  Mach(t) /\ t.machine \cap Jobs = {}
<1>0. /\ BeanBtn(t) = BeanBtn(s) /\ CupBtn(t) = CupBtn(s) /\ NoReminder(t)
      /\ CupOf(s) \subseteq Cups
  BY ButtonsOf, SizesOf DEF BeanEnds, Mach
<1>1. t.machine \cap Jobs = {}
  BY DEF BeanEnds, Mach, Coffee, Single, Jobs
<1>2. s.machine \cap {"EXT", "HOT_WATER"} = {}
  BY DEF Mach, Coffee, Single, Jobs
<1>3. Drawn(t)
  BY <1>0, <1>1, <1>2 DEF BeanEnds, Mach, Drawn, Jobs
<1>4. Runs(t)
  BY <1>1, <1>2 DEF BeanEnds, Rest, Mach, Runs, Jobs
<1>5. Sized(t)
  BY <1>0, SizesOf, MachType DEF BeanEnds, Rest, Mach, Sized
<1>6. Reacts(t)
  BY <1>0, <1>2, SizesOf DEF BeanEnds, Rest, Mach, Reacts
<1> QED
  BY <1>0, <1>1, <1>3, <1>4, <1>5, <1>6 DEF Mach

LEMMA CupEndsMach ==
    ASSUME NEW s, NEW t, Mach(s), "EXT" \in s.machine, Coffee(t), CupEnds(s, t)
    PROVE  Mach(t) /\ t.machine \cap Jobs = {}
<1>0. BeanBtn(t) = BeanBtn(s) /\ CupBtn(t) = CupBtn(s) /\ NoReminder(t)
  BY ButtonsOf DEF CupEnds, Mach
<1>1. t.machine \cap Jobs = {}
  BY DEF CupEnds, Mach, Coffee, Single, Jobs
<1>2. s.machine \cap {"POWDER", "HOT_WATER"} = {}
  BY DEF Mach, Coffee, Single, Jobs
<1>3. Drawn(t)
  BY <1>0, <1>1, <1>2 DEF CupEnds, Mach, Drawn, Jobs
<1>4. Runs(t)
  BY <1>1, <1>2 DEF CupEnds, Rest, Mach, Runs, Jobs
<1>5. Sized(t)
  BY <1>0, SizesOf, MachType DEF CupEnds, Rest, Mach, Sized, BeanBtn
<1>6. Reacts(t)
  <2>1. s.ready /\ s.shown /\ CupBtn(s) \in s.activated
    BY DEF Mach, Runs, Drawn
  <2> QED
    BY <1>0, <2>1, SizesOf DEF CupEnds, Rest, Mach, Reacts
<1> QED
  BY <1>0, <1>1, <1>3, <1>4, <1>5, <1>6 DEF Mach

LEMMA HotEndsMach ==
    ASSUME NEW s, NEW t, Mach(s), "HOT_WATER" \in s.machine, Coffee(t), HotEnds(s, t)
    PROVE  Mach(t) /\ t.machine \cap Jobs = {}
<1>0. BeanBtn(t) = BeanBtn(s) /\ CupBtn(t) = CupBtn(s) /\ NoReminder(t)
  BY ButtonsOf DEF HotEnds, Mach
<1>1. t.machine \cap Jobs = {}
  BY DEF HotEnds, Mach, Coffee, Single, Jobs
<1>2. s.machine \cap {"POWDER", "EXT"} = {}
  BY DEF Mach, Coffee, Single, Jobs
<1>3. Drawn(t)
  BY <1>0, <1>1, <1>2 DEF HotEnds, Mach, Drawn, Jobs
<1>4. Runs(t)
  BY <1>1, <1>2 DEF HotEnds, Rest, Mach, Runs, Jobs
<1>5. Sized(t)
  BY <1>0, SizesOf, MachType DEF HotEnds, Rest, Mach, Sized, BeanBtn
<1>6. Reacts(t)
  <2>1. s.ready /\ s.shown
    BY DEF Mach, Runs
  <2> QED
    BY <1>0, <2>1, SizesOf DEF HotEnds, Rest, Mach, Reacts
<1> QED
  BY <1>0, <1>1, <1>3, <1>4, <1>5, <1>6 DEF Mach

LEMMA SteamMach ==
    ASSUME NEW s, NEW t, Mach(s), Coffee(t),
           SteamEnds(s, t) \/ (SteamStarts(s, t) /\ s.ready /\ s.shown)
    PROVE  Mach(t)
<1>0. BeanBtn(t) = BeanBtn(s) /\ CupBtn(t) = CupBtn(s) /\ NoReminder(t)
  BY ButtonsOf DEF SteamEnds, SteamStarts, Mach
<1>3. Drawn(t)
  BY <1>0 DEF SteamEnds, SteamStarts, Mach, Drawn
<1>4. Runs(t)
  BY DEF SteamEnds, SteamStarts, Rest, Mach, Runs
<1>5. Sized(t)
  BY DEF SteamEnds, SteamStarts, Rest, Mach, Sized
<1>6. Reacts(t)
  BY <1>0 DEF SteamEnds, SteamStarts, Rest, Mach, Reacts, Jobs
<1> QED
  BY <1>0, <1>3, <1>4, <1>5, <1>6 DEF Mach

LEMMA BeanStartsMach ==
    ASSUME NEW s, NEW t, Mach(s), s.machine \cap Jobs = {}, s.shown, Coffee(t), BeanStarts(s, t)
    PROVE  Mach(t)
<1>0. /\ BeanBtn(t) = BeanBtn(s) /\ CupBtn(t) = CupBtn(s) /\ NoReminder(t)
      /\ BeanBtn(s) \in Beans /\ Beans \cap Cups = {} /\ CupsOff(s) \subseteq Cups
  BY ButtonsOf, MachType, SizesOf DEF BeanStarts, Mach
<1>3. Drawn(t)
  <2>1. BeanBtn(s) \in s.activated
    BY DEF Mach, Reacts, Jobs
  <2> QED
    BY <1>0, <2>1 DEF BeanStarts, Mach, Drawn, Jobs
<1>4. Runs(t)
  BY DEF BeanStarts, Rest, Mach, Runs, Jobs
<1>5. Sized(t)
  BY DEF BeanStarts, Rest, Mach, Sized
<1>6. Reacts(t)
  BY <1>0 DEF BeanStarts, Rest, Mach, Reacts, Jobs
<1> QED
  BY <1>0, <1>3, <1>4, <1>5, <1>6 DEF Mach

LEMMA CupStartsMach ==
    ASSUME NEW s, NEW t, Mach(s), s.machine \cap Jobs = {}, s.shown, s.ready,
           Coffee(t), CupStarts(s, t)
    PROVE  Mach(t)
<1>0. /\ BeanBtn(t) = BeanBtn(s) /\ CupBtn(t) = CupBtn(s) /\ NoReminder(t)
      /\ CupBtn(s) \in Cups /\ Beans \cap Cups = {} /\ BeansOff(s) \subseteq Beans
  BY ButtonsOf, MachType, SizesOf DEF CupStarts, Mach
<1>3. Drawn(t)
  <2>1. CupBtn(s) \in s.activated
    BY DEF Mach, Reacts
  <2> QED
    BY <1>0, <2>1 DEF CupStarts, Mach, Drawn, Jobs
<1>4. Runs(t)
  BY DEF CupStarts, Rest, Mach, Runs, Jobs
<1>5. Sized(t)
  BY DEF CupStarts, Rest, Mach, Sized
<1>6. Reacts(t)
  BY <1>0 DEF CupStarts, Rest, Mach, Reacts, Jobs
<1> QED
  BY <1>0, <1>3, <1>4, <1>5, <1>6 DEF Mach

LEMMA HotStartsMach ==
    ASSUME NEW s, NEW t, Mach(s), s.machine \cap Jobs = {}, s.shown, s.ready,
           s.group \in TwoSizes, Coffee(t), HotStarts(s, t)
    PROVE  Mach(t)
<1>0. BeanBtn(t) = BeanBtn(s) /\ CupBtn(t) = CupBtn(s) /\ NoReminder(t)
  BY ButtonsOf DEF HotStarts, Mach
<1>3. Drawn(t)
  BY <1>0 DEF HotStarts, Mach, Drawn, Jobs
<1>4. Runs(t)
  BY DEF HotStarts, Rest, Mach, Runs, Jobs
<1>5. Sized(t)
  BY DEF HotStarts, Rest, Mach, Sized
<1>6. Reacts(t)
  BY <1>0 DEF HotStarts, Rest, Mach, Reacts, Jobs
<1> QED
  BY <1>0, <1>3, <1>4, <1>5, <1>6 DEF Mach
-----------------------------------------------------------------------------
(* The buttons.                                                            *)

\* The button of a job is drawn as working until it is pressed, also when the MCU has
\* already ended the job.
Ended(s, t, job) ==
    /\ Rest(s, t) /\ t.hot = s.hot /\ t.steam = s.steam
    /\ t.hotEnabled = s.hotEnabled /\ t.eq = s.eq
    /\ t.selected = s.selected /\ t.activated = s.activated
    /\ t.machine \in {s.machine, s.machine \ {job}}

LEMMA EndedRest ==
    ASSUME NEW h, h \in Home, NEW job
    PROVE  Ended(h, h, job) /\ Ended(h, [h EXCEPT !.machine = h.machine \ {job}], job)
  BY DEF Ended, Rest, Home

LEMMA BeanFields ==
    ASSUME NEW h, h \in Home, NEW v \in Beans, v \in Handled(h.group)
    PROVE  /\ v \in h.selected /\ "POWDER" \in h.machine /\ v = BeanBtn(h)
                 => BeanEnds(h, BeanInfo(ToggleBean(h, v), v))
           /\ v \notin h.selected /\ v = BeanBtn(h)
                 => BeanStarts(h, BeanInfo(ToggleBean(h, v), v))
<1>1. ASSUME v \in h.selected, v = BeanBtn(h)
      PROVE  BeanEnds(h, BeanInfo(ToggleBean(h, v), v))
  <2> DEFINE t == ToggleBean(h, v)
             i == BeanInfo(t, v)
  <2>1. t = [h EXCEPT !.selected = h.selected \ {v}, !.activated = h.activated \cup CupOf(h)]
    BY <1>1 DEF ToggleBean
  <2>2. /\ Rest(h, t) /\ t.hot = h.hot /\ t.steam = h.steam /\ t.machine = h.machine
        /\ t.selected = h.selected \ {v} /\ t.activated = h.activated \cup CupOf(h)
        /\ DOMAIN t = DOMAIN h
    BY <2>1 DEF Rest, Home
  <2>3. i = [t EXCEPT !.eq = IF t.enough THEN "GRIND_DONE" ELSE "STANDBY",
                      !.hotEnabled = TRUE, !.machine = t.machine \ {"POWDER"}]
    BY <2>2 DEF BeanInfo
  <2> HIDE DEF t, i
  <2>4. /\ Rest(t, i) /\ i.hot = t.hot /\ i.steam = t.steam
        /\ i.machine = t.machine \ {"POWDER"} /\ i.hotEnabled
        /\ i.selected = t.selected /\ i.activated = t.activated /\ i.eq # "EXTRACT_DONE"
    BY <2>2, <2>3 DEF Rest, Home
  <2>5. BeanEnds(h, i)
    BY <1>1, <2>2, <2>4 DEF Rest, BeanEnds
  <2> QED
    BY <2>5 DEF i, t
<1>2. ASSUME v \notin h.selected, v = BeanBtn(h)
      PROVE  BeanStarts(h, BeanInfo(ToggleBean(h, v), v))
  <2> DEFINE t == ToggleBean(h, v)
             i == BeanInfo(t, v)
  <2>1. t = [h EXCEPT !.selected = h.selected \cup {v}, !.activated = h.activated \ CupsOff(h)]
    BY <1>2 DEF ToggleBean
  <2>2. /\ Rest(h, t) /\ t.hot = h.hot /\ t.steam = h.steam /\ t.machine = h.machine
        /\ t.selected = h.selected \cup {v} /\ t.activated = h.activated \ CupsOff(h)
        /\ DOMAIN t = DOMAIN h
    BY <2>1 DEF Rest, Home
  <2>3. i = [t EXCEPT !.enough = FALSE, !.eq = "GRINDING", !.hotEnabled = FALSE,
                      !.machine = t.machine \cup {"POWDER"}]
    BY <2>2 DEF BeanInfo
  <2> HIDE DEF t, i
  <2>4. /\ Rest(t, i) /\ i.hot = t.hot /\ i.steam = t.steam
        /\ i.machine = t.machine \cup {"POWDER"} /\ ~i.hotEnabled
        /\ i.selected = t.selected /\ i.activated = t.activated /\ i.eq # "EXTRACT_DONE"
    BY <2>2, <2>3 DEF Rest, Home
  <2>5. BeanStarts(h, i)
    BY <1>2, <2>2, <2>4 DEF Rest, BeanStarts
  <2> QED
    BY <2>5 DEF i, t
<1> QED
  BY <1>1, <1>2

\* The tab handles the bean and the cup of its sizes.
LEMMA HandledButtons ==
    ASSUME NEW h, Mach(h)
    PROVE  /\ BeanBtn(h) \in Handled(h.group)
           /\ CupBtn(h) \in Cups => CupBtn(h) \in Handled(h.group)
           /\ h.group # "TEA"
<1>1. h.group \in CoffeeTabs /\ BeanBtn(h) \in Beans
  BY MachType DEF Mach, Coffee
<1> QED
  BY <1>1 DEF Handled, CoffeeTabs, BeanBtn, CupBtn, TwoSizes, Beans, Cups

\* Pressing the bean that grinds ends the grinding, whatever warnings there are.
LEMMA BeanStops ==
    ASSUME NEW h, Mach(h), "POWDER" \in h.machine, NEW flagged \in BOOLEAN
    PROVE  /\ BeanEnds(h, BeanClick(h, BeanBtn(h), flagged))
           /\ PressBean(h, flagged) = BeanClick(h, BeanBtn(h), flagged)
<1> DEFINE v == BeanBtn(h)
<1>1. v \in h.selected /\ v \in h.activated /\ v \in Beans /\ v \in Handled(h.group) /\ h \in Home
  BY HandledButtons, MachType DEF Mach, Drawn
<1>2. h.machine \cap {"HOT_WATER", "EXT"} = {}
  BY DEF Mach, Coffee, Single, Jobs
<1>3. BeanClick(h, v, flagged) = BeanInfo(ToggleBean(h, v), v)
  <2>1. ~Blocked(h, StopGrind, flagged, v \in h.selected)
    BY <1>1 DEF Blocked
  <2> QED
    BY <1>1, <1>2, <2>1 DEF BeanClick
<1>4. v = IF "bean1" \in h.selected THEN "bean1" ELSE "bean2"
  <2>1. \A x \in h.selected : x = v
    BY <1>2 DEF Mach, Drawn
  <2> QED
    BY <1>1, <2>1 DEF Beans
<1>5. PressBean(h, flagged) = BeanClick(h, v, flagged)
  <2> HIDE DEF v
  <2> QED
    BY <1>4 DEF PressBean
<1> QED
  BY <1>1, <1>3, <1>5, BeanFields

LEMMA BeanPressed ==
    ASSUME NEW h, Mach(h), "POWDER" \in h.machine, NEW flagged \in BOOLEAN
    PROVE  LET t == PressBean(h, flagged)
           IN  BeanEnds(h, t) /\ Proper(h, t) /\ t.machine \cap Jobs = {}
<1> DEFINE t == PressBean(h, flagged)
<1>1. BeanEnds(h, t)
  BY BeanStops
<1>2. Coffee(t)
  BY MachType, PressFine DEF Fine
<1> HIDE DEF t
<1>3. BeanEnds(h, t) /\ Proper(h, t) /\ t.machine \cap Jobs = {}
  BY <1>1, <1>2, BeanEndsMach DEF Proper, Counts, BeanEnds
<1> QED
  BY <1>3 DEF t

LEMMA BeanTapped ==
    ASSUME NEW h, Mach(h), h.shown, NEW v \in Beans, v \in h.activated => v = BeanBtn(h)
    PROVE  /\ Proper(h, BeanClick(h, v, FALSE))
           /\ h.pop = "none" => BeanClick(h, v, FALSE).pop # "LOST"
<1> DEFINE t == BeanClick(h, v, FALSE)
<1>1. Coffee(t)
  BY MachType, BeanClickFine DEF Fine
<1>2. CASE t = h
  BY <1>2, ProperSelf
<1>3. CASE t = ReWarn(h, StopGrind)
  BY <1>3, ReWarnProper
<1>4. CASE "POWDER" \in h.machine /\ v = BeanBtn(h)
  <2>1. BeanEnds(h, t)
    BY <1>4, BeanStops
  <2> HIDE DEF t
  <2>2. Proper(h, t) /\ t.pop = h.pop
    BY <1>1, <1>4, <2>1, BeanEndsMach DEF Proper, Counts, BeanEnds, Rest
  <2> QED
    BY <2>2 DEF t
<1>5. CASE /\ v = BeanBtn(h) /\ "POWDER" \notin h.machine /\ h.machine \cap {"HOT_WATER", "EXT"} = {}
           /\ t = BeanInfo(ToggleBean(h, v), v)
  <2>0. h \in Home /\ v \in Handled(h.group) /\ v \notin h.selected /\ h.machine \cap Jobs = {}
    <3>1. v # CupBtn(h) /\ h \in Home
      BY MachType
    <3> QED
      BY <1>5, <3>1, HandledButtons DEF Mach, Drawn, Jobs
  <2>1. BeanStarts(h, t)
    BY <1>5, <2>0, BeanFields
  <2> HIDE DEF t
  <2>2. Proper(h, t) /\ t.pop = h.pop
    BY <1>1, <2>0, <2>1, BeanStartsMach DEF Proper, Counts, BeanStarts, Rest
  <2> QED
    BY <2>2 DEF t
<1> QED
  BY <1>2, <1>3, <1>4, <1>5 DEF BeanClick

LEMMA CupFields ==
    ASSUME NEW h, h \in Home, NEW v \in Cups, v \in Handled(h.group), "A02" \notin h.warn
    PROVE  LET t == CupInfo(ToggleCup(h, v), v)
           IN  /\ v \in h.selected /\ v = CupBtn(h)
                     => CupEnds(h, t) /\ (t.eq = "EXTRACT_DONE" => "EXT" \notin h.machine)
               /\ v \notin h.selected /\ v = CupBtn(h) => CupStarts(h, t)
<1>1. ASSUME v \in h.selected, v = CupBtn(h)
      PROVE  LET t == CupInfo(ToggleCup(h, v), v)
             IN  CupEnds(h, t) /\ (t.eq = "EXTRACT_DONE" => "EXT" \notin h.machine)
  <2> DEFINE t == ToggleCup(h, v)
             i == CupInfo(t, v)
  <2>1. t = [h EXCEPT !.selected = h.selected \ {v}, !.activated = h.activated \cup BeanOf(h),
                      !.eq = IF "EXT" \in h.machine THEN "STANDBY" ELSE "EXTRACT_DONE",
                      !.machine = h.machine \ {"EXT"}]
    BY <1>1 DEF ToggleCup
  <2>2. /\ Rest(h, t) /\ t.hot = h.hot /\ t.steam = h.steam /\ t.machine = h.machine \ {"EXT"}
        /\ t.selected = h.selected \ {v} /\ t.activated = h.activated \cup BeanOf(h)
        /\ t.eq = (IF "EXT" \in h.machine THEN "STANDBY" ELSE "EXTRACT_DONE")
        /\ DOMAIN t = DOMAIN h
    BY <2>1 DEF Rest, Home
  <2> HIDE DEF t
  <2>3. i = [t EXCEPT !.hotEnabled = TRUE]
    <3>1. Remind(t) = t
      BY <2>2, RemindSelf DEF Rest
    <3> QED
      BY <2>2, <3>1 DEF CupInfo
  <2> HIDE DEF i
  <2>4. /\ Rest(t, i) /\ i.hot = t.hot /\ i.steam = t.steam
        /\ i.machine = t.machine /\ i.hotEnabled /\ i.eq = t.eq
        /\ i.selected = t.selected /\ i.activated = t.activated
    BY <2>2, <2>3 DEF Rest, Home
  <2>5. CupEnds(h, i) /\ (i.eq = "EXTRACT_DONE" => "EXT" \notin h.machine)
    BY <1>1, <2>2, <2>4 DEF Rest, CupEnds
  <2> QED
    BY <2>5 DEF i, t
<1>2. ASSUME v \notin h.selected, v = CupBtn(h)
      PROVE  CupStarts(h, CupInfo(ToggleCup(h, v), v))
  <2> DEFINE t == ToggleCup(h, v)
             i == CupInfo(t, v)
  <2>1. t = [h EXCEPT !.selected = h.selected \cup {v}, !.activated = h.activated \ BeansOff(h),
                      !.eq = "EXTRACTING", !.machine = h.machine \cup {"EXT"}]
    BY <1>2 DEF ToggleCup
  <2>2. /\ Rest(h, t) /\ t.hot = h.hot /\ t.steam = h.steam /\ t.machine = h.machine \cup {"EXT"}
        /\ t.selected = h.selected \cup {v} /\ t.activated = h.activated \ BeansOff(h)
        /\ t.eq = "EXTRACTING" /\ DOMAIN t = DOMAIN h
    BY <2>1 DEF Rest, Home
  <2>3. i = [t EXCEPT !.enough = FALSE, !.hotEnabled = FALSE]
    BY <2>2 DEF CupInfo
  <2> HIDE DEF t, i
  <2>4. /\ Rest(t, i) /\ i.hot = t.hot /\ i.steam = t.steam
        /\ i.machine = t.machine /\ ~i.hotEnabled /\ i.eq = t.eq
        /\ i.selected = t.selected /\ i.activated = t.activated
    BY <2>2, <2>3 DEF Rest, Home
  <2>5. CupStarts(h, i)
    BY <1>2, <2>2, <2>4 DEF Rest, CupStarts
  <2> QED
    BY <2>5 DEF i, t
<1> QED
  BY <1>1, <1>2

\* What a state in which the MCU has ended a job has in common with the one before.
LEMMA EndedAlike ==
    ASSUME NEW s, NEW t, NEW job, Mach(s), Ended(s, t, job)
    PROVE  /\ t.machine \subseteq s.machine /\ t.machine \ {job} = s.machine \ {job}
           /\ BeanBtn(t) = BeanBtn(s) /\ CupBtn(t) = CupBtn(s)
           /\ BeanOf(t) = BeanOf(s) /\ CupOf(t) = CupOf(s)
           /\ Handled(t.group) = Handled(s.group) /\ t.group # "TEA"
           /\ "A02" \notin t.warn
<1>1. Rest(s, t) /\ t.machine \in {s.machine, s.machine \ {job}}
  BY DEF Ended
<1>2. s.group # "TEA" /\ "A02" \notin s.warn
  BY MachType DEF Mach, NoReminder
<1> QED
  BY <1>1, <1>2 DEF Rest, BeanBtn, CupBtn, BeanOf, CupOf

\* Pressing the cup that brews ends the brew, before the MCU has ended it or after.
LEMMA CupStops ==
    ASSUME NEW k, Mach(k), "EXT" \in k.machine, NEW flagged \in BOOLEAN,
           NEW h, Coffee(h), Ended(k, h, "EXT")
    PROVE  LET t == CupClick(h, CupBtn(k), flagged)
           IN  /\ CupEnds(k, t) /\ (t.eq = "EXTRACT_DONE" => "EXT" \notin h.machine)
               /\ PressCup(h, flagged) = t
               /\ CupBtn(k) = IF "cup1" \in h.selected THEN "cup1" ELSE "cup2"
               /\ CupBtn(k) \in Cups /\ CupBtn(k) \in h.selected
<1> DEFINE v == CupBtn(k)
           t == CupClick(h, v, flagged)
<1>0. h \in Home /\ v \in Handled(h.group) /\ v \in Cups /\ h.group # "TEA" /\ "A02" \notin h.warn
  <2>1. h \in Home
    BY DEF Coffee, Safe
  <2>2. k.ready /\ k.shown
    BY DEF Mach, Runs
  <2>3. v \in Cups
    BY <2>2, SizesOf
  <2> QED
    BY <2>1, <2>3, EndedAlike, HandledButtons
<1>1. h.ready /\ v \in h.selected /\ v \in h.activated
  BY DEF Mach, Runs, Drawn, Ended, Rest
<1>2. h.machine \cap {"HOT_WATER", "POWDER"} = {} /\ k.machine \cap {"HOT_WATER", "POWDER"} = {}
  BY EndedAlike DEF Mach, Coffee, Single, Jobs
<1>3. t = CupInfo(ToggleCup(h, v), v)
  <2>1. ~Blocked(h, StopExt, flagged, v \in h.selected)
    BY <1>1 DEF Blocked
  <2> HIDE DEF v
  <2> QED
    BY <1>0, <1>1, <1>2, <2>1 DEF CupClick
<1>4. CupEnds(h, t) /\ (t.eq = "EXTRACT_DONE" => "EXT" \notin h.machine)
  <2>1. v = CupBtn(h)
    BY EndedAlike
  <2> HIDE DEF v
  <2> QED
    BY <1>0, <1>1, <1>3, <2>1, CupFields
<1>5. CupEnds(k, t)
  <2> HIDE DEF t
  <2> QED
    BY <1>4, EndedAlike DEF Ended, CupEnds, Rest
<1>6. \A x \in h.selected : x = v
  BY <1>2 DEF Mach, Drawn, Ended
<1>7. v = IF "cup1" \in h.selected THEN "cup1" ELSE "cup2"
  <2> HIDE DEF v
  <2> QED
    BY <1>0, <1>1, <1>6 DEF Cups
<1>8. "rebrew" \notin h.selected
  BY <1>0, <1>6 DEF Cups
<1>9. PressCup(h, flagged) = t
  <2> HIDE DEF v
  <2> QED
    BY <1>7, <1>8 DEF PressCup
<1> QED
  BY <1>0, <1>1, <1>4, <1>5, <1>7, <1>9

LEMMA CupPressed ==
    ASSUME NEW k, Mach(k), "EXT" \in k.machine, NEW flagged \in BOOLEAN,
           NEW h, Coffee(h), Ended(k, h, "EXT"), flagged => "EXT" \in h.machine
    PROVE  LET t == PressCup(h, flagged)
           IN  /\ CupEnds(k, t) /\ Mach(t) /\ t.machine \cap Jobs = {}
               /\ t.eq = "EXTRACT_DONE" => "EXT" \notin h.machine
<1> DEFINE t == PressCup(h, flagged)
<1>1. CupEnds(k, t) /\ (t.eq = "EXTRACT_DONE" => "EXT" \notin h.machine)
  BY CupStops
<1>2. Coffee(t)
  BY PressFine DEF Fine
<1> HIDE DEF t
<1>3. Mach(t) /\ t.machine \cap Jobs = {}
  BY <1>1, <1>2, CupEndsMach
<1> QED
  BY <1>1, <1>3 DEF t

LEMMA CupTapped ==
    ASSUME NEW h, Mach(h), h.shown, NEW v \in Cups, v \in h.activated => v = CupBtn(h)
    PROVE  /\ Proper(h, CupClick(h, v, FALSE))
           /\ h.pop = "none" => CupClick(h, v, FALSE).pop # "LOST"
<1> DEFINE t == CupClick(h, v, FALSE)
<1>1. Coffee(t)
  BY MachType, CupClickFine DEF Fine
<1>2. CASE t = h
  BY <1>2, ProperSelf
<1>3. CASE t = ReWarn(h, StopExt)
  BY <1>3, ReWarnProper
<1>4. CASE "EXT" \in h.machine /\ v = CupBtn(h)
  <2>1. CupEnds(h, t) /\ t.eq # "EXTRACT_DONE"
    BY <1>4, CupStops, EndedRest, MachType
  <2> HIDE DEF t
  <2>2. Proper(h, t) /\ t.pop = h.pop
    BY <1>1, <1>4, <2>1, CupEndsMach DEF Proper, Counts, CupEnds, Rest
  <2> QED
    BY <2>2 DEF t
<1>5. CASE /\ v = CupBtn(h) /\ "EXT" \notin h.machine /\ h.machine \cap {"HOT_WATER", "POWDER"} = {}
           /\ h.ready /\ t = CupInfo(ToggleCup(h, v), v)
  <2>0. /\ h \in Home /\ v \in Handled(h.group) /\ v \notin h.selected
        /\ h.machine \cap Jobs = {} /\ "A02" \notin h.warn
    <3>1. v # BeanBtn(h) /\ h \in Home
      BY MachType
    <3> QED
      BY <1>5, <3>1, HandledButtons DEF Mach, NoReminder, Drawn, Jobs
  <2>1. CupStarts(h, t)
    BY <1>5, <2>0, CupFields
  <2> HIDE DEF t
  <2>2. Proper(h, t) /\ t.pop = h.pop
    BY <1>1, <1>5, <2>0, <2>1, CupStartsMach DEF Proper, Counts, CupStarts, Rest
  <2> QED
    BY <2>2 DEF t
<1>6. h.group # "TEA"
  BY MachType
<1> QED
  BY <1>2, <1>3, <1>4, <1>5, <1>6 DEF CupClick

LEMMA HotFields ==
    ASSUME NEW h, h \in Home
    PROVE  LET t == HotToggled(h)
           IN  /\ h.hot /\ h.group \in TwoSizes
                     => HotEnds(h, t) /\ (t.eq = "EXTRACT_DONE" => "HOT_WATER" \notin h.machine)
               /\ ~h.hot => HotStarts(h, t)
<1> DEFINE t == HotToggled(h)
<1>1. ASSUME h.hot, h.group \in TwoSizes
      PROVE  HotEnds(h, t) /\ (t.eq = "EXTRACT_DONE" => "HOT_WATER" \notin h.machine)
  <2>1. t = [h EXCEPT !.hot = FALSE,
                      !.activated = h.activated \cup CupOf(h) \cup BeanOf(h),
                      !.eq = IF "HOT_WATER" \in h.machine THEN "STANDBY" ELSE "EXTRACT_DONE",
                      !.machine = h.machine \ {"HOT_WATER"}]
    BY <1>1 DEF HotToggled
  <2> HIDE DEF t
  <2>2. /\ Rest(h, t) /\ t.steam = h.steam /\ t.machine = h.machine \ {"HOT_WATER"}
        /\ t.hotEnabled = h.hotEnabled /\ t.selected = h.selected
        /\ t.activated = h.activated \cup CupOf(h) \cup BeanOf(h)
        /\ t.eq = IF "HOT_WATER" \in h.machine THEN "STANDBY" ELSE "EXTRACT_DONE"
    BY <2>1 DEF Rest, Home
  <2>3. ~t.hot
    BY <2>1 DEF Home
  <2> QED
    BY <2>2, <2>3 DEF HotEnds
<1>2. ASSUME ~h.hot
      PROVE  HotStarts(h, t)
  <2>1. t = [h EXCEPT !.hot = TRUE, !.activated = h.activated \ (Beans \cup Cups),
                      !.eq = "EXTRACTING", !.machine = h.machine \cup {"HOT_WATER"}]
    BY <1>2 DEF HotToggled
  <2> HIDE DEF t
  <2>2. /\ Rest(h, t) /\ t.steam = h.steam /\ t.machine = h.machine \cup {"HOT_WATER"}
        /\ t.hotEnabled = h.hotEnabled /\ t.selected = h.selected
        /\ t.activated = h.activated \ (Beans \cup Cups) /\ t.eq = "EXTRACTING"
    BY <2>1 DEF Rest, Home
  <2>3. t.hot
    BY <2>1 DEF Home
  <2> QED
    BY <2>2, <2>3 DEF HotStarts
<1> QED
  BY <1>1, <1>2

LEMMA HotPressed ==
    ASSUME NEW k, Mach(k), "HOT_WATER" \in k.machine, NEW flagged \in BOOLEAN,
           NEW h, Coffee(h), Ended(k, h, "HOT_WATER"), flagged => "HOT_WATER" \in h.machine
    PROVE  LET t == HotClick(h, flagged)
           IN  /\ HotEnds(k, t) /\ Mach(t) /\ t.machine \cap Jobs = {} /\ h.hot
               /\ t.eq = "EXTRACT_DONE" => "HOT_WATER" \notin h.machine
<1> DEFINE t == HotClick(h, flagged)
<1>0. h \in Home
  BY DEF Coffee, Safe
<1>1. h.ready /\ h.hot /\ h.group \in TwoSizes
  BY DEF Mach, Runs, Drawn, Ended, Rest
<1>2. h.machine \cap {"POWDER", "EXT"} = {}
  BY EndedAlike DEF Mach, Coffee, Single, Jobs
<1>3. t = HotToggled(h)
  <2>1. ~Blocked(h, StopHotWater, flagged, h.hot)
    BY <1>1 DEF Blocked
  <2> QED
    BY <1>1, <1>2, <2>1 DEF HotClick
<1>4. HotEnds(h, t) /\ (t.eq = "EXTRACT_DONE" => "HOT_WATER" \notin h.machine)
  BY <1>0, <1>1, <1>3, HotFields
<1>5. Coffee(t)
  BY HotClickFine DEF Fine
<1> HIDE DEF t
<1>6. HotEnds(k, t)
  BY <1>4, EndedAlike DEF Ended, HotEnds, Rest
<1>7. Mach(t) /\ t.machine \cap Jobs = {}
  BY <1>5, <1>6, HotEndsMach
<1> QED
  BY <1>1, <1>4, <1>6, <1>7 DEF t

LEMMA HotTapped ==
    ASSUME NEW h, Mach(h), h.shown, h.group \in TwoSizes
    PROVE  /\ Proper(h, HotClick(h, FALSE))
           /\ h.pop = "none" => HotClick(h, FALSE).pop # "LOST"
<1> DEFINE t == HotClick(h, FALSE)
<1>0. Coffee(h) /\ h \in Home
  BY MachType
<1>1. Coffee(t)
  BY <1>0, HotClickFine DEF Fine
<1>2. CASE t = h
  BY <1>2, ProperSelf
<1>3. CASE t = ReWarn(h, StopHotWater)
  BY <1>3, ReWarnProper
<1>4. CASE "HOT_WATER" \in h.machine
  <2>1. HotEnds(h, t) /\ Mach(t) /\ t.eq # "EXTRACT_DONE"
    BY <1>0, <1>4, HotPressed, EndedRest
  <2> HIDE DEF t
  <2>2. Proper(h, t) /\ t.pop = h.pop
    BY <2>1 DEF Proper, Counts, HotEnds, Rest
  <2> QED
    BY <2>2 DEF t
<1>5. CASE /\ "HOT_WATER" \notin h.machine /\ h.machine \cap {"POWDER", "EXT"} = {}
           /\ h.ready /\ t = HotToggled(h)
  <2>0. ~h.hot /\ h.machine \cap Jobs = {}
    BY <1>5 DEF Mach, Drawn, Jobs
  <2>1. HotStarts(h, t)
    BY <1>0, <1>5, <2>0, HotFields
  <2> HIDE DEF t
  <2>2. Proper(h, t) /\ t.pop = h.pop
    BY <1>1, <1>5, <2>0, <2>1, HotStartsMach DEF Proper, Counts, HotStarts, Rest
  <2> QED
    BY <2>2 DEF t
<1> QED
  BY <1>2, <1>3, <1>4, <1>5 DEF HotClick

LEMMA SteamFields ==
    ASSUME NEW h, h \in Home
    PROVE  LET t == [h EXCEPT !.steam = ~h.steam,
                              !.machine = IF h.steam THEN h.machine \ {"STEAM"}
                                                     ELSE h.machine \cup {"STEAM"}]
           IN  IF h.steam THEN SteamEnds(h, t) ELSE SteamStarts(h, t)
<1>1. ASSUME NEW b \in BOOLEAN, NEW m
      PROVE  LET t == [h EXCEPT !.steam = b, !.machine = m]
             IN  /\ Rest(h, t) /\ t.hot = h.hot /\ t.machine = m
                 /\ t.hotEnabled = h.hotEnabled /\ t.eq = h.eq
                 /\ t.selected = h.selected /\ t.activated = h.activated
  BY DEF Rest, Home
<1>2. \A b \in BOOLEAN : \A m : [h EXCEPT !.steam = b, !.machine = m].steam = b
  BY DEF Home
<1> DEFINE b == ~h.steam
           m == IF h.steam THEN h.machine \ {"STEAM"} ELSE h.machine \cup {"STEAM"}
           t == [h EXCEPT !.steam = b, !.machine = m]
<1>3. b \in BOOLEAN
  OBVIOUS
<1>4. t.steam = b
  <2> HIDE DEF b, m
  <2> QED
    BY <1>2, <1>3
<1>5. /\ Rest(h, t) /\ t.hot = h.hot /\ t.machine = m
      /\ t.hotEnabled = h.hotEnabled /\ t.eq = h.eq
      /\ t.selected = h.selected /\ t.activated = h.activated
  <2> HIDE DEF b, m
  <2> QED
    BY <1>1, <1>3
<1> HIDE DEF t
<1>6. IF h.steam THEN SteamEnds(h, t) ELSE SteamStarts(h, t)
  BY <1>4, <1>5 DEF SteamEnds, SteamStarts
<1> QED
  BY <1>6 DEF t

LEMMA SteamPressed ==
    ASSUME NEW k, Mach(k), "STEAM" \in k.machine, NEW flagged \in BOOLEAN,
           NEW h, Coffee(h), Ended(k, h, "STEAM"), flagged => "STEAM" \in h.machine
    PROVE  LET t == SteamClick(h, flagged)
           IN  SteamEnds(k, t) /\ Proper(k, t)
<1> DEFINE t == SteamClick(h, flagged)
<1>0. h \in Home
  BY DEF Coffee, Safe
<1>1. h.ready /\ h.steam
  BY DEF Mach, Runs, Drawn, Ended, Rest
<1>2. t = [h EXCEPT !.steam = ~h.steam, !.machine = IF h.steam THEN h.machine \ {"STEAM"}
                                                               ELSE h.machine \cup {"STEAM"}]
  <2>1. ~Blocked(h, StopSteam, flagged, h.steam)
    BY <1>1 DEF Blocked
  <2> QED
    BY <1>1, <2>1 DEF SteamClick
<1>3. SteamEnds(h, t)
  <2>1. IF h.steam THEN SteamEnds(h, t) ELSE SteamStarts(h, t)
    BY <1>0, <1>2, SteamFields
  <2> QED
    BY <1>1, <2>1
<1>4. Coffee(t)
  BY SteamClickFine DEF Fine
<1> HIDE DEF t
<1>5. SteamEnds(k, t)
  BY <1>3, EndedAlike DEF Ended, SteamEnds, Rest
<1>6. Mach(t)
  BY <1>4, <1>5, SteamMach
<1>7. t.eq = k.eq
  BY <1>5, Zenon DEF SteamEnds
<1>8. Proper(k, t)
  BY <1>6, <1>7 DEF Proper, Counts
<1> QED
  BY <1>5, <1>8 DEF t

LEMMA SteamTapped ==
    ASSUME NEW h, Mach(h), h.shown
    PROVE  /\ Proper(h, SteamClick(h, FALSE))
           /\ h.pop = "none" => SteamClick(h, FALSE).pop # "LOST"
<1> DEFINE t == SteamClick(h, FALSE)
           x == [h EXCEPT !.steam = ~h.steam, !.machine = IF h.steam THEN h.machine \ {"STEAM"}
                                                                     ELSE h.machine \cup {"STEAM"}]
<1>0. Coffee(h) /\ h \in Home
  BY MachType
<1>1. Coffee(t)
  BY <1>0, SteamClickFine DEF Fine
<1>2. CASE t = h
  BY <1>2, ProperSelf
<1>3. CASE t = ReWarn(h, StopSteam)
  BY <1>3, ReWarnProper
<1>4. CASE h.ready /\ t = x
  <2>1. SteamEnds(h, t) \/ SteamStarts(h, t)
    <3>1. IF h.steam THEN SteamEnds(h, x) ELSE SteamStarts(h, x)
      BY <1>0, SteamFields
    <3> HIDE DEF x
    <3> QED
      BY <1>4, <3>1
  <2> HIDE DEF t, x
  <2>2. Proper(h, t) /\ t.pop = h.pop
    BY <1>1, <1>4, <2>1, SteamMach DEF Proper, Counts, SteamEnds, SteamStarts, Rest
  <2> QED
    BY <2>2 DEF t
<1> QED
  BY <1>2, <1>3, <1>4 DEF SteamClick
-----------------------------------------------------------------------------
(* Warnings that end a job.                                                *)

Stopped(s, t) == Proper(s, t) /\ Rest(s, t) /\ t.machine \cap Jobs = {}

LEMMA RestChain ==
    ASSUME NEW r, NEW s, NEW t, Rest(r, s), Rest(s, t)
    PROVE  Rest(r, t)
  BY DEF Rest

\* The button that the page presses itself ends the job it is drawn for.
LEMMA JobStopped ==
    ASSUME NEW h, Mach(h), NEW flagged \in BOOLEAN
    PROVE  /\ "POWDER" \in h.machine => Stopped(h, PressBean(h, flagged))
           /\ "EXT" \in h.machine =>
                 /\ Stopped(h, PressCup(h, flagged))
                 /\ PressCup(h, flagged)
                      = CupClick(h, IF "cup1" \in h.selected THEN "cup1" ELSE "cup2", flagged)
           /\ "HOT_WATER" \in h.machine => h.hot /\ Stopped(h, HotClick(h, flagged))
<1>0. Coffee(h) /\ \A job : Ended(h, h, job)
  BY MachType, EndedRest
<1>1. "POWDER" \in h.machine => Stopped(h, PressBean(h, flagged))
  BY BeanPressed DEF Stopped, BeanEnds
<1>2. ASSUME "EXT" \in h.machine
      PROVE  /\ Stopped(h, PressCup(h, flagged))
             /\ PressCup(h, flagged)
                  = CupClick(h, IF "cup1" \in h.selected THEN "cup1" ELSE "cup2", flagged)
  <2> DEFINE t == PressCup(h, flagged)
  <2>1. CupEnds(h, t) /\ Mach(t) /\ t.machine \cap Jobs = {} /\ t.eq # "EXTRACT_DONE"
    BY <1>0, <1>2, CupPressed
  <2>2. t = CupClick(h, IF "cup1" \in h.selected THEN "cup1" ELSE "cup2", flagged)
    BY <1>0, <1>2, CupStops
  <2> HIDE DEF t
  <2>3. Stopped(h, t)
    BY <2>1 DEF Stopped, Proper, Counts, CupEnds
  <2> QED
    BY <2>2, <2>3 DEF t
<1>3. ASSUME "HOT_WATER" \in h.machine
      PROVE  h.hot /\ Stopped(h, HotClick(h, flagged))
  <2> DEFINE t == HotClick(h, flagged)
  <2>1. HotEnds(h, t) /\ Mach(t) /\ t.machine \cap Jobs = {} /\ t.eq # "EXTRACT_DONE" /\ h.hot
    BY <1>0, <1>3, HotPressed
  <2> HIDE DEF t
  <2>2. Stopped(h, t)
    BY <2>1 DEF Stopped, Proper, Counts, HotEnds
  <2> QED
    BY <2>1, <2>2 DEF t
<1> QED
  BY <1>1, <1>2, <1>3

LEMMA StopForFaultStops ==
    ASSUME NEW h, Mach(h)
    PROVE  /\ Proper(h, StopForFault(h)) /\ Rest(h, StopForFault(h))
           /\ StopForFault(h).machine = {}
<1> DEFINE x == PressBean(h, TRUE)
           y == PressCup(h, TRUE)
           z == HotClick(h, TRUE)
           p == CASE "POWDER" \in h.machine -> x
                  [] "POWDER" \notin h.machine /\ "EXT" \in h.machine -> y
                  [] h.machine \cap Jobs = {"HOT_WATER"} -> z
                  [] OTHER -> h
           q == SteamClick(p, TRUE)
<1>1. Stopped(h, p)
  <2>1. "POWDER" \in h.machine => Stopped(h, x)
    BY JobStopped
  <2>2. "EXT" \in h.machine => Stopped(h, y)
    BY JobStopped
  <2>3. "HOT_WATER" \in h.machine => Stopped(h, z)
    BY JobStopped
  <2>4. h.machine \cap Jobs = {} => Stopped(h, h)
    BY ProperSelf DEF Stopped, Rest
  <2>5. \/ p = x /\ "POWDER" \in h.machine
        \/ p = y /\ "EXT" \in h.machine
        \/ p = z /\ "HOT_WATER" \in h.machine
        \/ p = h /\ h.machine \cap Jobs = {}
    <3> HIDE DEF x, y, z
    <3>1. h.machine \cap Jobs \in {{}, {"HOT_WATER"}} \/ "POWDER" \in h.machine \/ "EXT" \in h.machine
      BY DEF Jobs
    <3> QED
      BY <3>1
  <2> HIDE DEF x, y, z, p
  <2> QED
    BY <2>1, <2>2, <2>3, <2>4, <2>5
<1>2. StopForFault(h) = IF "STEAM" \in p.machine THEN q ELSE p
  BY DEF StopForFault
<1> HIDE DEF p
<1>3. Mach(p) /\ Coffee(p) /\ p.machine \subseteq Jobs \cup {"STEAM"} /\ Ended(p, p, "STEAM")
  <2>1. Mach(p)
    BY <1>1 DEF Stopped, Proper
  <2>2. Coffee(p) /\ p \in Home
    BY <2>1, MachType
  <2>3. p.machine \subseteq Jobs \cup {"STEAM"}
    BY <2>2 DEF Home
  <2> QED
    BY <2>1, <2>2, <2>3, EndedRest
<1>4. "STEAM" \in p.machine => SteamEnds(p, q) /\ Proper(p, q)
  BY <1>3, SteamPressed
<1> HIDE DEF q
<1>5. CASE "STEAM" \in p.machine
  <2>1. Proper(h, q)
    BY <1>1, <1>4, <1>5, ProperChain DEF Stopped
  <2>2. Rest(h, q)
    BY <1>1, <1>4, <1>5, RestChain DEF Stopped, SteamEnds
  <2>3. q.machine = p.machine \ {"STEAM"}
    BY <1>4, <1>5 DEF SteamEnds
  <2>4. q.machine = {}
    BY <1>1, <1>3, <2>3 DEF Stopped
  <2> QED
    BY <1>2, <1>5, <2>1, <2>2, <2>4
<1>6. CASE "STEAM" \notin p.machine
  <2>1. p.machine = {}
    BY <1>1, <1>3, <1>6 DEF Stopped
  <2> QED
    BY <1>1, <1>2, <1>6, <2>1 DEF Stopped
<1> QED
  BY <1>5, <1>6

LEMMA PausingProper ==
    ASSUME NEW h, Mach(h), NEW p \in BOOLEAN
    PROVE  LET t == [h EXCEPT !.pausing = p]
           IN  /\ Proper(h, t) /\ t.pop = h.pop /\ t.machine = h.machine
               /\ t.warn = h.warn /\ t.dealt = h.dealt
<1> DEFINE t == [h EXCEPT !.pausing = p]
<1>1. Coffee(h) /\ h \in Home
  BY MachType
<1>2. Coffee(t)
  BY <1>1, PausingFine DEF Fine
<1>3. Same(h, t) /\ t.eq = h.eq /\ NoReminder(t)
  BY <1>1 DEF Same, Home, Mach, NoReminder
<1>4. t.pop = h.pop /\ t.warn = h.warn /\ t.dealt = h.dealt
  BY <1>1 DEF Home
<1> HIDE DEF t
<1>5. Proper(h, t) /\ t.machine = h.machine
  BY <1>2, <1>3, SameMach DEF Proper, Counts, Same
<1> QED
  BY <1>4, <1>5 DEF t

\* A fault stops the work; the warnings themselves are left to the user.
LEMMA DealWarnStops ==
    ASSUME NEW h, Mach(h)
    PROVE  /\ Proper(h, DealWarn(h))
           /\ DealWarn(h).pop = h.pop
           /\ Undealt(DealWarn(h)) = Undealt(h)
           /\ Undealt(h) \cap NeedStop # {} => DealWarn(h).machine = {}
<1> DEFINE e == Undealt(h) \cap Pausing # {}
           s == [h EXCEPT !.pausing = e]
           t == [h EXCEPT !.pausing = FALSE]
           u == StopForFault(t)
<1>1. /\ Proper(h, s) /\ s.pop = h.pop /\ s.warn = h.warn /\ s.dealt = h.dealt
      /\ Mach(t) /\ Proper(h, t) /\ t.pop = h.pop /\ t.warn = h.warn /\ t.dealt = h.dealt
  <2>1. e \in BOOLEAN
    OBVIOUS
  <2> HIDE DEF e
  <2> QED
    BY <2>1, PausingProper DEF Proper
<1>2. DealWarn(h) = IF Undealt(h) \cap NeedStop = {} THEN s ELSE u
  BY DEF DealWarn
<1> HIDE DEF s, t
<1>3. /\ Proper(h, u) /\ u.machine = {}
      /\ u.pop = h.pop /\ u.warn = h.warn /\ u.dealt = h.dealt
  <2>1. Proper(t, u) /\ Rest(t, u) /\ u.machine = {}
    BY <1>1, StopForFaultStops
  <2> HIDE DEF u
  <2> QED
    BY <1>1, <2>1, ProperChain DEF Rest
<1> HIDE DEF u
<1> QED
  BY <1>1, <1>2, <1>3 DEF Undealt

\* The last warning is confirmed: work that was paused for it ends.
LEMMA WarnClosedStops ==
    ASSUME NEW h, Mach(h)
    PROVE  /\ Proper(h, WarnClosed(h))
           /\ h.pop # "LOST" => WarnClosed(h).pop # "LOST"
           /\ h.shown /\ h.pausing => WarnClosed(h).machine \cap Jobs = {}
<1> DEFINE w == PressBean(h, FALSE)
           x == PressCup(h, FALSE)
           y == CupClick(h, IF "cup1" \in h.selected THEN "cup1" ELSE "cup2", FALSE)
           z == HotClick(h, FALSE)
           p == CASE ~(h.shown /\ h.pausing) -> h
                  [] OTHER ->
                     CASE "POWDER" \in h.machine -> w
                       [] "POWDER" \notin h.machine /\ "EXT" \in h.machine ->
                             IF h.group = "TEA" THEN StopTea(h) ELSE y
                       [] h.machine \cap Jobs = {"HOT_WATER"} -> z
                       [] OTHER -> h
           q == IF p.pop = "LOST" THEN p ELSE WarnGone(p)
           e == IF h.shown THEN FALSE ELSE q.pausing
           t == [q EXCEPT !.pausing = e]
<1>1. Proper(h, p) /\ p.pop = h.pop /\ (h.shown /\ h.pausing => p.machine \cap Jobs = {})
  <2>1. "POWDER" \in h.machine => Stopped(h, w)
    BY JobStopped
  <2>2. "EXT" \in h.machine => Stopped(h, y)
    BY JobStopped
  <2>3. "HOT_WATER" \in h.machine => Stopped(h, z)
    BY JobStopped
  <2>4. Proper(h, h) /\ Rest(h, h)
    BY ProperSelf DEF Rest
  <2>5. \/ p = h /\ ~(h.shown /\ h.pausing)
        \/ p = w /\ "POWDER" \in h.machine
        \/ p = y /\ "EXT" \in h.machine
        \/ p = z /\ "HOT_WATER" \in h.machine
        \/ p = h /\ h.machine \cap Jobs = {}
    <3> HIDE DEF w, y, z
    <3>1. h.machine \cap Jobs \in {{}, {"HOT_WATER"}} \/ "POWDER" \in h.machine \/ "EXT" \in h.machine
      BY DEF Jobs
    <3>2. h.group # "TEA"
      BY MachType
    <3> QED
      BY <3>1, <3>2
  <2> HIDE DEF w, y, z, p
  <2> QED
    BY <2>1, <2>2, <2>3, <2>4, <2>5 DEF Stopped, Rest
<1> HIDE DEF p
<1>2. /\ Mach(q) /\ Proper(p, q) /\ q.machine = p.machine
      /\ h.pop # "LOST" => q.pop # "LOST"
  <2>1. Mach(p) /\ p \in Home
    BY <1>1, MachType DEF Proper
  <2>2. Proper(p, p) /\ Proper(p, WarnGone(p))
    BY <2>1, ProperSelf, WarnProper
  <2>3. WarnGone(p).machine = p.machine /\ WarnGone(p).pop = "none"
    BY <2>1 DEF WarnGone, Home
  <2> QED
    BY <1>1, <2>2, <2>3 DEF Proper
<1>3. e \in BOOLEAN
  <2>1. q.pausing \in BOOLEAN
    BY <1>2, MachType DEF Home
  <2> HIDE DEF q
  <2> QED
    BY <2>1
<1> HIDE DEF q, e
<1>4. Proper(q, t) /\ t.machine = q.machine /\ t.pop = q.pop
  BY <1>2, <1>3, PausingProper
<1>5. WarnClosed(h) = t
  BY DEF WarnClosed, p, q, e
<1> HIDE DEF t
<1> QED
  BY <1>1, <1>2, <1>4, <1>5, ProperChain
-----------------------------------------------------------------------------
(* The tab shown.                                                          *)

\* No job runs.
Calm(h) ==
    /\ Coffee(h) /\ NoReminder(h)
    /\ h.machine \cap Jobs = {} /\ h.selected = {}
    /\ ~h.hot
    /\ "STEAM" \in h.machine <=> h.steam
    /\ h.machine # {} => h.ready /\ h.shown

\* The sizes agree with the buttons that react.
BeanRight(h) ==
    /\ BeanBtn(h) \in h.activated
    /\ h.group \in TwoSizes => h.activated \cap Beans \subseteq {h.beanItem}

CupRight(h) ==
    /\ h.ready => CupBtn(h) \in Cups /\ CupBtn(h) \in h.activated
    /\ h.group \in TwoSizes => h.activated \cap Cups \subseteq {h.cupItem}

\* What the tab's own operators leave alone.
Stays(s, t) ==
    /\ t.shown = s.shown /\ t.machine = s.machine /\ t.selected = s.selected
    /\ t.hot = s.hot /\ t.steam = s.steam /\ t.hotEnabled = s.hotEnabled
    /\ t.ready = s.ready /\ t.warn = s.warn /\ t.listed = s.listed
    /\ t.asked = s.asked /\ t.pop = s.pop /\ t.eq = s.eq

LEMMA CalmMach ==
    ASSUME NEW h, Calm(h), BeanRight(h), CupRight(h)
    PROVE  Mach(h)
<1>1. Drawn(h)
  BY DEF Calm, Drawn, Jobs
<1>2. Runs(h)
  BY DEF Calm, Runs, Jobs
<1>3. Sized(h) /\ Reacts(h)
  BY DEF BeanRight, CupRight, Sized, Reacts
<1> QED
  BY <1>1, <1>2, <1>3 DEF Calm, Mach

LEMMA MachCalm ==
    ASSUME NEW h, Mach(h), h.machine \cap Jobs = {}
    PROVE  Calm(h) /\ BeanRight(h) /\ (h.shown => CupRight(h))
<1>1. h.machine \subseteq {"STEAM"}
  BY MachType DEF Home, Jobs
<1>2. Calm(h)
  BY <1>1 DEF Mach, Drawn, Runs, Calm, Jobs
<1>3. BeanRight(h)
  BY <1>1 DEF Mach, Sized, Reacts, BeanRight
<1>4. h.shown => CupRight(h)
  BY DEF Mach, Sized, Reacts, CupRight
<1> QED
  BY <1>2, <1>3, <1>4

LEMMA CalmStays ==
    ASSUME NEW s, NEW t, Calm(s), Coffee(t), Stays(s, t)
    PROVE  Calm(t) /\ Counts(s, t)
  BY DEF Calm, Stays, NoReminder, Counts

LEMMA StaysChain ==
    ASSUME NEW r, NEW s, NEW t, Stays(r, s), Stays(s, t)
    PROVE  Stays(r, t)
  BY DEF Stays

\* The cups of the tab react as the size and the heating say, unless a brew is under way.
LEMMA CupsFields ==
    ASSUME NEW h, h \in Home, h.group # "TEA", NEW c \in Cups
    PROVE  LET t == CupsUpdated(h, c)
           IN  /\ Stays(h, t) /\ t.group = h.group /\ t.beanItem = h.beanItem
               /\ t.cupItem = IF h.group \in TwoSizes THEN IF h.ready THEN c ELSE "none"
                              ELSE h.cupItem
               /\ h.ready /\ Brewing(h) => t.activated = h.activated
               /\ ~(h.ready /\ Brewing(h)) =>
                     t.activated = (IF h.group \in TwoSizes
                                    THEN (h.activated \ Cups) \cup (IF h.ready THEN {c} ELSE {})
                                    ELSE (h.activated \ {"cup1"}) \cup (IF h.ready THEN {"cup1"} ELSE {}))
<1> DEFINE x == IF h.group \in TwoSizes THEN IF h.ready THEN c ELSE "none" ELSE h.cupItem
           a == IF h.ready /\ Brewing(h) THEN h.activated
                ELSE IF h.group \in TwoSizes
                THEN (h.activated \ Cups) \cup (IF h.ready THEN {c} ELSE {})
                ELSE (h.activated \ {"cup1"}) \cup (IF h.ready THEN {"cup1"} ELSE {})
           t == CupsUpdated(h, c)
<1>1. t = [h EXCEPT !.cupItem = x, !.activated = a]
  <2>1. CASE h.group \in TwoSizes
    <3>1. CASE h.ready
      BY <2>1, <3>1 DEF CupsUpdated
    <3>2. CASE ~h.ready
      BY <2>1, <3>2 DEF CupsUpdated
    <3> QED
      BY <3>1, <3>2
  <2>2. CASE h.group \notin TwoSizes
    <3>1. CASE h.ready
      BY <2>2, <3>1 DEF CupsUpdated
    <3>2. CASE ~h.ready
      BY <2>2, <3>2 DEF CupsUpdated
    <3> QED
      BY <3>1, <3>2
  <2> QED
    BY <2>1, <2>2
<1> HIDE DEF x, a, t
<1>2. Stays(h, t) /\ t.group = h.group /\ t.beanItem = h.beanItem /\ t.cupItem = x /\ t.activated = a
  BY <1>1 DEF Stays, Home
<1> QED
  BY <1>2 DEF x, a, t

LEMMA CupsUpdatedRight ==
    ASSUME NEW h, Calm(h), NEW c \in Cups
    PROVE  LET t == CupsUpdated(h, c)
           IN  /\ Calm(t) /\ Stays(h, t) /\ CupRight(t) /\ t.group = h.group
               /\ BeanRight(h) => BeanRight(t)
<1> DEFINE t == CupsUpdated(h, c)
<1>0. h \in Home /\ h.group \in CoffeeTabs /\ h.group # "TEA" /\ Safe(h) /\ Coffee(h)
  BY DEF Calm, Coffee, Safe, CoffeeTabs
<1>1. Coffee(t)
  BY <1>0, CupsUpdatedShows, ShowsFine DEF Fine
<1>2. ~Brewing(h)
  BY DEF Calm, Brewing, Jobs
<1>3. /\ Stays(h, t) /\ t.group = h.group /\ t.beanItem = h.beanItem
      /\ t.cupItem = (IF h.group \in TwoSizes THEN IF h.ready THEN c ELSE "none" ELSE h.cupItem)
      /\ t.activated = (IF h.group \in TwoSizes
                        THEN (h.activated \ Cups) \cup (IF h.ready THEN {c} ELSE {})
                        ELSE (h.activated \ {"cup1"}) \cup (IF h.ready THEN {"cup1"} ELSE {}))
  BY <1>0, <1>2, CupsFields
<1> HIDE DEF t
<1>4. Calm(t)
  BY <1>1, <1>3, CalmStays
<1>5. CupRight(t)
  BY <1>3 DEF Stays, CupRight, CupBtn, Cups
<1>6. BeanRight(h) => BeanRight(t)
  <2>1. BeanBtn(h) \in Beans /\ Beans \cap Cups = {}
    BY <1>0 DEF Home, BeanBtn, Beans, Cups
  <2>2. BeanBtn(t) = BeanBtn(h)
    BY <1>3 DEF BeanBtn
  <2>3. t.activated \cap Beans = h.activated \cap Beans
    BY <1>3 DEF Beans, Cups
  <2> QED
    BY <1>3, <2>1, <2>2, <2>3 DEF BeanRight
<1> QED
  BY <1>3, <1>4, <1>5, <1>6 DEF t

LEMMA PreheatedRight ==
    ASSUME NEW h, Calm(h), h.machine = {}, NEW c \in Cups
    PROVE  LET t == Preheated(h, c)
           IN  /\ Calm(t) /\ Stays(h, t) /\ CupRight(t) /\ t.group = h.group
               /\ BeanRight(h) => BeanRight(t)
<1> DEFINE up == CupsUpdated(h, c)
           x == [up EXCEPT !.hot = FALSE, !.steam = FALSE]
<1>1. /\ Calm(up) /\ Stays(h, up) /\ CupRight(up) /\ up.group = h.group
      /\ BeanRight(h) => BeanRight(up)
  BY CupsUpdatedRight
<1>2. x = up
  <2> HIDE DEF up
  <2>1. up \in Home
    BY <1>1 DEF Calm, Coffee, Safe
  <2>2. up.hot = FALSE /\ up.steam = FALSE
    <3>1. up.hot \in BOOLEAN /\ up.steam \in BOOLEAN
      BY <2>1 DEF Home
    <3>2. up.machine = {}
      BY <1>1 DEF Stays
    <3> QED
      BY <1>1, <3>1, <3>2 DEF Calm
  <2>3. \A u \in Home : [u EXCEPT !.hot = u.hot, !.steam = u.steam] = u
    BY DEF Home
  <2> QED
    BY <2>1, <2>2, <2>3
<1>3. Preheated(h, c) = up
  BY <1>2 DEF Preheated
<1> HIDE DEF up
<1> QED
  BY <1>1, <1>3

LEMMA BeanItemMach ==
    ASSUME NEW h, Calm(h), CupRight(h), h.group \in TwoSizes, NEW b \in Beans
    PROVE  LET t == [h EXCEPT !.beanItem = b, !.activated = (h.activated \ Beans) \cup {b}]
           IN  Calm(t) /\ Stays(h, t) /\ Mach(t)
<1> DEFINE a == (h.activated \ Beans) \cup {b}
           t == [h EXCEPT !.beanItem = b, !.activated = a]
<1>0. h \in Home /\ Safe(h) /\ Coffee(h)
  BY DEF Calm, Coffee, Safe
<1>1. Coffee(t)
  BY <1>0, BeanItemShows, ShowsFine DEF Fine
<1>2. /\ Stays(h, t) /\ t.group = h.group /\ t.cupItem = h.cupItem
      /\ t.beanItem = b /\ t.activated = a
  BY <1>0 DEF Stays, Home
<1> HIDE DEF t
<1>3. Calm(t)
  BY <1>1, <1>2, CalmStays
<1>4. BeanRight(t)
  BY <1>2 DEF BeanRight, BeanBtn
<1>5. CupRight(t)
  BY <1>2 DEF CupRight, CupBtn, Stays, Beans, Cups
<1>6. Mach(t)
  BY <1>3, <1>4, <1>5, CalmMach
<1> QED
  BY <1>2, <1>3, <1>6 DEF t

LEMMA GroupDataMach ==
    ASSUME NEW h, Calm(h), h.machine = {}, NEW b \in Beans, NEW c \in Cups
    PROVE  LET t == GroupData(h, b, c)
           IN  Calm(t) /\ Stays(h, t) /\ Mach(t)
<1>0. h.group \in CoffeeTabs /\ h.group # "TEA"
  BY DEF Calm, Coffee, CoffeeTabs
<1>1. CASE h.group \in TwoSizes
  <2> DEFINE up == Preheated(h, c)
             t == [up EXCEPT !.beanItem = b, !.activated = (up.activated \ Beans) \cup {b}]
  <2>1. Calm(up) /\ Stays(h, up) /\ CupRight(up) /\ up.group = h.group
    BY PreheatedRight
  <2>2. GroupData(h, b, c) = t
    BY <1>1 DEF GroupData, TwoSizes
  <2> HIDE DEF up
  <2>3. Calm(t) /\ Stays(up, t) /\ Mach(t)
    BY <1>1, <2>1, BeanItemMach
  <2> HIDE DEF t
  <2> QED
    BY <2>1, <2>2, <2>3, StaysChain
<1>2. CASE h.group \notin TwoSizes
  <2> DEFINE up == CupsUpdated(h, c)
             a == up.activated \cup {"bean1"}
             t == [up EXCEPT !.activated = a]
  <2>1. Calm(up) /\ Stays(h, up) /\ CupRight(up) /\ up.group = h.group
    BY CupsUpdatedRight
  <2>2. GroupData(h, b, c) = t
    BY <1>0, <1>2 DEF GroupData
  <2> HIDE DEF up
  <2>3. up \in Home /\ Safe(up) /\ Coffee(up)
    BY <2>1 DEF Calm, Coffee, Safe
  <2>4. Safe(t)
    <3>1. a \in SUBSET Buttons
      BY <2>3, ButtonsType DEF Buttons, Beans
    <3> HIDE DEF a
    <3> QED
      BY <2>3, <3>1, ActivatedSafe
  <2>5. /\ Stays(up, t) /\ t.group = up.group /\ t.cupItem = up.cupItem /\ t.activated = a
    BY <2>3 DEF Stays, Home
  <2> HIDE DEF t
  <2>6. Coffee(t)
    BY <2>3, <2>4, <2>5 DEF Coffee, Stays, BeansHandled, Single
  <2>7. Calm(t)
    BY <2>1, <2>5, <2>6, CalmStays
  <2>8. BeanRight(t) /\ CupRight(t)
    BY <1>2, <2>1, <2>5 DEF BeanRight, CupRight, BeanBtn, CupBtn, Stays
  <2>9. Mach(t)
    BY <2>7, <2>8, CalmMach
  <2> QED
    BY <2>1, <2>2, <2>5, <2>7, <2>9, StaysChain
<1> QED
  BY <1>1, <1>2

\* Opening a tab while the machine does nothing.
LEMMA SetGroupMach ==
    ASSUME NEW h, Calm(h), h.machine = {}, NEW tab \in AllGroups, NEW g \in CoffeeTabs,
           NEW b \in Beans, NEW c \in Cups
    PROVE  LET t == SetGroup([h EXCEPT !.tab = tab], g, b, c)
           IN  Mach(t) /\ Counts(h, t) /\ t.pop = h.pop
<1> DEFINE r == [h EXCEPT !.tab = tab]
           s == [r EXCEPT !.group = g]
           up == GroupData(s, b, c)
           t == [up EXCEPT !.selected = up.selected \ (Beans \cup Cups)]
<1>0. h \in Home /\ Safe(h) /\ Coffee(h) /\ g \in AllGroups
  BY DEF Calm, Coffee, Safe, CoffeeTabs, AllGroups
<1>1. Stays(h, r) /\ r \in Home /\ Safe(r) /\ r.group = h.group
  BY <1>0, TabSafe DEF Stays, Home, Safe
<1>2. Stays(r, s) /\ Safe(s) /\ s.group = g
  <2> HIDE DEF r
  <2> QED
    BY <1>0, <1>1 DEF Stays, Home, Safe, Apart
<1> HIDE DEF r, s
<1>3. Calm(s) /\ Stays(h, s) /\ s.machine = {}
  <2>1. Stays(h, s)
    BY <1>1, <1>2, StaysChain
  <2>2. Coffee(s)
    BY <1>0, <1>2, <2>1 DEF Coffee, Calm, Stays, BeansHandled, Single
  <2> QED
    BY <2>1, <2>2, CalmStays DEF Stays
<1>4. Calm(up) /\ Stays(s, up) /\ Mach(up)
  BY <1>3, GroupDataMach
<1>5. t = up
  <2> HIDE DEF up
  <2>1. up \in Home /\ up.selected = {}
    BY <1>4 DEF Calm, Coffee, Safe
  <2>2. up.selected \ (Beans \cup Cups) = up.selected
    BY <2>1
  <2>3. [up EXCEPT !.selected = up.selected] = up
    BY <2>1 DEF Home
  <2> QED
    BY <2>2, <2>3
<1>6. SetGroup([h EXCEPT !.tab = tab], g, b, c) = t
  BY DEF SetGroup, r, s
<1> HIDE DEF up, t
<1>7. Stays(h, up)
  BY <1>3, <1>4, StaysChain
<1> QED
  BY <1>4, <1>5, <1>6, <1>7 DEF Stays, Counts

\* Coming back to the page: it was left with the machine idle.
LEMMA ShowHomeProper ==
    ASSUME NEW h, Mach(h), NEW c \in Cups
    PROVE  LET t == ShowHome(h, c)
           IN  Proper(h, t) /\ t.pop = h.pop /\ t.shown
<1>0. Coffee(h) /\ h \in Home
  BY MachType
<1>1. CASE h.shown
  BY <1>1, ProperSelf DEF ShowHome
<1>2. CASE ~h.shown
  <2> DEFINE p == Preheated(h, c)
             t == [p EXCEPT !.shown = TRUE]
  <2>1. h.machine = {} /\ h.machine \cap Jobs = {}
    BY <1>2 DEF Mach, Runs
  <2>2. Calm(h) /\ BeanRight(h)
    BY <2>1, MachCalm
  <2>3. Calm(p) /\ BeanRight(p) /\ CupRight(p) /\ Stays(h, p)
    BY <2>1, <2>2, PreheatedRight
  <2>4. ShowHome(h, c) = t
    BY <1>2 DEF ShowHome
  <2>5. Coffee(t)
    BY <1>0, <2>4, ShowHomeFine DEF Fine
  <2> HIDE DEF p
  <2>6. p \in Home
    BY <2>3 DEF Calm, Coffee, Safe
  <2>7. /\ t.machine = p.machine /\ t.selected = p.selected /\ t.activated = p.activated
        /\ t.hot = p.hot /\ t.steam = p.steam /\ t.ready = p.ready
        /\ t.group = p.group /\ t.beanItem = p.beanItem /\ t.cupItem = p.cupItem
        /\ t.warn = p.warn /\ t.listed = p.listed /\ t.asked = p.asked
        /\ t.pop = p.pop /\ t.eq = p.eq
    BY <2>6 DEF Home
  <2>8. t.shown
    BY <2>6 DEF Home
  <2> HIDE DEF t
  <2>9. Calm(t)
    BY <2>3, <2>5, <2>7, <2>8 DEF Calm, NoReminder
  <2>10. BeanRight(t) /\ CupRight(t)
    BY <2>3, <2>7 DEF BeanRight, CupRight, BeanBtn, CupBtn
  <2>11. Mach(t) /\ Counts(h, t) /\ t.pop = h.pop
    BY <2>3, <2>7, <2>9, <2>10, CalmMach DEF Counts, Stays
  <2> QED
    BY <2>4, <2>8, <2>11 DEF Proper
<1> QED
  BY <1>1, <1>2

LEMMA SteamOffProper ==
    ASSUME NEW h, Mach(h)
    PROVE  LET t == SteamOff(h)
           IN  /\ Proper(h, t) /\ t.pop = h.pop /\ t.shown = h.shown
               /\ t.machine = h.machine \ {"STEAM"}
<1>1. CASE "STEAM" \notin h.machine
  <2>1. SteamOff(h) = h
    BY <1>1 DEF SteamOff
  <2>2. h.machine = h.machine \ {"STEAM"}
    BY <1>1
  <2> QED
    BY <2>1, <2>2, ProperSelf
<1>2. CASE "STEAM" \in h.machine
  <2> DEFINE t == SteamClick(h, FALSE)
  <2>1. SteamEnds(h, t) /\ Proper(h, t)
    BY <1>2, MachType, EndedRest, SteamPressed
  <2>2. SteamOff(h) = t
    BY <1>2 DEF SteamOff
  <2> HIDE DEF t
  <2>3. t.pop = h.pop /\ t.shown = h.shown /\ t.machine = h.machine \ {"STEAM"}
    BY <2>1 DEF SteamEnds, Rest
  <2> QED
    BY <2>1, <2>2, <2>3
<1> QED
  BY <1>1, <1>2

\* What a command of the cloud finds: the page, with no steam.
LEMMA CalledProper ==
    ASSUME NEW h, Mach(h), NEW c \in Cups
    PROVE  Proper(h, Called(h, c)) /\ Called(h, c).shown
<1> DEFINE p == ClosePop(h)
           q == ShowHome(p, c)
           r == SteamOff(q)
<1>1. Mach(p) /\ Proper(h, p)
  BY WarnProper DEF Proper
<1> HIDE DEF p
<1>2. Mach(q) /\ Proper(p, q) /\ q.shown
  BY <1>1, ShowHomeProper DEF Proper
<1> HIDE DEF q
<1>3. Proper(q, r) /\ r.shown = q.shown
  BY <1>2, SteamOffProper
<1>4. Called(h, c) = r
  BY DEF Called, p, q
<1> HIDE DEF r
<1> QED
  BY <1>1, <1>2, <1>3, <1>4, ProperChain

LEMMA EqMach ==
    ASSUME NEW h, Mach(h), NEW e \in EqStatus
    PROVE  LET t == [h EXCEPT !.eq = e] IN Mach(t) /\ t.pop = h.pop /\ t.eq = e
<1> DEFINE t == [h EXCEPT !.eq = e]
<1>0. Coffee(h) /\ Safe(h) /\ h \in Home
  BY MachType
<1>1. Safe(t)
  BY <1>0, EqSafe
<1>2. Keeps(h, t) /\ Same(h, t) /\ t.pop = h.pop /\ t.eq = e
  BY <1>0 DEF Keeps, Same, Home
<1>3. NoReminder(t)
  BY <1>0 DEF Home, Mach, NoReminder
<1> HIDE DEF t
<1>4. Mach(t)
  BY <1>0, <1>1, <1>2, <1>3, ShowsFine, SameMach DEF Shows, Fine
<1> QED
  BY <1>2, <1>4 DEF t
-----------------------------------------------------------------------------
(* The user's steps.                                                       *)

Moved(s, t) == Proper(s, t) /\ (t.pop = "LOST" => s.pop = "LOST")

LEMMA SlideDoseMoved ==
    ASSUME Mach(home), SlideDose
    PROVE  Moved(home, home')
<1>1. PICK b \in Beans :
        home' = [home EXCEPT !.beanItem = b, !.activated = (home.activated \ Beans) \cup {b}]
  BY DEF SlideDose
<1>2. home.group \in TwoSizes /\ home.shown /\ home.machine \cap Jobs = {}
  BY DEF SlideDose, AtPage, Mach, Runs, Drawn, Jobs
<1>3. Calm(home) /\ CupRight(home)
  BY <1>2, MachCalm
<1>4. Calm(home') /\ Stays(home, home') /\ Mach(home')
  BY <1>1, <1>2, <1>3, BeanItemMach
<1> QED
  BY <1>4 DEF Moved, Proper, Counts, Stays

LEMMA TapResetMoved ==
    ASSUME Mach(home), TapReset
    PROVE  Moved(home, home')
<1>1. PICK b \in Beans, c \in Cups :
        home' = [CupsUpdated(home, c) EXCEPT
                   !.beanItem = b,
                   !.activated = (CupsUpdated(home, c).activated \ Beans) \cup {b}]
  BY DEF TapReset
<1> DEFINE up == CupsUpdated(home, c)
<1>2. home.group \in TwoSizes /\ home.shown /\ home.machine \cap Jobs = {}
  BY DEF TapReset, AtPage, Brewing, Mach, Drawn, Jobs
<1>3. Calm(home)
  BY <1>2, MachCalm
<1>4. Calm(up) /\ CupRight(up) /\ Stays(home, up) /\ up.group = home.group
  BY <1>3, CupsUpdatedRight
<1>5. home' = [up EXCEPT !.beanItem = b, !.activated = (up.activated \ Beans) \cup {b}]
  BY <1>1
<1> HIDE DEF up
<1>6. Calm(home') /\ Stays(up, home') /\ Mach(home')
  BY <1>2, <1>4, <1>5, BeanItemMach
<1>7. Stays(home, home')
  BY <1>4, <1>6, StaysChain
<1> QED
  BY <1>6, <1>7 DEF Moved, Proper, Counts, Stays

\* The water may be set while beans are ground.
LEMMA SlideWaterMoved ==
    ASSUME Mach(home), SlideWater
    PROVE  Moved(home, home')
<1>1. PICK c \in Cups :
        home' = [home EXCEPT !.cupItem = c, !.activated = (home.activated \ Cups) \cup {c}]
  BY DEF SlideWater
<1>0. home \in Home /\ Safe(home) /\ Coffee(home)
  BY MachType
<1>2. /\ home.group \in TwoSizes /\ home.shown /\ home.ready
      /\ home.machine \cap {"EXT", "HOT_WATER"} = {}
  <2>1. CupBtn(home) \in Cups
    BY DEF SlideWater, AtPage, Mach, Reacts
  <2> QED
    BY <2>1 DEF SlideWater, AtPage, Mach, Drawn
<1>3. /\ Stays(home, home') /\ home'.group = home.group /\ home'.beanItem = home.beanItem
      /\ home'.cupItem = c /\ home'.activated = (home.activated \ Cups) \cup {c}
  BY <1>0, <1>1 DEF Stays, Home
<1>4. Coffee(home')
  <2>1. Safe(home')
    BY <1>0, UserSafe DEF User
  <2> QED
    BY <1>0, <1>3, <2>1 DEF Coffee, Stays, BeansHandled, Single
<1>5. BeanBtn(home') = BeanBtn(home) /\ BeanBtn(home) \in Beans /\ CupBtn(home') = c /\ Beans \cap Cups = {}
  BY <1>2, <1>3, MachType DEF BeanBtn, CupBtn
<1>6. Drawn(home')
  BY <1>2, <1>3, <1>5 DEF Mach, Drawn, Stays
<1>7. Runs(home')
  BY <1>3 DEF Mach, Runs, Stays
<1>8. Sized(home')
  BY <1>3, <1>5 DEF Mach, Sized
<1>9. Reacts(home')
  BY <1>2, <1>3, <1>5 DEF Mach, Reacts, Stays
<1>10. NoReminder(home')
  BY <1>3 DEF Mach, NoReminder, Stays
<1> QED
  BY <1>3, <1>4, <1>6, <1>7, <1>8, <1>9, <1>10 DEF Mach, Moved, Proper, Counts, Stays

LEMMA LeavePageMoved ==
    ASSUME Mach(home), LeavePage
    PROVE  Moved(home, home')
<1> DEFINE p == CancelPop(home)
<1>0. home \in Home /\ Safe(home) /\ Coffee(home)
  BY MachType
<1>1. Mach(p) /\ Proper(home, p) /\ p \in Home /\ p.machine = home.machine
  BY <1>0, WarnProper, MachType, WarnSame DEF Proper, Same
<1>2. home' = [p EXCEPT !.shown = FALSE] /\ home.machine = {}
  BY DEF LeavePage
<1>3. Coffee(home')
  <2>1. Safe(home') /\ Coffee(p)
    BY <1>0, <1>1, UserSafe, MachType DEF User
  <2> HIDE DEF p
  <2>2. Keeps(p, home') /\ home'.pop = p.pop
    BY <1>1, <1>2 DEF Keeps, Home
  <2> QED
    BY <2>1, <2>2, ShowsFine DEF Shows, Fine
<1>4. p.pop = "none"
  BY <1>0, PopKeeps
<1> HIDE DEF p
<1>5. /\ home'.machine = p.machine /\ home'.selected = p.selected
      /\ home'.activated = p.activated /\ home'.hot = p.hot /\ home'.steam = p.steam
      /\ home'.ready = p.ready /\ home'.group = p.group
      /\ home'.beanItem = p.beanItem /\ home'.cupItem = p.cupItem
      /\ home'.warn = p.warn /\ home'.listed = p.listed /\ home'.asked = p.asked
      /\ home'.pop = p.pop /\ home'.eq = p.eq /\ home'.hotEnabled = p.hotEnabled
  BY <1>1, <1>2 DEF Home
<1>6. ~home'.shown
  BY <1>1, <1>2 DEF Home
<1>7. BeanBtn(home') = BeanBtn(p) /\ CupBtn(home') = CupBtn(p) /\ NoReminder(home')
  BY <1>1, <1>5 DEF BeanBtn, CupBtn, Mach, NoReminder
<1>8. Drawn(home')
  BY <1>1, <1>5, <1>7 DEF Mach, Drawn
<1>9. Runs(home')
  BY <1>1, <1>2, <1>5 DEF Mach, Runs
<1>10. Sized(home')
  BY <1>1, <1>5 DEF Mach, Sized
<1>11. Reacts(home')
  BY <1>1, <1>5, <1>6, <1>7 DEF Mach, Reacts
<1> QED
  BY <1>1, <1>3, <1>4, <1>5, <1>7, <1>8, <1>9, <1>10, <1>11 DEF Mach, Moved, Proper, Counts

LEMMA WakeUpMoved ==
    ASSUME Mach(home), WakeUp
    PROVE  Moved(home, home')
<1> DEFINE a == [home EXCEPT !.ready = FALSE, !.eq = "PRE_HEATING"]
<1>0. home \in Home /\ Safe(home) /\ Coffee(home)
  BY MachType
<1>1. /\ a.group = home.group /\ a.activated = home.activated
      /\ a.beanItem = home.beanItem /\ a.cupItem = home.cupItem
      /\ a.shown = home.shown /\ a.machine = home.machine /\ a.selected = home.selected
      /\ a.hot = home.hot /\ a.steam = home.steam /\ a.hotEnabled = home.hotEnabled
      /\ a.warn = home.warn /\ a.listed = home.listed /\ a.asked = home.asked
      /\ a.pop = home.pop /\ a.eq = "PRE_HEATING"
  BY <1>0 DEF Home
<1>2. ~a.ready
  BY <1>0 DEF Home
<1>3. home.machine = {} /\ ~home.shown /\ home.pop = "none"
  BY DEF WakeUp
<1>4. Coffee(a)
  <2>1. Safe(a)
    BY <1>0 DEF Safe, Apart, Home, EqStatus
  <2>2. Keeps(home, a)
    BY <1>1 DEF Keeps
  <2> HIDE DEF a
  <2> QED
    BY <1>0, <1>1, <2>1, <2>2, ShowsFine DEF Shows, Fine
<1>5. PICK c \in Cups : home' = ShowHome(a, c)
  BY DEF WakeUp
<1> HIDE DEF a
<1>6. BeanBtn(a) = BeanBtn(home) /\ CupBtn(a) = CupBtn(home) /\ NoReminder(a)
  BY <1>1 DEF BeanBtn, CupBtn, Mach, NoReminder
<1>7. Drawn(a)
  BY <1>1, <1>6 DEF Mach, Drawn
<1>8. Runs(a)
  BY <1>1, <1>3 DEF Mach, Runs
<1>9. Sized(a)
  BY <1>1 DEF Mach, Sized
<1>10. Reacts(a)
  BY <1>1, <1>2, <1>6 DEF Mach, Reacts
<1>11. Mach(a)
  BY <1>4, <1>6, <1>7, <1>8, <1>9, <1>10 DEF Mach
<1>12. Proper(a, home') /\ home'.pop = a.pop
  BY <1>5, <1>11, ShowHomeProper
<1> QED
  BY <1>1, <1>3, <1>12 DEF Moved, Proper, Counts

\* The last "OK" ends the job that was paused.
LEMMA ConfirmWarnMoved ==
    ASSUME Mach(home), ConfirmWarn
    PROVE  /\ Moved(home, home')
           /\ home.shown /\ home.pausing /\ home'.pop = "none" => home'.machine \cap Jobs = {}
<1> DEFINE ws == home.dealt \cup {home.asked}
           d == [home EXCEPT !.dealt = ws]
           rest == home.listed \ {home.asked}
           x == ListWarns(d, rest)
           y == WarnClosed(d)
<1>0. home \in Home
  BY MachType
<1>1. ws \in SUBSET AllFaults /\ rest \in SUBSET (AllFaults \ {"A02"})
  BY <1>0 DEF ConfirmWarn, Home, Mach, NoReminder
<1>2. Mach(d) /\ Proper(home, d)
  <2> HIDE DEF ws
  <2> QED
    BY <1>1, WarnProper DEF Proper
<1>3. d.pop = "WARN" /\ d.shown = home.shown /\ d.pausing = home.pausing
  BY <1>0 DEF ConfirmWarn, Home
<1>4. home' = x \/ home' = y
  BY DEF ConfirmWarn
<1> HIDE DEF d, rest
<1>5. Proper(d, x) /\ x.pop = "WARN"
  BY <1>1, <1>2, WarnProper, PopKeeps, MachType
<1>6. /\ Proper(d, y) /\ y.pop # "LOST"
      /\ d.shown /\ d.pausing => y.machine \cap Jobs = {}
  BY <1>2, <1>3, WarnClosedStops
<1> HIDE DEF x, y
<1>7. Moved(home, home')
  BY <1>2, <1>4, <1>5, <1>6, ProperChain DEF Moved
<1> QED
  BY <1>3, <1>4, <1>5, <1>6, <1>7

LEMMA UserMoved ==
    ASSUME AtMachine, Mach(home), User
    PROVE  Moved(home, home')
<1> USE Mach(home)
<1>0. home \in Home /\ home.group # "TEA" /\ home.pop \in CoffeePops /\ home.asked # "A02"
  BY MachType DEF Mach, Coffee, NoReminder
<1>1. CASE TapBean
  <2>1. PICK v \in Beans : home' = BeanClick(home, v, FALSE) /\ (home.group \notin TwoSizes => v = "bean1")
    BY <1>1 DEF TapBean, Beans
  <2>2. v \in home.activated => v = BeanBtn(home)
    BY <2>1 DEF Mach, Sized, BeanBtn
  <2>3. home.shown /\ home.pop = "none"
    BY <1>1 DEF TapBean, AtPage
  <2> QED
    BY <2>1, <2>2, <2>3, BeanTapped DEF Moved
<1>2. CASE TapCup
  <2>1. PICK v \in Cups : home' = CupClick(home, v, FALSE) /\ (home.group \notin TwoSizes => v = "cup1")
    BY <1>2 DEF TapCup, Cups
  <2>2. v \in home.activated => v = CupBtn(home)
    BY <2>1 DEF Mach, Sized, CupBtn
  <2>3. home.shown /\ home.pop = "none"
    BY <1>2 DEF TapCup, AtPage
  <2> QED
    BY <2>1, <2>2, <2>3, CupTapped DEF Moved
<1>3. CASE TapHotWater
  BY <1>3, HotTapped DEF TapHotWater, AtPage, Moved
<1>4. CASE TapSteam
  BY <1>4, SteamTapped DEF TapSteam, AtPage, Moved
<1>5. CASE TapRebrew \/ TapTeaBack \/ TapPop \/ CleanNow \/ CleanLater
  BY <1>0, <1>5 DEF TapRebrew, TapTeaBack, TapPop, CleanNow, CleanLater, CoffeePops
<1>6. CASE TapTab
  <2>1. PICK g \in Groups, b \in Beans, c \in Cups :
           home' = SetGroup([home EXCEPT !.tab = g], g, b, c)
    BY <1>6 DEF TapTab
  <2>2. g \in CoffeeTabs /\ g \in AllGroups
    BY TabsOfCoffee DEF AtMachine
  <2>3. home.machine = {} /\ Calm(home)
    <3>1. home.machine = {} /\ home.machine \cap Jobs = {}
      BY <1>6 DEF TapTab
    <3> QED
      BY <3>1, MachCalm
  <2> QED
    BY <2>1, <2>2, <2>3, SetGroupMach DEF Moved, Proper
<1>7. CASE SlideDose \/ SlideWater \/ TapReset
  BY <1>7, SlideDoseMoved, SlideWaterMoved, TapResetMoved
<1>8. CASE ConfirmWarn
  BY <1>8, ConfirmWarnMoved
<1>9. CASE SnoozeEnds
  <2>1. Coffee(home')
    BY <1>9, UserFine, MachType DEF User, AtMachine, Fine
  <2>2. /\ Same(home, home') /\ home'.eq = home.eq /\ home'.pop = home.pop
        /\ home'.warn = home.warn /\ home'.listed = home.listed /\ home'.asked = home.asked
    BY <1>0, <1>9 DEF SnoozeEnds, Same, Home
  <2>3. NoReminder(home')
    BY <2>2 DEF Mach, NoReminder
  <2> QED
    BY <2>1, <2>2, <2>3, SameMach DEF Moved, Proper, Counts
<1>10. CASE LeavePage \/ WakeUp
  BY <1>10, LeavePageMoved, WakeUpMoved
<1>11. CASE ComeBack
  <2>1. PICK c \in Cups : home' = ShowHome(home, c)
    BY <1>11, ChoicesType, MachType DEF ComeBack
  <2> QED
    BY <2>1, ShowHomeProper DEF Moved
<1> QED
  BY <1>1, <1>2, <1>3, <1>4, <1>5, <1>6, <1>7, <1>8, <1>9, <1>10, <1>11 DEF User
-----------------------------------------------------------------------------
(* The frames of the MCU.                                                  *)

\* The heating is ready: with no job, or while beans are ground.
LEMMA PreheatDoneMoved ==
    ASSUME Mach(home), PreheatDone
    PROVE  Moved(home, home')
<1> DEFINE h == [home EXCEPT !.ready = TRUE]
<1>0. home \in Home /\ Safe(home) /\ Coffee(home)
  BY MachType
<1>1. /\ h.shown = home.shown /\ h.group = home.group /\ h.activated = home.activated
      /\ h.beanItem = home.beanItem /\ h.cupItem = home.cupItem
      /\ h.machine = home.machine /\ h.selected = home.selected
      /\ h.hot = home.hot /\ h.steam = home.steam /\ h.hotEnabled = home.hotEnabled
      /\ h.warn = home.warn /\ h.listed = home.listed /\ h.asked = home.asked
      /\ h.pop = home.pop /\ h.eq = home.eq
  BY <1>0 DEF Home
<1>2. h.ready /\ h \in Home
  BY <1>0 DEF Home
<1>3. IF h.machine \subseteq {"POWDER"}
      THEN \E c \in CupChoices(h) :
              home' = [(IF h.shown THEN Preheated(h, c) ELSE h) EXCEPT !.eq = "STANDBY"]
      ELSE home' = h
  BY DEF PreheatDone, Preheat
<1>4. Coffee(h)
  <2>1. Safe(h)
    BY <1>0, <1>2 DEF Safe, Apart, Home
  <2>2. Keeps(home, h)
    BY <1>1 DEF Keeps
  <2> HIDE DEF h
  <2> QED
    BY <1>0, <1>1, <2>1, <2>2, ShowsFine DEF Shows, Fine
<1>5. Coffee(home')
  BY <1>0, PreheatFine DEF PreheatDone, Fine
<1>6. CASE ~(h.machine \subseteq {"POWDER"})
  <2>1. home.ready
    <3>1. home.machine \cap {"EXT", "HOT_WATER", "STEAM"} # {}
      BY <1>0, <1>1, <1>6 DEF Home, Jobs
    <3> QED
      BY <3>1 DEF Mach, Runs
  <2>2. home.ready = TRUE /\ \A u \in Home : [u EXCEPT !.ready = u.ready] = u
    BY <1>0, <2>1 DEF Home
  <2>3. h = home
    BY <1>0, <2>2
  <2> QED
    BY <1>3, <1>6, <2>3, ProperSelf DEF Moved
<1> HIDE DEF h
<1>7. "STANDBY" \in EqStatus
  BY DEF EqStatus
<1>8. CASE h.machine \subseteq {"POWDER"} /\ ~h.shown
  <2>1. home' = [h EXCEPT !.eq = "STANDBY"]
    BY <1>3, <1>8
  <2>2. /\ BeanBtn(h) = BeanBtn(home) /\ CupBtn(h) = CupBtn(home)
        /\ NoReminder(h)
    BY <1>1 DEF BeanBtn, CupBtn, Mach, NoReminder
  <2>3. Drawn(h)
    BY <1>1, <2>2 DEF Mach, Drawn
  <2>4. Runs(h) /\ Sized(h)
    BY <1>1, <1>2 DEF Mach, Runs, Sized
  <2>5. Reacts(h)
    BY <1>1, <1>8, <2>2 DEF Mach, Reacts
  <2>6. Mach(h)
    BY <1>4, <2>2, <2>3, <2>4, <2>5 DEF Mach
  <2>7. Mach(home') /\ home'.pop = h.pop /\ home'.eq = "STANDBY"
    BY <1>7, <2>1, <2>6, EqMach
  <2> QED
    BY <1>1, <2>7 DEF Moved, Proper, Counts
<1>9. CASE h.machine \subseteq {"POWDER"} /\ h.shown
  <2>1. PICK c \in CupChoices(h) : home' = [Preheated(h, c) EXCEPT !.eq = "STANDBY"]
    BY <1>3, <1>9
  <2>2. c \in Cups /\ (home.cupItem # "none" => c = home.cupItem)
    BY <1>1, <1>2, <1>4, ChoicesType DEF Coffee, CupChoices
  <2> DEFINE up == CupsUpdated(h, c)
             p == Preheated(h, c)
  <2>3. home' = [p EXCEPT !.eq = "STANDBY"]
    BY <2>1
  <2>4. Mach(p) /\ p.pop = h.pop
    <3>1. CASE h.machine = {}
      <4>1. Calm(home) /\ BeanRight(home)
        BY <1>1, <3>1, MachCalm
      <4>2. Calm(h)
        BY <1>1, <1>2, <1>4, <3>1, <4>1 DEF Calm, NoReminder
      <4>3. BeanRight(h)
        BY <1>1, <4>1 DEF BeanRight, BeanBtn
      <4>4. Calm(p) /\ CupRight(p) /\ BeanRight(p) /\ Stays(h, p)
        BY <2>2, <3>1, <4>2, <4>3, PreheatedRight
      <4> HIDE DEF p
      <4> QED
        BY <4>4, CalmMach DEF Stays
    <3>2. CASE h.machine = {"POWDER"}
      <4>1. h.group # "TEA" /\ Brewing(h) /\ h.group \in CoffeeTabs
        BY <1>4, <3>2 DEF Coffee, CoffeeTabs, Brewing
      <4>2. /\ Stays(h, up) /\ up.group = h.group /\ up.beanItem = h.beanItem
            /\ up.cupItem = IF h.group \in TwoSizes THEN c ELSE h.cupItem
            /\ up.activated = h.activated
        <5>1. /\ Stays(h, up) /\ up.group = h.group /\ up.beanItem = h.beanItem
              /\ up.cupItem = (IF h.group \in TwoSizes THEN IF h.ready THEN c ELSE "none"
                               ELSE h.cupItem)
              /\ h.ready /\ Brewing(h) => up.activated = h.activated
          BY <1>2, <2>2, <4>1, CupsFields
        <5> HIDE DEF up
        <5> QED
          BY <1>2, <4>1, <5>1
      <4>3. p = up
        <5>1. up \in Home
          BY <1>4, <2>2, CupsUpdatedShows DEF Coffee, Shows, Safe
        <5> HIDE DEF up
        <5>2. ~up.hot /\ ~up.steam
          BY <1>1, <3>2, <4>2 DEF Mach, Drawn, Stays
        <5>3. up.hot = FALSE /\ up.steam = FALSE
          BY <5>1, <5>2 DEF Home
        <5>4. \A u \in Home : [u EXCEPT !.hot = u.hot, !.steam = u.steam] = u
          BY DEF Home
        <5>5. [up EXCEPT !.hot = FALSE, !.steam = FALSE] = up
          BY <5>1, <5>3, <5>4
        <5> QED
          BY <5>5 DEF Preheated, up
      <4>4. Coffee(p)
        BY <1>4, <2>2, PreheatedShows, ShowsFine DEF Coffee, Fine
      <4> HIDE DEF p, up
      <4>5. BeanBtn(p) = BeanBtn(home) /\ (h.group \in TwoSizes => CupBtn(p) = c)
            /\ (h.group \notin TwoSizes => CupBtn(p) = "cup1")
        BY <1>1, <4>2, <4>3 DEF BeanBtn, CupBtn
      <4>6. Drawn(p)
        BY <1>1, <3>2, <4>2, <4>3, <4>5 DEF Mach, Drawn, Stays
      <4>7. Runs(p)
        BY <1>1, <1>2, <3>2, <4>2, <4>3 DEF Mach, Runs, Stays
      <4>8. Sized(p)
        BY <1>1, <2>2, <4>2, <4>3, MachType DEF Mach, Sized, Cups
      <4>9. Reacts(p)
        BY <1>1, <2>2, <3>2, <4>2, <4>3, <4>5 DEF Mach, Reacts, Stays, Jobs, Cups
      <4>10. NoReminder(p)
        BY <1>1, <4>2, <4>3 DEF Mach, NoReminder, Stays
      <4> QED
        BY <4>2, <4>3, <4>4, <4>6, <4>7, <4>8, <4>9, <4>10 DEF Mach, Stays
    <3> QED
      BY <1>9, <3>1, <3>2
  <2> HIDE DEF p
  <2>5. Mach(home') /\ home'.pop = p.pop /\ home'.eq = "STANDBY"
    BY <1>7, <2>3, <2>4, EqMach
  <2> QED
    BY <1>1, <2>4, <2>5 DEF Moved, Proper, Counts
<1> QED
  BY <1>6, <1>8, <1>9

\* Enough is ground: the bean that grinds stops.
LEMMA GrindDoneMoved ==
    ASSUME Mach(home), GrindDone
    PROVE  Moved(home, home') /\ (home.shown => "POWDER" \notin home'.machine)
<1> DEFINE h == [home EXCEPT !.enough = TRUE]
           t == PressBean(h, FALSE)
<1>0. home \in Home /\ Safe(home) /\ Coffee(home)
  BY MachType
<1>1. Coffee(h)
  <2>1. Safe(h)
    BY <1>0 DEF Safe, Apart, Home
  <2>2. Keeps(home, h) /\ h.pop = home.pop
    BY <1>0 DEF Home, Keeps
  <2> HIDE DEF h
  <2> QED
    BY <1>0, <2>1, <2>2, ShowsFine DEF Shows, Fine
<1>2. /\ Same(home, h) /\ h.eq = home.eq /\ h.pop = home.pop
      /\ h.warn = home.warn /\ h.listed = home.listed /\ h.asked = home.asked
  BY <1>0 DEF Same, Home
<1>3. home' = (IF h.shown THEN t ELSE h) /\ "POWDER" \in home.machine
  BY DEF GrindDone
<1> HIDE DEF h
<1>4. Mach(h) /\ Proper(home, h)
  <2>1. NoReminder(h)
    BY <1>2 DEF Mach, NoReminder
  <2> QED
    BY <1>1, <1>2, <2>1, SameMach DEF Proper, Counts
<1>5. "POWDER" \in h.machine /\ h.shown = home.shown
  BY <1>2, <1>3 DEF Same
<1>6. BeanEnds(h, t) /\ Proper(h, t)
  BY <1>4, <1>5, BeanPressed
<1> HIDE DEF t
<1>7. t.pop = h.pop /\ "POWDER" \notin t.machine
  BY <1>6, Zenon DEF BeanEnds, Rest
<1>8. Proper(home, t)
  BY <1>4, <1>6, ProperChain
<1> QED
  BY <1>2, <1>3, <1>4, <1>5, <1>7, <1>8 DEF Moved

LEMMA DoneEnded ==
    ASSUME Mach(home), NEW job
    PROVE  LET h == [home EXCEPT !.machine = home.machine \ {job}]
           IN  /\ Coffee(h) /\ Ended(home, h, job)
               /\ job \notin h.machine /\ h.shown = home.shown
<1> DEFINE h == [home EXCEPT !.machine = home.machine \ {job}]
<1>0. Coffee(home) /\ home \in Home
  BY MachType
<1>1. Coffee(h) /\ Ended(home, h, job)
  BY <1>0, EndedFine, EndedRest DEF Fine
<1>2. job \notin h.machine /\ h.shown = home.shown
  BY <1>0 DEF Home
<1> QED
  BY <1>1, <1>2

\* The MCU has ended a brew, hot water or steam, which only run while the page is shown.
LEMMA BrewDoneMoved ==
    ASSUME Mach(home), BrewDone
    PROVE  /\ Mach(home') /\ "EXT" \notin home'.machine
           /\ home'.pop = home.pop
<1> DEFINE h == [home EXCEPT !.machine = home.machine \ {"EXT"}]
           t == PressCup(h, FALSE)
<1>1. "EXT" \in home.machine /\ home.shown
  BY DEF BrewDone, Mach, Runs
<1>2. Coffee(h) /\ Ended(home, h, "EXT") /\ h.shown
  BY <1>1, DoneEnded
<1>3. home' = t
  BY <1>2 DEF BrewDone
<1> HIDE DEF h
<1>4. CupEnds(home, t) /\ Mach(t)
  BY <1>1, <1>2, CupPressed
<1> HIDE DEF t
<1>5. t.pop = home.pop /\ "EXT" \notin t.machine
  BY <1>4, Zenon DEF CupEnds, Rest
<1> QED
  BY <1>3, <1>4, <1>5

LEMMA HotWaterDoneMoved ==
    ASSUME Mach(home), HotWaterDone
    PROVE  /\ Mach(home') /\ "HOT_WATER" \notin home'.machine
           /\ home'.pop = home.pop
<1> DEFINE h == [home EXCEPT !.machine = home.machine \ {"HOT_WATER"}]
           t == HotClick(h, FALSE)
<1>1. "HOT_WATER" \in home.machine /\ home.shown
  BY DEF HotWaterDone, Mach, Runs
<1>2. Coffee(h) /\ Ended(home, h, "HOT_WATER") /\ h.shown
  BY <1>1, DoneEnded
<1>3. home' = t
  BY <1>2 DEF HotWaterDone
<1> HIDE DEF h
<1>4. HotEnds(home, t) /\ Mach(t)
  BY <1>1, <1>2, HotPressed
<1> HIDE DEF t
<1>5. t.pop = home.pop /\ "HOT_WATER" \notin t.machine
  BY <1>4, Zenon DEF HotEnds, Rest
<1> QED
  BY <1>3, <1>4, <1>5

LEMMA SteamDoneMoved ==
    ASSUME Mach(home), SteamDone
    PROVE  Moved(home, home') /\ "STEAM" \notin home'.machine
<1> DEFINE h == [home EXCEPT !.machine = home.machine \ {"STEAM"}]
           t == SteamClick(h, FALSE)
<1>1. "STEAM" \in home.machine /\ home.shown
  BY DEF SteamDone, Mach, Runs
<1>2. Coffee(h) /\ Ended(home, h, "STEAM") /\ h.shown
  BY <1>1, DoneEnded
<1>3. home' = t
  BY <1>2 DEF SteamDone
<1> HIDE DEF h
<1>4. SteamEnds(home, t) /\ Proper(home, t)
  BY <1>1, <1>2, SteamPressed
<1> HIDE DEF t
<1>5. t.pop = home.pop /\ "STEAM" \notin t.machine
  BY <1>4, Zenon DEF SteamEnds, Rest
<1> QED
  BY <1>3, <1>4, <1>5 DEF Moved

\* A fault covers the page and stops the work; other warnings only cover it.
LEMMA WarnFrameMoved ==
    ASSUME AtMachine, Mach(home), WarnFrame
    PROVE  /\ Moved(home, home')
           /\ home.shown /\ Undealt(home') \cap NeedStop # {} => home'.machine = {}
<1>0. home \in Home /\ Safe(home) /\ Coffee(home)
  BY MachType
<1>1. PICK w \in SUBSET Faults :
        LET h == [home EXCEPT !.warn = w, !.dealt = home.dealt \cap w]
            s == CASE h.pop # "WARN" -> ListWarns(CancelPop(h), Undealt(h))
                   [] h.pop = "WARN" /\ h.asked \in Undealt(h) -> [h EXCEPT !.listed = Undealt(h)]
                   [] OTHER -> ListWarns(h, Undealt(h))
        IN  \/ Undealt(h) = {} /\ home' = WarnGone(h)
            \/ Undealt(h) = {} /\ home' = [h EXCEPT !.pausing = IF h.shown THEN FALSE ELSE h.pausing]
            \/ ~h.shown /\ home' = s
            \/ ~h.shown /\ home' = h
            \/ h.machine = {} /\ home' = [s EXCEPT !.pausing = FALSE]
            \/ home' = DealWarn(s)
  BY DEF WarnFrame
<1> DEFINE d == home.dealt \cap w
           h == [home EXCEPT !.warn = w, !.dealt = d]
           ws == Undealt(h)
           c == CancelPop(h)
           l == [h EXCEPT !.listed = ws]
           s == CASE h.pop # "WARN" -> ListWarns(c, ws)
                  [] h.pop = "WARN" /\ h.asked \in ws -> l
                  [] OTHER -> ListWarns(h, ws)
           p == IF h.shown THEN FALSE ELSE h.pausing
           x == [h EXCEPT !.pausing = p]
           y == [s EXCEPT !.pausing = FALSE]
           g == WarnGone(h)
           f == DealWarn(s)
<1>2. w \in SUBSET (AllFaults \ {"A02"}) /\ d \in SUBSET AllFaults
  BY <1>0, FaultsAssumption DEF AtMachine, Home
<1>3. /\ Same(home, h) /\ h.eq = home.eq /\ h.pop = home.pop /\ h.asked = home.asked
      /\ h.listed = home.listed /\ h.warn = w
  BY <1>0 DEF Same, Home
<1>4. Coffee(h)
  <2>1. \A a \in SUBSET AllFaults, b \in SUBSET AllFaults : Safe([home EXCEPT !.warn = a, !.dealt = b])
    BY <1>0 DEF Safe, Apart, Home
  <2>2. Safe(h)
    <3> HIDE DEF d
    <3> QED
      BY <1>2, <2>1
  <2>3. /\ h.machine = home.machine /\ h.group = home.group
        /\ h.selected = home.selected /\ h.pop = home.pop
    BY <1>0 DEF Home
  <2> HIDE DEF h
  <2> QED
    BY <1>0, <2>2, <2>3 DEF Coffee, BeansHandled, Single
<1> HIDE DEF h
<1>5. Mach(h) /\ Proper(home, h)
  <2>1. NoReminder(h)
    BY <1>2, <1>3 DEF Mach, NoReminder
  <2> QED
    BY <1>3, <1>4, <2>1, SameMach DEF Proper, Counts
<1>6. h \in Home /\ ws \in SUBSET (AllFaults \ {"A02"})
  BY <1>2, <1>3, <1>5, MachType DEF Undealt
<1>7. /\ Mach(s) /\ Proper(h, s) /\ s.warn = h.warn /\ s.dealt = h.dealt
      /\ s.machine = h.machine /\ s.pop = "WARN"
  <2> HIDE DEF ws
  <2>1. LET u == ListWarns(h, ws)
        IN /\ Mach(u) /\ Proper(h, u) /\ u.warn = h.warn /\ u.dealt = h.dealt
           /\ u.machine = h.machine /\ u.pop = "WARN"
    BY <1>5, <1>6, WarnProper DEF Proper, ListWarns, Home
  <2>2. LET u == ListWarns(c, ws)
        IN /\ Mach(u) /\ Proper(h, u) /\ u.warn = h.warn /\ u.dealt = h.dealt
           /\ u.machine = h.machine /\ u.pop = "WARN"
    <3> DEFINE u == ListWarns(c, ws)
    <3>1. Mach(c) /\ Proper(h, c) /\ c \in Home
      BY <1>5, WarnProper, MachType DEF Proper
    <3>2. c.warn = h.warn /\ c.dealt = h.dealt /\ c.machine = h.machine
      BY <1>6 DEF CancelPop, Home
    <3> HIDE DEF c
    <3>3. u.warn = c.warn /\ u.dealt = c.dealt /\ u.machine = c.machine /\ u.pop = "WARN"
      BY <3>1 DEF ListWarns, Home
    <3>4. Proper(c, u)
      BY <1>6, <3>1, WarnProper
    <3> HIDE DEF u
    <3>5. Mach(u) /\ Proper(h, u)
      BY <3>1, <3>4, ProperChain DEF Proper
    <3> QED
      BY <3>2, <3>3, <3>5 DEF u
  <2>3. h.pop = "WARN" =>
           /\ Mach(l) /\ Proper(h, l) /\ l.warn = h.warn /\ l.dealt = h.dealt
           /\ l.machine = h.machine /\ l.pop = "WARN"
    <3>1. \A v \in SUBSET AllFaults : Safe([h EXCEPT !.listed = v])
      BY <1>4 DEF Coffee, Safe, Apart, Home
    <3>2. Safe(l)
      BY <1>6, <3>1
    <3>3. /\ Keeps(h, l) /\ Same(h, l) /\ l.pop = h.pop /\ l.eq = h.eq
          /\ l.warn = h.warn /\ l.dealt = h.dealt /\ l.asked = h.asked /\ l.listed = ws
      BY <1>6 DEF Keeps, Same, Home
    <3> HIDE DEF l
    <3>4. Coffee(l) /\ NoReminder(l)
      BY <1>4, <1>5, <1>6, <3>2, <3>3, ShowsFine DEF Shows, Fine, Mach, NoReminder
    <3>5. Mach(l)
      BY <1>5, <3>3, <3>4, SameMach
    <3> QED
      BY <3>3, <3>5 DEF Proper, Counts, Same
  <2> DEFINE m == ListWarns(h, ws)
             n == ListWarns(c, ws)
  <2>4. s = n \/ (s = l /\ h.pop = "WARN") \/ s = m
    OBVIOUS
  <2> HIDE DEF m, n, l, s
  <2> QED
    BY <2>1, <2>2, <2>3, <2>4 DEF m, n
<1>8. \/ ws = {} /\ home' = g
      \/ ws = {} /\ home' = x
      \/ ~h.shown /\ home' = s
      \/ ~h.shown /\ home' = h
      \/ h.machine = {} /\ home' = y
      \/ home' = f
  BY <1>1 DEF h
<1> HIDE DEF s, c, l
<1>9. Proper(h, g) /\ g.pop = "none" /\ g.warn = h.warn /\ g.dealt = h.dealt
  BY <1>5, <1>6, WarnProper DEF WarnGone, Home
<1>10. Proper(h, x) /\ x.pop = h.pop /\ x.warn = h.warn /\ x.dealt = h.dealt
  <2>1. p \in BOOLEAN
    BY <1>6 DEF Home
  <2> HIDE DEF p
  <2> QED
    BY <1>5, <2>1, PausingProper
<1>11. Proper(s, y) /\ y.pop = "WARN" /\ y.machine = s.machine
  BY <1>7, PausingProper
<1>12. /\ Proper(s, f) /\ f.pop = "WARN" /\ Undealt(f) = Undealt(s)
       /\ Undealt(s) \cap NeedStop # {} => f.machine = {}
  BY <1>7, DealWarnStops
<1> HIDE DEF x, y, g, f
<1>13. Moved(home, home')
  BY <1>3, <1>5, <1>7, <1>8, <1>9, <1>10, <1>11, <1>12, ProperChain DEF Moved
<1>14. ASSUME home.shown, Undealt(home') \cap NeedStop # {}
       PROVE  home'.machine = {}
  <2>1. ws # {} \/ (home' # g /\ home' # x)
    BY <1>9, <1>10, <1>14 DEF Undealt
  <2>2. h.shown
    BY <1>3, <1>14 DEF Same
  <2> QED
    BY <1>7, <1>8, <1>9, <1>10, <1>11, <1>12, <1>14, <2>1, <2>2 DEF Undealt
<1> QED
  BY <1>13, <1>14
-----------------------------------------------------------------------------
(* The commands of the cloud that grind or stop.                           *)

LEMMA CloudProper ==
    ASSUME AtMachine, Mach(home), Cloud
    PROVE  Proper(home, home')
<1> USE Mach(home)
<1>0. /\ home \in Home /\ home.group # "TEA" /\ ~Asking
      /\ CupChoices(home) \subseteq Cups
  BY MachType, ChoicesType DEF Mach, Coffee, CoffeePops, Asking
<1>1. CASE TuyaGrindStart
  <2>1. PICK b \in Dose(home.group = "TEA"), c \in CupChoices(home), d \in Water(home.group = "TEA") :
          LET h == Called(home, c)
              g == IF h.group = "TEA" THEN SetGroup([h EXCEPT !.tab = "AMERICANO"], "ESPRESSO", b, d) ELSE h
          IN home' = IF h.machine \cap Jobs # {} THEN h
                     ELSE BeanClick(g, IF "bean1" \in g.activated THEN "bean1" ELSE "bean2", FALSE)
    BY <1>1 DEF TuyaGrindStart
  <2> DEFINE h == Called(home, c)
             v == IF "bean1" \in h.activated THEN "bean1" ELSE "bean2"
             x == BeanClick(h, v, FALSE)
  <2>2. Mach(h) /\ Proper(home, h) /\ h.shown /\ h.group # "TEA"
    BY <1>0, CalledProper, MachType DEF Proper
  <2>3. home' = h \/ (home' = x /\ h.machine \cap Jobs = {})
    BY <2>1, <2>2
  <2>4. v \in Beans
    BY DEF Beans
  <2> HIDE DEF h
  <2>5. ASSUME h.machine \cap Jobs = {}
        PROVE  Proper(h, x)
    <3>1. BeanBtn(h) \in h.activated
      BY <2>2, <2>5, MachCalm DEF BeanRight
    <3>2. v \in h.activated => v = BeanBtn(h)
      <4>1. CASE h.group \in TwoSizes
        BY <2>2, <2>4, <4>1 DEF Mach, Sized, BeanBtn
      <4>2. CASE h.group \notin TwoSizes
        BY <3>1, <4>2 DEF BeanBtn
      <4> QED
        BY <4>1, <4>2
    <3> HIDE DEF v
    <3> QED
      BY <2>2, <2>4, <3>2, BeanTapped
  <2> HIDE DEF x
  <2> QED
    BY <2>2, <2>3, <2>5, ProperChain
<1>2. CASE TuyaGrindStop
  <2>1. PICK c \in CupChoices(home) :
           home' = IF "POWDER" \in Called(home, c).machine THEN PressBean(Called(home, c), FALSE)
                   ELSE Called(home, c)
    BY <1>2 DEF TuyaGrindStop
  <2> DEFINE h == Called(home, c)
             x == PressBean(h, FALSE)
  <2>2. Mach(h) /\ Proper(home, h)
    BY <1>0, CalledProper DEF Proper
  <2>3. home' = IF "POWDER" \in h.machine THEN x ELSE h
    BY <2>1
  <2> HIDE DEF h
  <2>4. "POWDER" \in h.machine => Proper(h, x)
    BY <2>2, BeanPressed
  <2> HIDE DEF x
  <2> QED
    BY <2>2, <2>3, <2>4, ProperChain
<1>3. CASE TuyaStop
  <2>1. PICK c \in CupChoices(home) :
          LET h == Called(home, c)
          IN \/ home' = h
             \/ home' = HotClick(h, FALSE) /\ "HOT_WATER" \in h.machine
             \/ home' = StopTea(h) /\ h.group = "TEA"
             \/ home' = CupClick(h, "cup1", FALSE) /\ "cup1" \in h.selected
             \/ home' = CupClick(h, "cup2", FALSE) /\ "cup2" \in h.selected
    BY <1>3 DEF TuyaStop
  <2> DEFINE h == Called(home, c)
             w == HotClick(h, FALSE)
             x == CupClick(h, "cup1", FALSE)
             y == CupClick(h, "cup2", FALSE)
  <2>2. Mach(h) /\ Proper(home, h) /\ h.shown /\ h.group # "TEA"
    BY <1>0, CalledProper, MachType DEF Proper
  <2>3. \/ home' = h
        \/ home' = w /\ "HOT_WATER" \in h.machine
        \/ home' = x /\ "cup1" \in h.selected
        \/ home' = y /\ "cup2" \in h.selected
    BY <2>1, <2>2
  <2> HIDE DEF h
  <2>4. "HOT_WATER" \in h.machine => Proper(h, w)
    BY <2>2, JobStopped DEF Stopped
  <2>5. \A v \in Cups : v \in h.selected => Proper(h, CupClick(h, v, FALSE))
    <3>1. \A v \in Cups : v \in h.selected => v = CupBtn(h)
      BY <2>2, MachType DEF Mach, Drawn
    <3> QED
      BY <2>2, <3>1, CupTapped
  <2>6. ("cup1" \in h.selected => Proper(h, x)) /\ ("cup2" \in h.selected => Proper(h, y))
    BY <2>5 DEF Cups
  <2> HIDE DEF w, x, y
  <2> QED
    BY <2>2, <2>3, <2>4, <2>6, ProperChain
<1>4. CASE TuyaAnswer \/ TuyaBrewCoffee \/ TuyaBrewTea \/ TuyaHotWater \/ AiRecipe \/ AiHotWater \/ TuyaClean
  BY <1>4 DEF AtMachine, TuyaAnswer, TuyaBrewCoffee, TuyaBrewTea, TuyaHotWater, AiRecipe, AiHotWater, TuyaClean
<1> QED
  BY <1>1, <1>2, <1>3, <1>4 DEF Cloud
-----------------------------------------------------------------------------
(* All steps.                                                              *)

\* A step keeps what Mach says; a brew counts when the MCU has ended it; and only a
\* command can close a warning from outside.
Worked ==
    /\ Mach(home')
    /\ home'.eq = "EXTRACT_DONE" => home.eq = "EXTRACT_DONE" \/ BrewDone \/ HotWaterDone
    /\ home'.pop = "LOST" => home.pop = "LOST" \/ Cloud

LEMMA NextWorked ==
    ASSUME AtMachine, Mach(home), Next
    PROVE  Worked
<1>1. Moved(home, home') => Worked
  BY DEF Moved, Proper, Counts, Worked
<1>2. CASE User
  BY <1>1, <1>2, UserMoved
<1>3. CASE Cloud
  BY <1>3, CloudProper DEF Proper, Counts, Worked
<1>4. CASE PreheatDone
  BY <1>1, <1>4, PreheatDoneMoved
<1>5. CASE GrindDone
  BY <1>1, <1>5, GrindDoneMoved
<1>6. CASE BrewDone
  BY <1>6, BrewDoneMoved DEF Worked
<1>7. CASE HotWaterDone
  BY <1>7, HotWaterDoneMoved DEF Worked
<1>8. CASE SteamDone
  BY <1>1, <1>8, SteamDoneMoved
<1>9. CASE WarnFrame
  BY <1>1, <1>9, WarnFrameMoved
<1>10. CASE Reheat
  BY <1>10 DEF AtMachine, Reheat
<1> QED
  BY <1>2, <1>3, <1>4, <1>5, <1>6, <1>7, <1>8, <1>9, <1>10 DEF Next, Mcu

LEMMA InitMach ==
    ASSUME Init
    PROVE  Mach(home) /\ home.pop = "none"
<1> DEFINE blank(b) ==
              [shown |-> TRUE, tab |-> "AMERICANO", group |-> "AMERICANO",
               machine |-> {}, selected |-> {}, activated |-> {},
               beanItem |-> b, cupItem |-> "none", hot |-> FALSE, steam |-> FALSE,
               hotEnabled |-> TRUE, ready |-> FALSE, enough |-> FALSE,
               step |-> "WASH", eq |-> "PRE_HEATING", warn |-> {}, dealt |-> {},
               pausing |-> FALSE, snoozed |-> FALSE, pop |-> "none",
               listed |-> {}, asked |-> "none"]
<1>1. PICK b \in Beans, c \in Cups : home = SetGroup(blank(b), "AMERICANO", b, c)
  BY DEF Init
<1>2. Safe(blank(b))
  <2>1. "AMERICANO" \in AllGroups /\ "PRE_HEATING" \in EqStatus /\ "none" \in Pops
    BY DEF AllGroups, EqStatus, Pops
  <2> QED
    BY <2>1 DEF Safe, Apart, Home
<1>3. "AMERICANO" \in CoffeeTabs /\ "AMERICANO" \in AllGroups
  BY DEF CoffeeTabs, AllGroups
<1>4. Calm(blank(b)) /\ blank(b).machine = {} /\ blank(b).pop = "none"
  BY <1>2, <1>3 DEF Coffee, CoffeePops, BeansHandled, Single, Calm, NoReminder
<1>5. blank(b) \in Home /\ blank(b).tab = "AMERICANO"
  BY <1>2 DEF Safe
<1> HIDE DEF blank
<1>6. \A u \in Home : [u EXCEPT !.tab = u.tab] = u
  BY DEF Home
<1>7. [blank(b) EXCEPT !.tab = "AMERICANO"] = blank(b)
  BY <1>5, <1>6
<1> QED
  BY <1>1, <1>3, <1>4, <1>7, SetGroupMach
-----------------------------------------------------------------------------
LEMMA MachInvariant ==
    ASSUME AtMachine
    PROVE  Spec => []Mach(home)
<1>1. Init => Mach(home)
  BY InitMach
<1>2. Mach(home) /\ [Next]_home => Mach(home)'
  BY NextWorked DEF Worked
<1> QED
  BY <1>1, <1>2, PTL DEF Spec

\* A tab used at the machine shows the job that runs: so the press that the page makes by
\* itself when a job ends, is cancelled or must stop is a press of the right button.
THEOREM ButtonsMatchAtMachine ==
    ASSUME AtMachine
    PROVE  Spec => []ButtonsMatch
<1>1. Mach(home) => ButtonsMatch
  <2> SUFFICES ASSUME Mach(home) PROVE ButtonsMatch
    OBVIOUS
  <2>1. BeanBtn(home) \in Beans /\ Beans \cap {"cup1", "cup2", "rebrew"} = {}
    BY MachType DEF Beans
  <2>2. home.shown /\ "EXT" \in home.machine => CupBtn(home) \in {"cup1", "cup2"}
    BY DEF Mach, Runs, Reacts, Cups
  <2>3. CupBtn(home) \notin Beans
    BY MachType
  <2> QED
    BY <2>1, <2>2, <2>3 DEF Mach, Drawn, ButtonsMatch
<1> QED
  BY <1>1, MachInvariant, PTL

\* A heated machine that does nothing can be used, whatever ended the last job.
THEOREM UsableAtMachine ==
    ASSUME AtMachine
    PROVE  Spec => []Usable
<1>1. Mach(home) => Usable
  <2> SUFFICES ASSUME Mach(home), home.shown, home.machine = {}, home.ready
               PROVE  home.activated \cap Beans # {} /\ home.activated \cap Cups # {}
    BY MachType DEF Usable
  <2>1. Calm(home) /\ BeanRight(home) /\ CupRight(home)
    BY MachCalm
  <2> QED
    BY <2>1, MachType DEF BeanRight, CupRight
<1> QED
  BY <1>1, MachInvariant, PTL

\* A job that the MCU reports as done stays done.
THEOREM DoneStaysDoneAtMachine ==
    ASSUME AtMachine
    PROVE  Spec => DoneStaysDone
<1> DEFINE Step == /\ GrindDone /\ home.shown => "POWDER" \notin home'.machine
                   /\ BrewDone => "EXT" \notin home'.machine
                   /\ HotWaterDone => "HOT_WATER" \notin home'.machine
                   /\ SteamDone => "STEAM" \notin home'.machine
<1>1. Mach(home) /\ [Next]_home => [Step]_home
  BY GrindDoneMoved, BrewDoneMoved, HotWaterDoneMoved, SteamDoneMoved
<1> QED
  BY <1>1, MachInvariant, PTL DEF Spec, DoneStaysDone

\* A fault that must stop the work stops all of it, and steam too, in the step that
\* reports it.
THEOREM FaultStopsAtMachine ==
    ASSUME AtMachine
    PROVE  Spec => FaultStops
<1> DEFINE Step == WarnFrame /\ home.shown /\ Undealt(home') \cap NeedStop # {} => home'.machine = {}
<1>1. Mach(home) /\ [Next]_home => [Step]_home
  BY WarnFrameMoved
<1> QED
  BY <1>1, MachInvariant, PTL DEF Spec, FaultStops

\* A brew counts when the MCU has ended it, and not when it was stopped.
THEOREM CountedWhenDoneAtMachine ==
    ASSUME AtMachine
    PROVE  Spec => CountedWhenDone
<1> DEFINE Step == home.eq # "EXTRACT_DONE" /\ home'.eq = "EXTRACT_DONE" => BrewDone \/ HotWaterDone
<1>1. Mach(home) /\ [Next]_home => [Step]_home
  BY NextWorked DEF Worked
<1> QED
  BY <1>1, MachInvariant, PTL DEF Spec, CountedWhenDone

\* Confirming the last warning ends the job that was paused for it.
THEOREM ConfirmStopsAtMachine ==
    ASSUME AtMachine
    PROVE  Spec => ConfirmStops
<1> DEFINE Step == ConfirmWarn /\ home.shown /\ home.pausing /\ home'.pop = "none"
                      => home'.machine \cap Jobs = {}
<1>1. Mach(home) /\ [Next]_home => [Step]_home
  BY ConfirmWarnMoved
<1> QED
  BY <1>1, MachInvariant, PTL DEF Spec, ConfirmStops

\* Without commands from outside no handler is lost in the pop-up that it closes.
THEOREM NotLostAtMachine ==
    ASSUME AtMachine, Remote = {}
    PROVE  Spec => []NotLost
<1>1. ~Cloud
  BY DEF Cloud, TuyaGrindStart, TuyaGrindStop, TuyaAnswer, TuyaBrewCoffee, TuyaBrewTea,
         TuyaHotWater, TuyaStop, AiRecipe, AiHotWater, TuyaClean
<1>2. Init => NotLost
  BY InitMach DEF NotLost
<1>3. Mach(home) /\ NotLost /\ [Next]_home => NotLost'
  BY <1>1, NextWorked DEF Worked, NotLost
<1> QED
  BY <1>2, <1>3, MachInvariant, PTL DEF Spec
=============================================================================
