------------------------------ MODULE CleanPage ------------------------------
(***************************************************************************)
(* Cleaning the machine: the clean page (windows/page_clean.cc) with its   *)
(* steps, the end of a cleaning and the warnings as the controller reports *)
(* them, the warning and stop pop-ups, and the commands of the cloud and   *)
(* the assistant (wind_mgr.cc, pop_warn.cc, protocol/conn_mgr.cc).         *)
(*                                                                         *)
(* Water cleaning has the steps 1 to 3 and runs in step 2; calcify         *)
(* cleaning has the steps 1 to 6 and runs in the steps 3 and 5; step 0     *)
(* asks which.  Every handler runs to its end on the main thread, and is   *)
(* an operator from a state of the page to the next.  Other work of the    *)
(* machine (HomeBrew) and the screen saver (WindMgr) are left out.         *)
(***************************************************************************)
EXTENDS Naturals, Sequences

CONSTANTS
    Warnings,   \* out of AllWarnings
    Cloud,      \* the modes the cloud may ask for, out of Modes
    MaxClosing  \* bound on the pages that wait to be deleted

\* Out of water, the clean reminder, too much pressure, and a fault such as E06.
AllWarnings == {"A01", "A02", "A03", "FAULT"}
Modes == {"PIPE", "CAL", "CAL_SECOND"}
Kinds == {"WATER", "CAL"}

\* CS_CLEAN_DOWN, CS_WARN_STATUS_CHANGE, CS_WARN_CLOSE, CS_TUYA_START_CLEAN, for
\* a start and for a stop, and CS_AI_DATA_CHANGE.
Flags == {"DOWN", "WARN", "CLOSE", "START", "STOP", "AI"}

ASSUME WarningsAssumption == Warnings \subseteq AllWarnings
ASSUME CloudAssumption == Cloud \subseteq Modes

VARIABLE clean

Page == [water : BOOLEAN,           \* mIsSelectWater
         step : 0..7,               \* mPageStep
         rounds : 0..2]             \* calcify rounds the controller has ended for it

Clean == [shown : BOOLEAN,          \* is a clean page mShowPage?
          page : Page,              \* that page
          closing : Seq(Page),      \* the clean pages on mClosePageList
          bits : SUBSET Kinds,      \* the cleaning bits of machineState
          told : Kinds \cup {"none"},      \* what the controller was last asked to do
          warn : SUBSET AllWarnings, dealt : SUBSET AllWarnings, \* warnState, warnIsDealState
          pop : {"none", "WARN", "STOP_CLEAN"},
          listed : SUBSET AllWarnings,     \* mWarnData of an open warning
          asked : AllWarnings \cup {"none"},      \* warnShowType
          mode : Modes,             \* tuyaCleanMode
          flags : SUBSET Flags]     \* statusChangeFlag, as updateDate left it

New(step) == [water |-> FALSE, step |-> step, rounds |-> 0]

KindOf(p) == IF p.water THEN "WATER" ELSE "CAL"
Runs(p) == IF p.water THEN p.step = 2 ELSE p.step \in {3, 5}

\* Is mRunningGroup visible?
Running(s) == s.shown /\ Runs(s.page)

Undealt(s) == s.warn \ s.dealt

\* initWarnText.
FirstOf(ws) ==
    CASE "FAULT" \in ws -> "FAULT" [] "A01" \in ws -> "A01" [] "A02" \in ws -> "A02"
      [] "A03" \in ws -> "A03" [] OTHER -> "none"
-----------------------------------------------------------------------------
\* showPrevPage and showPage(PAGE_HOME): the page before the clean page stays for all others.
Leave(s) ==
    IF s.shown THEN [s EXCEPT !.shown = FALSE, !.closing = Append(@, s.page)] ELSE s

\* showPage(PAGE_CLEAN): a page that is not yet deleted is shown again as it was left.
Open(s) ==
    IF s.shown THEN s
    ELSE IF s.closing # << >> THEN [s EXCEPT !.shown = TRUE, !.page = Head(s.closing),
                                             !.closing = Tail(@)]
    ELSE [s EXCEPT !.shown = TRUE, !.page = New(0)]

\* showPage(PAGE_CLEAN_CALCIFY): always another page.
OpenCalcify(s) ==
    [s EXCEPT !.shown = TRUE, !.page = New(1),
              !.closing = IF s.shown THEN Append(@, s.page) ELSE @]

\* setCleanSelf(true) with the bit of machineState.
Start(s, kind) == [s EXCEPT !.bits = @ \cup {kind}, !.told = kind]

\* changePageStep.
ChangeStep(s) ==
    LET last == IF s.page.water THEN 3 ELSE 6
    IN  IF s.page.step > last THEN Leave(s)
        ELSE IF Runs(s.page) THEN Start(s, KindOf(s.page))
        ELSE s

GoTo(s, water, step) ==
    LET rounds == IF water \/ step <= 3 THEN 0 ELSE s.page.rounds
    IN  ChangeStep([s EXCEPT !.page = [water |-> water, step |-> step, rounds |-> rounds]])

Forward(s) == GoTo(s, s.page.water, s.page.step + 1)
Backward(s) == GoTo(s, s.page.water, s.page.step - 1)

\* Mutant: the controller is not told.
Stop_NotTold(s, kind) == Leave([s EXCEPT !.bits = @ \ {kind}])

\* The stop of the user and of the cloud: of the kind selected, whatever runs.
Stop(s, kind) == Leave([s EXCEPT !.bits = @ \ {kind}, !.told = "none"])
-----------------------------------------------------------------------------
(* PageClean::updatePageData.                                              *)

Counted(s) == [s EXCEPT !.page.rounds = IF ~s.page.water /\ Runs(s.page) /\ @ < 2 THEN @ + 1 ELSE @]

\* Mutant: the end of a cleaning moves the page on whatever it shows.
Down_Unchecked(s) == Forward(Counted(s))

\* Cleaning done.
Down(s) == IF Running(s) THEN Forward(Counted(s)) ELSE s

\* Out of water: the controller is told to stop, and the rest of the handler is skipped.
Pauses(s) == s.bits # {} /\ "A01" \in s.warn

\* Mutant: the first step is not the last to go back to.
StepBack_NoFloor(s) ==
    IF s.bits # {} /\ s.warn # {} /\ s.warn \cap {"A02", "A03"} = {}
    THEN [s EXCEPT !.page.step = @ - 1] ELSE s

\* Any other fault goes back a step, every time the warnings change.
StepBack(s) ==
    IF s.bits # {} /\ s.warn # {} /\ s.warn \cap {"A02", "A03"} = {}
    THEN IF s.page.step > 0 THEN Backward(s) ELSE ChangeStep(s)
    ELSE s

Resume(s) == ChangeStep(s)

\* Mutant: the second round may be asked for at any time.
CloudStarts_Second(s) ==
    CASE s.mode = "CAL_SECOND" -> Forward(s)
      [] s.mode = "PIPE" -> GoTo(s, TRUE, 2)
      [] s.mode = "CAL" -> GoTo(s, FALSE, 3)

\* CS_TUYA_START_CLEAN with tuyaStartCleaning.
CloudStarts(s) ==
    CASE s.mode = "CAL_SECOND" -> IF ~s.page.water /\ s.page.step = 4 THEN Forward(s) ELSE s
      [] s.mode = "PIPE" -> GoTo(s, TRUE, 2)
      [] s.mode = "CAL" -> GoTo(s, FALSE, 3)

\* The handlers in their order, each for the flag it asks for.  They go on with a page
\* that an earlier one has left.
UpdatePage(s, flags) ==
    LET a == IF "DOWN" \in flags THEN Down(s) ELSE s
        b == IF "WARN" \in flags THEN StepBack(a) ELSE a
        c == IF "CLOSE" \in flags THEN Resume(b) ELSE b
    IN  IF ~s.shown THEN s
        ELSE IF "WARN" \in flags /\ Pauses(a) THEN [a EXCEPT !.told = "none"]
        ELSE IF "START" \in flags THEN CloudStarts(c)
        ELSE IF "STOP" \in flags THEN Stop(c, KindOf(c.page))
        ELSE c
-----------------------------------------------------------------------------
(* The warning pop-up and CWindMgr::updateDate.                            *)

List(s, ws) == [s EXCEPT !.pop = "WARN", !.listed = ws, !.asked = FirstOf(ws)]
ClosePop(s) == [s EXCEPT !.pop = "none", !.listed = {}, !.asked = "none"]

\* Another pop-up is cancelled for the warning; when nothing is left to tell, the warning
\* closes and the page hears nothing of the change.
UpdatePop(s) ==
    IF s.pop # "WARN" THEN IF Undealt(s) # {} THEN List(s, Undealt(s)) ELSE s
    ELSE IF Undealt(s) = {} THEN ClosePop(s)
    ELSE IF s.asked \in Undealt(s) THEN [s EXCEPT !.listed = Undealt(s)]
    ELSE List(s, Undealt(s))

\* A start that finds another page only opens the clean page; the flags stay for the next
\* call.  The assistant goes home, and a pop-up stays open.
Update(s, new) ==
    LET flags == s.flags \cup new
        p == IF "WARN" \in flags THEN UpdatePop(s) ELSE s
        left == IF "WARN" \in flags /\ s.pop = "WARN" /\ Undealt(s) = {} THEN flags \ {"WARN"} ELSE flags
    IN  IF "START" \in flags /\ ~s.shown THEN [Open(p) EXCEPT !.flags = left]
        ELSE [UpdatePage(IF "AI" \in left THEN Leave(p) ELSE p, left) EXCEPT !.flags = {}]
-----------------------------------------------------------------------------
(* What happens.                                                           *)

Init ==
    clean = [shown |-> FALSE, page |-> New(0), closing |-> << >>, bits |-> {}, told |-> "none",
             warn |-> {}, dealt |-> {}, pop |-> "none", listed |-> {}, asked |-> "none",
             mode |-> "PIPE", flags |-> {}]

\* Pages are not switched so often that more than MaxClosing wait.
Room == Len(clean.closing) < MaxClosing

\* CMD_CLEAN_SELF with 0: the end of the water cleaning if its bit is set, else of the other.
CleanDone ==
    /\ Room /\ clean.bits # {}
    /\ LET kind == IF "WATER" \in clean.bits THEN "WATER" ELSE "CAL"
       IN  clean' = Update([clean EXCEPT !.bits = @ \ {kind}, !.told = "none"], {"DOWN"})

\* CMD_ERROR.
WarnFrame ==
    /\ Room
    /\ \E ws \in SUBSET Warnings \ {clean.warn} :
          clean' = Update([clean EXCEPT !.warn = ws, !.dealt = @ \cap ws], {"WARN"})

\* Any other frame.
OtherFrame == Room /\ clean.flags # {} /\ clean' = Update(clean, {})

\* "OK", or "clean now", of a warning.
PopEnter ==
    /\ Room /\ clean.pop = "WARN"
    /\ LET s == [clean EXCEPT !.dealt = @ \cup ({clean.asked} \ {"none"})]
           rest == s.listed \ {s.asked}
       IN  clean' = IF s.asked = "A02"
                    THEN ClosePop(Update(OpenCalcify(s), {"CLOSE"}))
                    ELSE IF rest # {} THEN List(s, rest)
                    ELSE ClosePop(Update(s, {"CLOSE"}))

\* "Clean later".
PopLater ==
    /\ Room /\ clean.pop = "WARN" /\ clean.asked = "A02"
    /\ clean' = ClosePop(Update([clean EXCEPT !.dealt = @ \cup {"A02"}], {"CLOSE"}))

\* The buttons of the page, which a pop-up hides.
Button == Room /\ clean.shown /\ clean.pop = "none"

Select ==
    /\ Button /\ clean.page.step = 0
    /\ \E water \in BOOLEAN : clean' = GoTo(clean, water, 1)

Enter ==
    /\ Button /\ clean.page.step \in (IF clean.page.water THEN {1, 3} ELSE {1, 2, 4, 6})
    /\ clean' = Forward(clean)

Cancel == Button /\ clean.page.step = 1 /\ clean' = Backward(clean)

\* title_back.  A calcify round cannot be stopped, only the pause between the two can.
Back ==
    /\ Button
    /\ IF Running(clean) \/ (~clean.page.water /\ clean.page.step = 4)
       THEN /\ clean.page.water \/ clean.page.step = 4
            /\ clean' = [clean EXCEPT !.pop = "STOP_CLEAN"]
       ELSE clean' = Leave(clean)

\* The callback of the stop pop-up; if the cloud or the assistant made the page go, it works
\* on the memory of a page that is being deleted.
StopEnter ==
    /\ Room /\ clean.pop = "STOP_CLEAN"
    /\ \E kind \in Kinds : /\ clean.shown => kind = KindOf(clean.page)
                           /\ clean' = ClosePop(Stop(clean, kind))

StopCancel == clean.pop = "STOP_CLEAN" /\ clean' = ClosePop(clean)

\* handleMessage, 100 ms after the last switch of pages.
DeletePages == clean.closing # << >> /\ clean' = [clean EXCEPT !.closing = << >>]

CloudStart == Room /\ \E m \in Cloud : clean' = Update([clean EXCEPT !.mode = m], {"START"})

\* A stop takes the place of a start that waits.
CloudStop == Room /\ Cloud # {} /\ clean' = Update([clean EXCEPT !.flags = @ \ {"START"}], {"STOP"})

AiData == Room /\ clean' = Update(clean, {"AI"})

\* A brew command closes the stop pop-up and goes home.  Over a warning it does not return
\* (WindMgr); one that meets a start that waits is left out.
TuyaBrew ==
    /\ Room /\ clean.flags = {} /\ clean.pop # "WARN"
    /\ clean' = Leave(ClosePop(clean))

Next ==
    \/ CleanDone \/ WarnFrame \/ OtherFrame
    \/ PopEnter \/ PopLater \/ Select \/ Enter \/ Cancel \/ Back \/ StopEnter \/ StopCancel
    \/ DeletePages
    \/ CloudStart \/ CloudStop \/ AiData \/ TuyaBrew

Spec == Init /\ [][Next]_clean
-----------------------------------------------------------------------------
TypeOK == clean \in Clean

\* Calcify cleaning is told to be done after two rounds that the controller ended, whatever
\* warnings, commands and pages come in between.
TwoRounds == clean.shown /\ ~clean.page.water /\ clean.page.step = 6 => clean.page.rounds = 2

\* The controller never cleans on an order that the program has forgotten: the bit that
\* makes its report count and keeps the pages from being switched is set.
ToldHasBit == clean.told # "none" => clean.told \in clean.bits

\* No report of the controller starts a cleaning: only buttons and the cloud do.  The
\* exception is a fault that goes on, which steps back from the pause into round one.
FramesStartNothing ==
    [][/\ clean.told = "none" /\ clean'.told # "none"
       /\ clean.flags = {} /\ "FAULT" \notin clean'.warn
       => clean'.warn = clean.warn /\ clean.bits \subseteq clean'.bits]_clean

\* While the user is told to wait for the cleaning, and nothing is wrong, it is going on.
BusyIsCleaning == Running(clean) /\ ~clean.page.water /\ clean.warn = {} => clean.told = "CAL"
=============================================================================
