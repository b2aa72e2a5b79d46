------------------------------ MODULE WindMgr ------------------------------
(***************************************************************************)
(* The window manager: which page object is shown, which are waiting to be *)
(* deleted, the back list, the page put to sleep by the screen saver and   *)
(* the one pop-up (src/src/windows/wind_mgr.cc, with the click handlers of *)
(* page_base.cc, page_screensaver.cc, page_setting.cc and page_factory.cc  *)
(* that call it).                                                          *)
(*                                                                         *)
(* Pages are heap objects, so that a pointer to a deleted page can be told *)
(* from a pointer to a live one: heap[o] is the type of the page allocated *)
(* in slot o, "free" when there is none.  A new page takes any free slot,  *)
(* so a stale pointer may alias a younger page, as it may in the program.  *)
(***************************************************************************)
EXTENDS Naturals, Sequences, SequencesExt

CONSTANTS
    Objs,       \* the slots of the heap that pages are allocated in
    Null,       \* the null pointer
    MaxPages    \* bound on the back list: no handler runs that could exceed it

ASSUME ObjsAssumption == Null \notin Objs
ASSUME MaxPagesAssumption == MaxPages \in Nat \ {0}

VARIABLES
    heap,         \* [Objs -> PageTypes \cup {"free"}]
    show,         \* mShowPage
    homePage,     \* mHomePage, never deleted
    settingPage,  \* mSettingPage, never deleted
    preAction,    \* mPreActionPage: the page the screen saver put to sleep
    closeList,    \* mClosePageList: pages the delayed message will delete
    closeTimer,   \* is MSG_PAGE_DELAY_CLOSE on its way?
    pageList,     \* mPageList: the types shown, for "back"
    pop,          \* mPopPage: its kind and the page its callbacks captured
    work,         \* the groups of bits set in g_appData.machineState
    cleanReq,     \* CS_TUYA_START_CLEAN with tuyaStartCleaning is pending
    factoryMode,  \* g_appData.mIsFactory
    orphaned      \* history: the page under an open pop-up was made to leave,
                  \* by the cloud's stop or by the assistant

pageVars == <<heap, show, homePage, settingPage, preAction, closeList,
              closeTimer, pageList, factoryMode>>
vars == <<pageVars, pop, work, cleanReq, orphaned>>

PageTypes == {"HOME", "SCREENSAVER", "SETTING", "CLEAN", "FACTORY", "SCALE"}
PopKinds == {"WARN", "STOP_CLEAN", "SETTING"}
NoPop == [kind |-> "none", owner |-> Null]

Live(o) == o \in Objs /\ heap[o] # "free"
Shown == heap[show]

(***************************************************************************)
(* The object the manager works with is a page of the type asked for, but  *)
(* the calcify page is a PageClean of type PAGE_CLEAN: asked for as        *)
(* PAGE_CLEAN_CALCIFY it equals no page that exists.                       *)
(***************************************************************************)
TypeOfRequest(t) == IF t = "CALCIFY" THEN "CLEAN" ELSE t

\* The first SETTING or CLEAN entry is erased before either is listed again.
\* The || of the source binds weaker than its &&: for CLEAN the entry goes
\* even when isNewPage is false.
IsFirstMenu(list, i) == /\ i \in 1..Len(list)
                        /\ list[i] \in {"SETTING", "CLEAN"}
                        /\ \A j \in 1..(i - 1) : list[j] \notin {"SETTING", "CLEAN"}

WithoutMenu(list) ==
    IF \E i \in 1..Len(list) : IsFirstMenu(list, i)
    THEN RemoveAt(list, CHOOSE i \in 1..Len(list) : IsFirstMenu(list, i))
    ELSE list

Unlisted(t, isNew, list) ==
    IF (isNew /\ t = "SETTING") \/ t \in {"CLEAN", "CALCIFY"} THEN WithoutMenu(list) ELSE list

\* Mutant: the calcify page is listed under the type asked for.
Listed_AsAsked(t, isNew, list) ==
    LET l == Unlisted(t, isNew, list) IN IF isNew THEN Append(l, t) ELSE l

Listed(t, isNew, list) ==
    LET l == Unlisted(t, isNew, list)
    IN IF isNew THEN Append(l, TypeOfRequest(t)) ELSE l

\* The shown page leaves: home and setting stay allocated, the page under the
\* screen saver is remembered, any other is queued for deletion.
Leaving == IF show \in {homePage, settingPage} THEN {} ELSE {show}

\* Mutant: the page under the screen saver is queued like any other.
QueuedFor_Always(t) == closeList \cup Leaving

QueuedFor(t) == IF t = "SCREENSAVER" THEN closeList ELSE closeList \cup Leaving
SleeperFor(t) == IF t = "SCREENSAVER" THEN show ELSE preAction

\* Mutant: showing a kept page does not forget the sleeping one.
ShowKept_KeepsSleeper(t) ==
    /\ t \in {"HOME", "SETTING"}
    /\ show' = IF t = "HOME" THEN homePage ELSE settingPage
    /\ closeList' = QueuedFor(t)
    /\ UNCHANGED <<heap, preAction, factoryMode>>

\* PAGE_HOME and PAGE_SETTING are kept: their one object is shown again.
ShowKept(t) ==
    /\ t \in {"HOME", "SETTING"}
    /\ show' = IF t = "HOME" THEN homePage ELSE settingPage
    /\ preAction' = Null
    /\ closeList' = QueuedFor(t)
    /\ UNCHANGED <<heap, factoryMode>>

\* Any other page asked for during sleep: the sleeping page comes back instead.
ShowSleeper(t) ==
    /\ t \notin {"HOME", "SETTING", "SCREENSAVER"}
    /\ SleeperFor(t) # Null
    /\ show' = preAction
    /\ preAction' = Null
    /\ closeList' = QueuedFor(t)
    /\ UNCHANGED <<heap, factoryMode>>

NoSleeperTakesOver(t) ==
    /\ t \notin {"HOME", "SETTING"}
    /\ t = "SCREENSAVER" \/ preAction = Null

\* Mutant: the page shown again stays on the list.
ShowReused_StaysQueued(t) ==
    /\ NoSleeperTakesOver(t)
    /\ \E o \in QueuedFor(t) : heap[o] = t /\ show' = o
    /\ closeList' = QueuedFor(t)
    /\ preAction' = SleeperFor(t)
    /\ UNCHANGED <<heap, factoryMode>>

\* A page of that type still waiting for deletion is taken off the list.
ShowReused(t) ==
    /\ NoSleeperTakesOver(t)
    /\ \E o \in QueuedFor(t) :
          /\ heap[o] = t
          /\ show' = o
          /\ closeList' = QueuedFor(t) \ {o}
    /\ preAction' = SleeperFor(t)
    /\ UNCHANGED <<heap, factoryMode>>

\* Otherwise a page is created; PageFactory's constructor turns factory mode on.
ShowNew(t) ==
    /\ NoSleeperTakesOver(t)
    /\ \A o \in QueuedFor(t) : heap[o] # t
    /\ \E o \in Objs :
          /\ heap[o] = "free"
          /\ heap' = [heap EXCEPT ![o] = TypeOfRequest(t)]
          /\ show' = o
    /\ closeList' = QueuedFor(t)
    /\ preAction' = SleeperFor(t)
    /\ factoryMode' = (factoryMode \/ t = "FACTORY")

\* Mutant: the delayed message is removed and not sent again.
ShowPage_NoMessage(t, isNew, list) ==
    \/ Shown = t /\ pageList' = list /\ UNCHANGED <<heap, show, homePage,
          settingPage, preAction, closeList, closeTimer, factoryMode>>
    \/ /\ Shown # t
       /\ Len(Listed(t, isNew, list)) <= MaxPages
       /\ pageList' = Listed(t, isNew, list)
       /\ closeTimer' = FALSE
       /\ ShowKept(t) \/ ShowSleeper(t) \/ ShowReused(t) \/ ShowNew(t)
       /\ UNCHANGED <<homePage, settingPage>>

\* showPage(t, isNew), the back list being list when it is called.
ShowPage(t, isNew, list) ==
    \/ /\ Shown = t
       /\ pageList' = list
       /\ UNCHANGED <<heap, show, homePage, settingPage, preAction, closeList,
                      closeTimer, factoryMode>>
    \/ /\ Shown # t
       /\ Len(Listed(t, isNew, list)) <= MaxPages
       /\ pageList' = Listed(t, isNew, list)
       /\ closeTimer' = TRUE
       /\ ShowKept(t) \/ ShowSleeper(t) \/ ShowReused(t) \/ ShowNew(t)
       /\ UNCHANGED <<homePage, settingPage>>

ShowPrevPage ==
    \/ Len(pageList) <= 1 /\ ShowPage("HOME", TRUE, <<>>)
    \/ Len(pageList) > 1 /\ ShowPage(Last(Front(pageList)), FALSE, Front(pageList))

ShowHomePage == ShowPage("HOME", TRUE, IF Len(pageList) > 1 THEN <<>> ELSE pageList)
-----------------------------------------------------------------------------
\* initWindow: the setting page, then the home page.
Init ==
    /\ \E h, s \in Objs :
          /\ h # s
          /\ homePage = h /\ settingPage = s /\ show = h
          /\ heap = [o \in Objs |-> IF o = h THEN "HOME" ELSE
                                    IF o = s THEN "SETTING" ELSE "free"]
    /\ preAction = Null
    /\ closeList = {}
    /\ closeTimer = TRUE
    /\ pageList = <<"SETTING", "HOME">>
    /\ pop = NoPop
    /\ work = {}
    /\ cleanReq = FALSE
    /\ factoryMode = FALSE
    /\ orphaned = FALSE

\* handleMessage: every queued page is deleted.  PageFactory's destructor
\* assigns TRUE to mIsFactory.
DelayClose ==
    /\ closeTimer
    /\ heap' = [o \in Objs |-> IF o \in closeList THEN "free" ELSE heap[o]]
    /\ factoryMode' = (factoryMode \/ \E o \in closeList : heap[o] = "FACTORY")
    /\ closeList' = {}
    /\ closeTimer' = FALSE
    /\ UNCHANGED <<show, homePage, settingPage, preAction, pageList, pop, work,
                   cleanReq, orphaned>>

\* The set-up icon of the title bar, refused while the machine works.  A pop-up
\* hides the page: the user reaches it only when there is none.
ClickSetup ==
    /\ pop = NoPop
    /\ Shown \in {"HOME", "CLEAN", "SCALE"}
    /\ work = {}
    /\ ShowPage("SETTING", TRUE, pageList)
    /\ UNCHANGED <<pop, work, cleanReq, orphaned>>

\* title_back of the setting, calibration and clean pages, the factory page's
\* exit, the last step of a cleaning.
ClickBack ==
    /\ pop = NoPop
    /\ Shown \in {"SETTING", "SCALE", "FACTORY", "CLEAN"}
    /\ ShowPrevPage
    /\ UNCHANGED <<pop, work, cleanReq, orphaned>>

\* The two hidden entries of the setting page.
ClickScale ==
    /\ pop = NoPop
    /\ Shown = "SETTING"
    /\ ShowPage("SCALE", FALSE, pageList)
    /\ UNCHANGED <<pop, work, cleanReq, orphaned>>

ClickFactory ==
    /\ pop = NoPop
    /\ Shown = "SETTING"
    /\ ShowPage("FACTORY", TRUE, pageList)
    /\ UNCHANGED <<pop, work, cleanReq, orphaned>>

\* screenSaver: five idle minutes, no work and no warning shown.
ScreenSaver ==
    /\ work = {}
    /\ Shown \notin {"FACTORY", "SCREENSAVER"}
    /\ pop.kind # "WARN"
    /\ pop' = NoPop
    /\ ShowPage("SCREENSAVER", TRUE, pageList)
    /\ UNCHANGED <<work, cleanReq, orphaned>>

\* A touch wakes the machine.
Wake ==
    /\ pop = NoPop
    /\ Shown = "SCREENSAVER"
    /\ ShowPrevPage
    /\ UNCHANGED <<pop, work, cleanReq, orphaned>>

\* Brewing started at the home page, and ended by the user or the MCU.
StartBrew ==
    /\ pop = NoPop
    /\ Shown = "HOME"
    /\ work' = work \cup {"BREW"}
    /\ UNCHANGED <<pageVars, pop, cleanReq, orphaned>>

EndWork ==
    /\ \E w \in work : work' = work \ {w}
    /\ UNCHANGED <<pageVars, pop, cleanReq, orphaned>>

\* A running step of the clean page.
StartClean ==
    /\ pop = NoPop
    /\ Shown = "CLEAN"
    /\ work' = work \cup {"CLEAN"}
    /\ UNCHANGED <<pageVars, pop, cleanReq, orphaned>>

\* title_back while cleaning asks first; the answer runs in the page that asked.
OpenStopClean ==
    /\ pop = NoPop
    /\ Shown = "CLEAN"
    /\ pop' = [kind |-> "STOP_CLEAN", owner |-> show]
    /\ UNCHANGED <<pageVars, work, cleanReq, orphaned>>

\* A deleted page's mIsSelectWater may hold either value: the bit of the other
\* cleaning may be cleared instead.
EnterStopClean ==
    /\ pop.kind = "STOP_CLEAN"
    /\ ShowPrevPage
    /\ \/ work' = work \ {"CLEAN"}
       \/ ~Live(pop.owner) /\ work' = work
    /\ pop' = NoPop
    /\ orphaned' = FALSE
    /\ UNCHANGED cleanReq

\* The hot water, grind and time pop-ups of the setting page.
OpenSettingPop ==
    /\ pop = NoPop
    /\ Shown = "SETTING"
    /\ pop' = [kind |-> "SETTING", owner |-> show]
    /\ UNCHANGED <<pageVars, work, cleanReq, orphaned>>

\* Either button of a setting pop-up, or "no" to stopping.
ClosePop ==
    /\ pop.kind \in {"STOP_CLEAN", "SETTING"}
    /\ pop' = NoPop
    /\ orphaned' = FALSE
    /\ UNCHANGED <<pageVars, work, cleanReq>>

\* updateDate with an undealt warning: it replaces any other pop-up, but
\* showPopPage refuses to cover the screen saver.
WarnChange ==
    /\ pop.kind # "WARN"
    /\ pop' = IF Shown = "SCREENSAVER" THEN NoPop ELSE [kind |-> "WARN", owner |-> Null]
    /\ orphaned' = FALSE
    /\ UNCHANGED <<pageVars, work, cleanReq>>

\* "Clean now" of the A02 reminder opens a calcify page, any other button closes.
EnterWarn ==
    /\ pop.kind = "WARN"
    /\ pop' = NoPop
    /\ ShowPage("CALCIFY", TRUE, pageList) \/ UNCHANGED pageVars
    /\ UNCHANGED <<work, cleanReq, orphaned>>

\* Mutant: the pop-up of the page left behind stays open.
TuyaBrew_KeepsPop ==
    /\ pop.kind # "WARN"
    /\ ShowHomePage
    /\ \E w \in {work, work \cup {"BREW"}, work \ {"BREW"}} : work' = w
    /\ UNCHANGED <<cleanReq, pop, orphaned>>

\* updateDate with CS_TUYA_START_GRIND or CS_TUYA_START_EXT.  Over a warning the
\* call never returns: its cancel button calls updateDate again with the flag
\* still set.  That process is lost, so nothing follows it here.
TuyaBrew ==
    /\ pop.kind # "WARN"
    /\ pop' = NoPop
    /\ orphaned' = FALSE
    /\ ShowHomePage
    /\ \E w \in {work, work \cup {"BREW"}, work \ {"BREW"}} : work' = w
    /\ UNCHANGED cleanReq

\* The cloud asks for a cleaning: the flag stays set until the clean page is
\* there to take it, one updateDate later at the earliest.
TuyaCleanStart ==
    /\ ~cleanReq
    /\ cleanReq' = TRUE
    /\ UNCHANGED <<pageVars, pop, work, orphaned>>

UpdateCleanStart ==
    /\ cleanReq
    /\ \/ /\ Shown # "CLEAN"
          /\ ShowPage("CLEAN", TRUE, pageList)
          /\ UNCHANGED <<work, cleanReq>>
       \/ /\ Shown = "CLEAN"
          /\ work' = work \cup {"CLEAN"}
          /\ cleanReq' = FALSE
          /\ UNCHANGED pageVars
    /\ UNCHANGED <<pop, orphaned>>

\* The cloud stops a cleaning: the clean page leaves, a pop-up it opened stays.
TuyaCleanStop ==
    /\ Shown = "CLEAN"
    /\ ShowPrevPage
    /\ work' = work \ {"CLEAN"}
    /\ cleanReq' = FALSE
    /\ orphaned' = (orphaned \/ pop.kind = "STOP_CLEAN")
    /\ UNCHANGED pop

\* The pop-up after the assistant's request: as it was or, when a warning refuses
\* hot water, replaced by that warning.
AfterRequest ==
    \/ pop' = pop /\ orphaned' = (orphaned \/ pop.kind = "STOP_CLEAN")
    \/ pop' = [kind |-> "WARN", owner |-> Null] /\ orphaned' = FALSE

\* updateDate with CS_AI_DATA_CHANGE: the assistant goes home, whatever the page,
\* and leaves a pop-up open; the home page may then press the hot water button.
\* A start of a cleaning still pending opens its page and returns before this, and
\* on the clean page its flag is cleared with all others: the home page took it not.
AiData ==
    /\ cleanReq => Shown = "CLEAN"
    /\ ShowHomePage
    /\ AfterRequest
    /\ \E w \in {work, work \cup {"BREW"}, work \ {"BREW"}} : work' = w
    /\ cleanReq' = FALSE

Next ==
    \/ DelayClose \/ ClickSetup \/ ClickBack \/ ClickScale \/ ClickFactory
    \/ ScreenSaver \/ Wake \/ StartBrew \/ EndWork \/ StartClean
    \/ OpenStopClean \/ EnterStopClean \/ OpenSettingPop \/ ClosePop
    \/ WarnChange \/ EnterWarn \/ TuyaBrew
    \/ TuyaCleanStart \/ UpdateCleanStart \/ TuyaCleanStop \/ AiData

Spec == Init /\ [][Next]_vars
-----------------------------------------------------------------------------
TypeOK ==
    /\ heap \in [Objs -> PageTypes \cup {"free"}]
    /\ show \in Objs /\ homePage \in Objs /\ settingPage \in Objs
    /\ preAction \in Objs \cup {Null}
    /\ closeList \in SUBSET Objs
    /\ closeTimer \in BOOLEAN
    /\ pageList \in Seq(PageTypes)
    /\ pop \in [kind : PopKinds \cup {"none"}, owner : Objs \cup {Null}]
    /\ work \in SUBSET {"BREW", "CLEAN"}
    /\ cleanReq \in BOOLEAN /\ factoryMode \in BOOLEAN /\ orphaned \in BOOLEAN

\* No use after delete: every page the manager can still reach is allocated,
\* whatever interleaving of navigation and delayed deletion came before
\* (wind_mgr.cc:127, 155-160, 378-384).
PointersLive ==
    /\ Live(show)
    /\ Live(homePage) /\ heap[homePage] = "HOME"
    /\ Live(settingPage) /\ heap[settingPage] = "SETTING"
    /\ preAction # Null => Live(preAction)
    /\ \A o \in closeList : Live(o)

\* A page that is shown, asleep or kept is not queued for deletion, so the
\* delayed message deletes nothing in use and nothing twice.
NothingInUseIsQueued ==
    closeList \cap {show, preAction, homePage, settingPage} = {}

\* There is a sleeping page exactly while the screen saver is shown, and it is
\* not the screen saver itself (wind_mgr.h:129).
SleeperIffScreenSaver ==
    /\ preAction # Null <=> Shown = "SCREENSAVER"
    /\ preAction # Null => heap[preAction] # "SCREENSAVER"

\* Queued pages are always going to be deleted: a delayed message is under way
\* (wind_mgr.cc:123, 133: the message is removed and sent again by each switch).
QueuedHasTimer == closeList # {} => closeTimer

\* The page whose callbacks an open pop-up captured still exists (page_clean.cc:324),
\* unless it was made to leave under the pop-up: by the cloud, which stopped the
\* cleaning (page_clean.cc:174), or by the assistant, which went home
\* (wind_mgr.cc:357).  No other sequence of switches and deletions takes it away.
PopOwnerLive == pop.kind \in {"STOP_CLEAN", "SETTING"} /\ ~orphaned => Live(pop.owner)
=============================================================================
