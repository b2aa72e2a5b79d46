-------------------------- MODULE WindMgr_proofs --------------------------
(***************************************************************************)
(* The window manager never reaches a deleted page, for every heap and     *)
(* every bound on the back list.  The inductive invariant adds to the      *)
(* claim what makes it inductive: what is in use is not queued, and a      *)
(* sleeping page exists exactly while the screen saver is shown.           *)
(***************************************************************************)
EXTENDS WindMgr, SequenceTheorems, TLAPS

\* The parts of TypeOK about the pages, and about everything else.
PageTypeOK ==
    /\ heap \in [Objs -> PageTypes \cup {"free"}]
    /\ show \in Objs /\ homePage \in Objs /\ settingPage \in Objs
    /\ preAction \in Objs \cup {Null}
    /\ closeList \in SUBSET Objs
    /\ closeTimer \in BOOLEAN
    /\ pageList \in Seq(PageTypes)
    /\ factoryMode \in BOOLEAN

RestTypeOK ==
    /\ pop \in [kind : PopKinds \cup {"none"}, owner : Objs \cup {Null}]
    /\ work \in SUBSET {"BREW", "CLEAN"}
    /\ cleanReq \in BOOLEAN
    /\ orphaned \in BOOLEAN

PageInv == /\ PageTypeOK
           /\ PointersLive
           /\ NothingInUseIsQueued
           /\ SleeperIffScreenSaver
           /\ QueuedHasTimer

IInv == PageInv /\ RestTypeOK

Requests == PageTypes \cup {"CALCIFY"}

\* Taking an element out of a list of types leaves a list of types.
LEMMA RemoveAtType ==
    ASSUME NEW S, NEW s \in Seq(S), NEW i \in 1..Len(s)
    PROVE  RemoveAt(s, i) \in Seq(S)
<1>1. SubSeq(s, 1, i - 1) \in Seq(S)
  BY SubSeqProperties
<1>2. SubSeq(s, i + 1, Len(s)) \in Seq(S)
  BY SubSeqProperties
<1>. QED  BY <1>1, <1>2, ConcatProperties DEF RemoveAt

\* The back list stays a list of page types whatever is asked for.
LEMMA ListedType ==
    ASSUME NEW t \in Requests, NEW isNew \in BOOLEAN, NEW list \in Seq(PageTypes)
    PROVE  Listed(t, isNew, list) \in Seq(PageTypes)
<1>1. WithoutMenu(list) \in Seq(PageTypes)
  <2>1. CASE \E i \in 1..Len(list) : IsFirstMenu(list, i)
    <3>. DEFINE i == CHOOSE i \in 1..Len(list) : IsFirstMenu(list, i)
    <3>1. i \in 1..Len(list)
      BY <2>1
    <3>2. RemoveAt(list, i) \in Seq(PageTypes)
      BY <3>1, RemoveAtType
    <3>. QED  BY <2>1, <3>2 DEF WithoutMenu
  <2>2. CASE ~ \E i \in 1..Len(list) : IsFirstMenu(list, i)
    BY <2>2 DEF WithoutMenu
  <2>. QED  BY <2>1, <2>2
<1>2. Unlisted(t, isNew, list) \in Seq(PageTypes)
  BY <1>1 DEF Unlisted
<1>3. TypeOfRequest(t) \in PageTypes
  BY DEF TypeOfRequest, Requests, PageTypes
<1>. QED  BY <1>2, <1>3 DEF Listed

\* A page switch keeps every part of the invariant about pages.
LEMMA ShowPageInv ==
    ASSUME PageInv, NEW t \in Requests, NEW isNew \in BOOLEAN,
           NEW list \in Seq(PageTypes), ShowPage(t, isNew, list)
    PROVE  PageInv'
<1>. USE ObjsAssumption
<1>1. CASE /\ Shown = t /\ pageList' = list
           /\ UNCHANGED <<heap, show, homePage, settingPage, preAction,
                          closeList, closeTimer, factoryMode>>
  BY <1>1 DEF PageInv, PageTypeOK, PointersLive, Live, NothingInUseIsQueued,
              SleeperIffScreenSaver, QueuedHasTimer, Shown
<1>2. CASE /\ Shown # t
           /\ pageList' = Listed(t, isNew, list)
           /\ closeTimer' = TRUE
           /\ ShowKept(t) \/ ShowSleeper(t) \/ ShowReused(t) \/ ShowNew(t)
           /\ UNCHANGED <<homePage, settingPage>>
  <2>. USE <1>2
  <2>1. pageList' \in Seq(PageTypes)
    BY ListedType
  <2>2. QueuedHasTimer'
    BY DEF QueuedHasTimer
  <2>3. show \in Objs /\ QueuedFor(t) \in SUBSET Objs
        /\ \A o \in QueuedFor(t) : Live(o) /\ o \notin {homePage, settingPage}
    BY DEF QueuedFor, Leaving, PageInv, PageTypeOK, PointersLive, NothingInUseIsQueued
  <2>4. CASE ShowKept(t)
    <3>1. preAction \notin closeList /\ heap[homePage] = "HOME" /\ heap[settingPage] = "SETTING"
      BY DEF PageInv, NothingInUseIsQueued, PointersLive
    <3>2. QueuedFor(t) \cap {homePage, settingPage} = {}
      BY <2>3
    <3>. QED
      BY <2>1, <2>2, <2>3, <2>4, <3>1, <3>2 DEF ShowKept, PageInv, PageTypeOK, PointersLive,
         Live, NothingInUseIsQueued, SleeperIffScreenSaver, Shown
  <2>5. CASE ShowSleeper(t)
    <3>1. /\ preAction \in Objs /\ Live(preAction) /\ heap[preAction] # "SCREENSAVER"
          /\ preAction # show /\ preAction \notin closeList
      BY <2>5 DEF ShowSleeper, SleeperFor, PageInv, PageTypeOK, PointersLive,
                  NothingInUseIsQueued, SleeperIffScreenSaver, Shown
    <3>2. preAction \notin QueuedFor(t)
      BY <3>1 DEF QueuedFor, Leaving
    <3>. QED
      BY <2>1, <2>2, <2>3, <2>5, <3>1, <3>2 DEF ShowSleeper, PageInv, PageTypeOK, PointersLive,
         Live, NothingInUseIsQueued, SleeperIffScreenSaver, Shown
  <2>6. NoSleeperTakesOver(t) => SleeperFor(t) = IF t = "SCREENSAVER" THEN show ELSE Null
    BY DEF NoSleeperTakesOver, SleeperFor
  <2>7. NoSleeperTakesOver(t) /\ t = "SCREENSAVER" => show \notin QueuedFor(t)
    BY DEF QueuedFor, PageInv, NothingInUseIsQueued
  <2>8. CASE ShowReused(t)
    <3>1. PICK o \in QueuedFor(t) : heap[o] = t /\ show' = o /\ closeList' = QueuedFor(t) \ {o}
      BY <2>8 DEF ShowReused
    <3>2. NoSleeperTakesOver(t) /\ preAction' = SleeperFor(t) /\ UNCHANGED <<heap, factoryMode>>
      BY <2>8 DEF ShowReused
    <3>. QED
      BY <2>1, <2>2, <2>3, <2>6, <2>7, <3>1, <3>2 DEF PageInv, PageTypeOK, PointersLive,
         Live, NothingInUseIsQueued, SleeperIffScreenSaver, Shown
  <2>9. CASE ShowNew(t)
    <3>1. PICK o \in Objs : /\ heap[o] = "free"
                            /\ heap' = [heap EXCEPT ![o] = TypeOfRequest(t)]
                            /\ show' = o
      BY <2>9 DEF ShowNew
    <3>2. /\ NoSleeperTakesOver(t) /\ preAction' = SleeperFor(t)
          /\ closeList' = QueuedFor(t) /\ factoryMode' \in BOOLEAN
      BY <2>9 DEF ShowNew, PageInv, PageTypeOK
    <3>3. /\ TypeOfRequest(t) \in PageTypes /\ TypeOfRequest(t) # "free"
          /\ TypeOfRequest(t) = "SCREENSAVER" <=> t = "SCREENSAVER"
      BY DEF TypeOfRequest, Requests, PageTypes
    <3>4. \A p \in Objs : Live(p) => p # o /\ heap'[p] = heap[p]
      BY <3>1 DEF Live, PageInv, PageTypeOK
    <3>5. heap' \in [Objs -> PageTypes \cup {"free"}] /\ heap'[o] = TypeOfRequest(t)
      BY <3>1, <3>3 DEF PageInv, PageTypeOK
    <3>6. Live(show) /\ Live(homePage) /\ Live(settingPage)
      BY DEF PageInv, PointersLive
    <3>. QED
      BY <2>1, <2>2, <2>3, <2>6, <2>7, <3>1, <3>2, <3>3, <3>4, <3>5, <3>6
         DEF PageInv, PageTypeOK, PointersLive, Live, NothingInUseIsQueued,
             SleeperIffScreenSaver, Shown
  <2>. QED  BY <2>4, <2>5, <2>8, <2>9
<1>. QED  BY <1>1, <1>2 DEF ShowPage

\* "Back" asks for the type below the top of the list, or for home.
LEMMA ShowPrevInv == PageInv /\ ShowPrevPage => PageInv'
<1>. SUFFICES ASSUME PageInv, ShowPrevPage PROVE PageInv'
  OBVIOUS
<1>. pageList \in Seq(PageTypes)
  BY DEF PageInv, PageTypeOK
<1>1. CASE ShowPage("HOME", TRUE, <<>>)
  <2>1. <<>> \in Seq(PageTypes) /\ "HOME" \in Requests /\ TRUE \in BOOLEAN
    BY DEF Requests, PageTypes
  <2>. QED  BY <1>1, <2>1, ShowPageInv
<1>2. CASE /\ Len(pageList) > 1
           /\ ShowPage(Last(Front(pageList)), FALSE, Front(pageList))
  <2>1. Front(pageList) \in Seq(PageTypes) /\ Len(Front(pageList)) = Len(pageList) - 1
    BY <1>2, SubSeqProperties DEF Front
  <2>2. Last(Front(pageList)) \in Requests
    BY <1>2, <2>1 DEF Last, Requests
  <2>. QED  BY <1>2, <2>1, <2>2, ShowPageInv
<1>. QED  BY <1>1, <1>2 DEF ShowPrevPage

LEMMA ShowHomeInv == PageInv /\ ShowHomePage => PageInv'
<1>. SUFFICES ASSUME PageInv, ShowHomePage PROVE PageInv'
  OBVIOUS
<1>1. (IF Len(pageList) > 1 THEN <<>> ELSE pageList) \in Seq(PageTypes)
  BY DEF PageInv, PageTypeOK
<1>. QED  BY <1>1, ShowPageInv DEF ShowHomePage, Requests, PageTypes

\* The delayed message deletes the queued pages, and none of those in use.
LEMMA DelayCloseInv == PageInv /\ DelayClose => PageInv'
  BY DEF PageInv, PageTypeOK, PointersLive, Live, NothingInUseIsQueued,
         SleeperIffScreenSaver, QueuedHasTimer, Shown, DelayClose

LEMMA PagesUnchangedInv == PageInv /\ UNCHANGED pageVars => PageInv'
  BY DEF PageInv, PageTypeOK, PointersLive, Live, NothingInUseIsQueued,
         SleeperIffScreenSaver, QueuedHasTimer, Shown, pageVars

LEMMA InitIInv == Init => IInv
<1>. SUFFICES ASSUME Init PROVE IInv
  OBVIOUS
<1>1. PICK h \in Objs, s \in Objs :
          /\ h # s
          /\ homePage = h /\ settingPage = s /\ show = h
          /\ heap = [o \in Objs |-> IF o = h THEN "HOME" ELSE
                                    IF o = s THEN "SETTING" ELSE "free"]
  BY DEF Init
<1>2. <<"SETTING", "HOME">> \in Seq(PageTypes)
  BY DEF PageTypes
<1>3. PageInv
  BY <1>1, <1>2, ObjsAssumption DEF Init, PageInv, PageTypeOK, PageTypes, PointersLive, Live,
     NothingInUseIsQueued, SleeperIffScreenSaver, QueuedHasTimer, Shown
<1>4. RestTypeOK
  BY DEF Init, RestTypeOK, NoPop
<1>. QED  BY <1>3, <1>4 DEF IInv

LEMMA NextPageInv == ASSUME IInv, [Next]_vars PROVE PageInv'
<1>. PageInv
  BY DEF IInv
<1>. pageList \in Seq(PageTypes)
  BY DEF IInv, PageInv, PageTypeOK
<1>. USE DEF Requests, PageTypes
<1>1. CASE DelayClose
  BY <1>1, DelayCloseInv
<1>2. CASE ClickSetup
  BY <1>2, ShowPageInv DEF ClickSetup
<1>3. CASE ClickBack
  BY <1>3, ShowPrevInv DEF ClickBack
<1>4. CASE ClickScale
  BY <1>4, ShowPageInv DEF ClickScale
<1>5. CASE ClickFactory
  BY <1>5, ShowPageInv DEF ClickFactory
<1>6. CASE ScreenSaver
  BY <1>6, ShowPageInv DEF ScreenSaver
<1>7. CASE Wake
  BY <1>7, ShowPrevInv DEF Wake
<1>8. CASE EnterStopClean
  BY <1>8, ShowPrevInv DEF EnterStopClean
<1>9. CASE EnterWarn
  BY <1>9, ShowPageInv, PagesUnchangedInv DEF EnterWarn
<1>10. CASE TuyaBrew
  BY <1>10, ShowHomeInv DEF TuyaBrew
<1>11. CASE UpdateCleanStart
  BY <1>11, ShowPageInv, PagesUnchangedInv DEF UpdateCleanStart
<1>12. CASE TuyaCleanStop
  BY <1>12, ShowPrevInv DEF TuyaCleanStop
<1>13. CASE AiData
  BY <1>13, ShowHomeInv DEF AiData
<1>14. CASE StartBrew \/ EndWork \/ StartClean \/ OpenStopClean \/ OpenSettingPop
            \/ ClosePop \/ WarnChange \/ TuyaCleanStart \/ UNCHANGED vars
  BY <1>14, PagesUnchangedInv DEF StartBrew, EndWork, StartClean, OpenStopClean,
     OpenSettingPop, ClosePop, WarnChange, TuyaCleanStart, vars
<1>. QED
  BY <1>1, <1>2, <1>3, <1>4, <1>5, <1>6, <1>7, <1>8, <1>9, <1>10, <1>11, <1>12, <1>13, <1>14
     DEF Next

LEMMA NextRestTypeOK == ASSUME IInv, [Next]_vars PROVE RestTypeOK'
<1>. RestTypeOK /\ show \in Objs
  BY DEF IInv, PageInv, PageTypeOK
<1>. USE DEF RestTypeOK
<1>1. pop' \in [kind : PopKinds \cup {"none"}, owner : Objs \cup {Null}]
  <2>1. pop' = pop \/ pop' = NoPop \/ pop' = [kind |-> "WARN", owner |-> Null]
        \/ pop' = [kind |-> "STOP_CLEAN", owner |-> show]
        \/ pop' = [kind |-> "SETTING", owner |-> show]
    BY DEF Next, vars, DelayClose, ClickSetup, ClickBack, ClickScale, ClickFactory,
       ScreenSaver, Wake, StartBrew, EndWork, StartClean, OpenStopClean, EnterStopClean,
       OpenSettingPop, ClosePop, WarnChange, EnterWarn, TuyaBrew, TuyaCleanStart,
       UpdateCleanStart, TuyaCleanStop, AiData, AfterRequest
  <2>. QED  BY <2>1 DEF NoPop, PopKinds
<1>2. work' \in SUBSET {"BREW", "CLEAN"}
  <2>1. work' \in SUBSET work \/ work' = work \cup {"BREW"} \/ work' = work \cup {"CLEAN"}
    BY DEF Next, vars, DelayClose, ClickSetup, ClickBack, ClickScale, ClickFactory,
       ScreenSaver, Wake, StartBrew, EndWork, StartClean, OpenStopClean, EnterStopClean,
       OpenSettingPop, ClosePop, WarnChange, EnterWarn, TuyaBrew, TuyaCleanStart,
       UpdateCleanStart, TuyaCleanStop, AiData
  <2>. QED  BY <2>1
<1>3. cleanReq' \in BOOLEAN /\ orphaned' \in BOOLEAN
  BY DEF Next, vars, DelayClose, ClickSetup, ClickBack, ClickScale, ClickFactory,
     ScreenSaver, Wake, StartBrew, EndWork, StartClean, OpenStopClean, EnterStopClean,
     OpenSettingPop, ClosePop, WarnChange, EnterWarn, TuyaBrew, TuyaCleanStart,
     UpdateCleanStart, TuyaCleanStop, AiData, AfterRequest
<1>. QED  BY <1>1, <1>2, <1>3

LEMMA SpecIInv == Spec => []IInv
<1>1. IInv /\ [Next]_vars => IInv'
  BY NextPageInv, NextRestTypeOK DEF IInv
<1>. QED  BY InitIInv, <1>1, PTL DEF Spec

\* Every variable keeps its type (wind_mgr.h:115-135).
THEOREM WindMgrTypeOK == Spec => []TypeOK
<1>1. IInv => TypeOK
  BY DEF IInv, PageInv, PageTypeOK, RestTypeOK, TypeOK
<1>. QED  BY SpecIInv, <1>1, PTL

\* No page the manager can reach has been deleted (wind_mgr.cc:100-198, 378-384).
THEOREM NoUseAfterDelete == Spec => []PointersLive
<1>1. IInv => PointersLive
  BY DEF IInv, PageInv
<1>. QED  BY SpecIInv, <1>1, PTL

\* Nothing in use is queued for deletion, so nothing is deleted twice.
THEOREM QueueIsDisjoint == Spec => []NothingInUseIsQueued
<1>1. IInv => NothingInUseIsQueued
  BY DEF IInv, PageInv
<1>. QED  BY SpecIInv, <1>1, PTL

\* A page sleeps exactly while the screen saver is shown (wind_mgr.h:129).
THEOREM OneSleeper == Spec => []SleeperIffScreenSaver
<1>1. IInv => SleeperIffScreenSaver
  BY DEF IInv, PageInv
<1>. QED  BY SpecIInv, <1>1, PTL

\* What is queued will be deleted: its message is under way (wind_mgr.cc:123, 133).
THEOREM QueuedAreDeleted == Spec => []QueuedHasTimer
<1>1. IInv => QueuedHasTimer
  BY DEF IInv, PageInv
<1>. QED  BY SpecIInv, <1>1, PTL

(***************************************************************************)
(* The page behind an open pop-up: the setting page, of which there is one *)
(* and which is kept, or the clean page, which is still shown unless the   *)
(* cloud or the assistant made it leave.                                   *)
(***************************************************************************)
OneSetting == \A o \in Objs : heap[o] = "SETTING" => o = settingPage

OwnerInv ==
    /\ OneSetting
    /\ pop.kind = "SETTING" => pop.owner = settingPage
    /\ pop.kind = "STOP_CLEAN" /\ ~orphaned => pop.owner = show /\ Shown = "CLEAN"

\* No switch of pages makes a second setting page.
LEMMA ShowPageSetting ==
    ASSUME NEW t, NEW isNew, NEW list, ShowPage(t, isNew, list), PageTypeOK, OneSetting
    PROVE  OneSetting' /\ settingPage' = settingPage
<1>1. CASE ShowNew(t) /\ settingPage' = settingPage
  <2>1. PICK o \in Objs : heap' = [heap EXCEPT ![o] = TypeOfRequest(t)]
    BY <1>1 DEF ShowNew
  <2>2. TypeOfRequest(t) # "SETTING"
    BY <1>1 DEF ShowNew, NoSleeperTakesOver, TypeOfRequest
  <2>. QED  BY <1>1, <2>1, <2>2 DEF OneSetting, PageTypeOK
<1>2. CASE UNCHANGED <<heap, settingPage>>
  BY <1>2 DEF OneSetting
<1>. QED
  BY <1>1, <1>2 DEF ShowPage, ShowKept, ShowSleeper, ShowReused

LEMMA NextOwnerInv == ASSUME IInv, OwnerInv, [Next]_vars PROVE OwnerInv'
<1>. PageTypeOK /\ PointersLive /\ NothingInUseIsQueued /\ OneSetting /\ show \in Objs
  BY DEF IInv, PageInv, PageTypeOK, OwnerInv
<1>1. OneSetting' /\ settingPage' = settingPage
  <2>. USE ShowPageSetting
  <2>1. CASE DelayClose
    BY <2>1 DEF DelayClose, OneSetting, PageTypeOK
  <2>2. CASE ClickSetup \/ ClickScale \/ ClickFactory \/ ScreenSaver
    BY <2>2 DEF ClickSetup, ClickScale, ClickFactory, ScreenSaver
  <2>3. CASE ClickBack \/ Wake \/ EnterStopClean \/ TuyaCleanStop \/ TuyaBrew \/ AiData
    BY <2>3 DEF ClickBack, Wake, EnterStopClean, TuyaCleanStop, TuyaBrew, AiData,
       ShowPrevPage, ShowHomePage
  <2>4. CASE EnterWarn \/ UpdateCleanStart
    BY <2>4 DEF EnterWarn, UpdateCleanStart, pageVars, OneSetting
  <2>5. CASE StartBrew \/ EndWork \/ StartClean \/ OpenStopClean \/ OpenSettingPop
             \/ ClosePop \/ WarnChange \/ TuyaCleanStart \/ UNCHANGED vars
    BY <2>5 DEF StartBrew, EndWork, StartClean, OpenStopClean, OpenSettingPop, ClosePop,
       WarnChange, TuyaCleanStart, vars, pageVars, OneSetting
  <2>. QED  BY <2>1, <2>2, <2>3, <2>4, <2>5 DEF Next
<1>2. CASE /\ pop' = pop
           /\ orphaned' = orphaned /\ show' = show /\ heap'[show] = heap[show]
  BY <1>1, <1>2 DEF OwnerInv, Shown
<1>3. CASE pop'.kind \notin {"SETTING", "STOP_CLEAN"}
  BY <1>1, <1>3 DEF OwnerInv
<1>4. CASE DelayClose
  <2>1. heap'[show] = heap[show]
    BY <1>4 DEF DelayClose, NothingInUseIsQueued
  <2>. QED  BY <1>2, <1>4, <2>1 DEF DelayClose
<1>5. CASE ClickSetup \/ ClickBack \/ ClickScale \/ ClickFactory \/ ScreenSaver \/ Wake
           \/ EnterStopClean \/ ClosePop \/ WarnChange \/ EnterWarn \/ TuyaBrew
  <2>1. pop' = NoPop \/ pop' = [kind |-> "WARN", owner |-> Null]
    BY <1>5 DEF ClickSetup, ClickBack, ClickScale, ClickFactory, ScreenSaver, Wake,
       EnterStopClean, ClosePop, WarnChange, EnterWarn, TuyaBrew
  <2>. QED  BY <1>3, <2>1 DEF NoPop
<1>6. CASE StartBrew \/ EndWork \/ StartClean \/ TuyaCleanStart \/ UNCHANGED vars
  BY <1>2, <1>6 DEF StartBrew, EndWork, StartClean, TuyaCleanStart, vars, pageVars
<1>7. CASE OpenStopClean
  BY <1>1, <1>7 DEF OpenStopClean, OwnerInv, Shown, pageVars
<1>8. CASE OpenSettingPop
  BY <1>1, <1>8 DEF OpenSettingPop, OwnerInv, OneSetting, Shown
<1>9. CASE UpdateCleanStart
  <2>1. pop' = pop /\ orphaned' = orphaned /\ (Shown = "CLEAN" => UNCHANGED pageVars)
    BY <1>9 DEF UpdateCleanStart
  <2>. QED  BY <1>1, <2>1 DEF OwnerInv, Shown, pageVars
<1>10. CASE TuyaCleanStop
  <2>1. pop' = pop /\ orphaned' = (orphaned \/ pop.kind = "STOP_CLEAN")
    BY <1>10 DEF TuyaCleanStop
  <2>. QED  BY <1>1, <2>1 DEF OwnerInv
<1>11. CASE AiData
  <2>1. CASE pop' = pop /\ orphaned' = (orphaned \/ pop.kind = "STOP_CLEAN")
    BY <1>1, <2>1 DEF OwnerInv
  <2>2. CASE pop' = [kind |-> "WARN", owner |-> Null]
    BY <1>3, <2>2
  <2>. QED  BY <1>11, <2>1, <2>2 DEF AiData, AfterRequest
<1>. QED
  BY <1>4, <1>5, <1>6, <1>7, <1>8, <1>9, <1>10, <1>11 DEF Next

\* The callbacks of a pop-up find their page alive (page_clean.cc:324), unless the cloud's stop
\* (page_clean.cc:174) or the assistant (wind_mgr.cc:357) made the page leave under the pop-up.
THEOREM CallbackFindsPage == Spec => []PopOwnerLive
<1>1. Init => OwnerInv
  BY DEF Init, OwnerInv, OneSetting, NoPop
<1>2. IInv /\ IInv' /\ OwnerInv /\ [Next]_vars => OwnerInv'
  BY NextOwnerInv
<1>3. IInv /\ OwnerInv => PopOwnerLive
  BY DEF IInv, PageInv, PointersLive, OwnerInv, PopOwnerLive
<1>. QED  BY SpecIInv, <1>1, <1>2, <1>3, PTL DEF Spec
=============================================================================
