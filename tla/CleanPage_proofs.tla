--------------------------- MODULE CleanPage_proofs ---------------------------
(***************************************************************************)
(* The clean page keeps its type, tells of the end of calcify cleaning     *)
(* after two rounds only, never forgets an order it gave, and starts       *)
(* nothing on a report, for every choice of warnings and commands and any  *)
(* number of pages that wait to be deleted.                                *)
(*                                                                         *)
(* The inductive invariant says of every page, also of one that waits to   *)
(* be deleted and may be shown again, that its rounds fit its step.        *)
(***************************************************************************)
EXTENDS CleanPage, SequenceTheorems, TLAPS

\* The pause of calcify cleaning comes after a round, its end after two.
Sound == {p \in Page : ~p.water => /\ p.step > 3 => p.rounds > 0
                                   /\ p.step > 5 => p.rounds = 2}

Good(s) ==
    /\ s \in Clean
    /\ s.page \in Sound /\ s.closing \in Seq(Sound)
    /\ s.told # "none" => s.told \in s.bits

IInv == Good(clean)
-----------------------------------------------------------------------------
(* The pages.                                                              *)

LEMMA NewSound == New(0) \in Sound /\ New(1) \in Sound
  BY DEF New, Sound, Page

LEMMA LeaveGood ==
    ASSUME NEW s, Good(s)
    PROVE  Good(Leave(s))
<1>1. Append(s.closing, s.page) \in Seq(Sound) /\ Append(s.closing, s.page) \in Seq(Page)
  BY DEF Good, Clean
<1>2. \A q \in Seq(Sound) : q \in Seq(Page) => Good([s EXCEPT !.shown = FALSE, !.closing = q])
  BY DEF Good, Clean
<1>. QED  BY <1>1, <1>2 DEF Leave

\* Any of the fields that the steps of the page leave alone.
LEMMA PageGood ==
    ASSUME NEW s, Good(s), NEW p \in Sound
    PROVE  Good([s EXCEPT !.page = p])
<1>1. p \in Page
  BY DEF Sound
<1>. QED  BY <1>1 DEF Good, Clean

LEMMA StartGood ==
    ASSUME NEW s, Good(s), NEW kind \in Kinds
    PROVE  Good(Start(s, kind))
BY DEF Good, Clean, Start, Kinds

LEMMA KindOfType == \A p : KindOf(p) \in Kinds
  BY DEF KindOf, Kinds

LEMMA ChangeStepGood ==
    ASSUME NEW s, Good(s)
    PROVE  Good(ChangeStep(s))
BY LeaveGood, StartGood, KindOfType DEF ChangeStep

\* A page is sound in its first three steps, and later if it was counted before.
LEMMA GoToGood ==
    ASSUME NEW s, Good(s), NEW water \in BOOLEAN, NEW step \in 0..7,
           \/ water \/ step <= 3
           \/ /\ step > 3 => s.page.rounds > 0
              /\ step > 5 => s.page.rounds = 2
    PROVE  Good(GoTo(s, water, step))
<1>. DEFINE r == IF water \/ step <= 3 THEN 0 ELSE s.page.rounds
            p == [water |-> water, step |-> step, rounds |-> r]
<1>1. s.page \in Page
  BY DEF Good, Clean
<1>2. p \in Sound
  BY <1>1 DEF Sound, Page
<1>. QED  BY <1>2, PageGood, ChangeStepGood DEF GoTo

LEMMA ForwardGood ==
    ASSUME NEW s, Good(s), s.page.step < 7,
           \/ s.page.water
           \/ /\ s.page.step > 2 => s.page.rounds > 0
              /\ s.page.step > 4 => s.page.rounds = 2
    PROVE  Good(Forward(s))
<1>1. s.page \in Page
  BY DEF Good, Clean
<1>2. s.page.water \in BOOLEAN /\ s.page.step + 1 \in 0..7 /\ s.page.rounds \in 0..2
  BY <1>1 DEF Page
<1>3. \/ s.page.water \/ s.page.step + 1 <= 3
      \/ /\ s.page.step + 1 > 3 => s.page.rounds > 0
         /\ s.page.step + 1 > 5 => s.page.rounds = 2
  BY <1>1 DEF Page
<1>. QED  BY <1>2, <1>3, GoToGood DEF Forward

LEMMA BackwardGood ==
    ASSUME NEW s, Good(s), s.page.step > 0
    PROVE  Good(Backward(s))
<1>1. s.page \in Page /\ s.page \in Sound
  BY DEF Good, Clean
<1>2. s.page.water \in BOOLEAN /\ s.page.step - 1 \in 0..7
  BY <1>1 DEF Page
<1>3. \/ s.page.water \/ s.page.step - 1 <= 3
      \/ /\ s.page.step - 1 > 3 => s.page.rounds > 0
         /\ s.page.step - 1 > 5 => s.page.rounds = 2
  BY <1>1 DEF Sound, Page
<1>. QED  BY <1>2, <1>3, GoToGood DEF Backward

LEMMA StopGood ==
    ASSUME NEW s, Good(s), NEW kind \in Kinds
    PROVE  Good(Stop(s, kind))
<1>1. Good([s EXCEPT !.bits = @ \ {kind}, !.told = "none"])
  BY DEF Good, Clean
<1>. QED  BY <1>1, LeaveGood DEF Stop

LEMMA HeadTail ==
    ASSUME NEW S, NEW q \in Seq(S), q # << >>
    PROVE  Head(q) \in S /\ Tail(q) \in Seq(S)
  OBVIOUS

LEMMA OpenGood ==
    ASSUME NEW s, Good(s)
    PROVE  Good(Open(s))
<1>1. \A p \in Sound, q \in Seq(Sound) :
        Good([s EXCEPT !.shown = TRUE, !.page = p, !.closing = q])
  <2>1. \A p \in Sound : p \in Page
    BY DEF Sound
  <2>2. Seq(Sound) \subseteq Seq(Page)
    BY <2>1
  <2>. QED  BY <2>1, <2>2 DEF Good, Clean
<1>2. s.closing \in Seq(Sound) /\ s.page \in Sound
  BY DEF Good
<1>3. CASE s.shown
  BY <1>3 DEF Open
<1>4. CASE ~s.shown /\ s.closing # << >>
  BY <1>1, <1>2, <1>4, HeadTail DEF Open
<1>5. CASE ~s.shown /\ s.closing = << >>
  <2>1. Good([s EXCEPT !.shown = TRUE, !.page = New(0), !.closing = s.closing])
    BY <1>1, <1>2, NewSound
  <2>2. [s EXCEPT !.shown = TRUE, !.page = New(0), !.closing = s.closing]
          = [s EXCEPT !.shown = TRUE, !.page = New(0)]
    BY DEF Good, Clean
  <2>. QED  BY <1>5, <2>1, <2>2 DEF Open
<1>. QED  BY <1>3, <1>4, <1>5

LEMMA OpenCalcifyGood ==
    ASSUME NEW s, Good(s)
    PROVE  Good(OpenCalcify(s))
<1>1. Append(s.closing, s.page) \in Seq(Sound)
  BY DEF Good
<1>2. \A p \in Sound, q \in Seq(Sound) :
        Good([s EXCEPT !.shown = TRUE, !.page = p, !.closing = q])
  <2>1. Seq(Sound) \subseteq Seq(Page) /\ \A p \in Sound : p \in Page
    BY DEF Sound
  <2>. QED  BY <2>1 DEF Good, Clean
<1>3. New(1) \in Sound /\ s.closing \in Seq(Sound)
  BY NewSound DEF Good
<1>. QED  BY <1>1, <1>2, <1>3 DEF OpenCalcify
-----------------------------------------------------------------------------
(* The handlers of the page.                                               *)

\* A round is counted where a cleaning runs, so that the page may move on.
LEMMA CountedGood ==
    ASSUME NEW s, Good(s), Runs(s.page)
    PROVE  /\ Good(Counted(s))
           /\ Counted(s).page.step < 7
           /\ \/ Counted(s).page.water
              \/ /\ Counted(s).page.step > 2 => Counted(s).page.rounds > 0
                 /\ Counted(s).page.step > 4 => Counted(s).page.rounds = 2
<1>. DEFINE r == IF ~s.page.water /\ s.page.rounds < 2 THEN s.page.rounds + 1 ELSE s.page.rounds
            p == [s.page EXCEPT !.rounds = r]
<1>1. s.page \in Page /\ s.page \in Sound
  BY DEF Good, Clean
<1>2. /\ p \in Sound /\ p.step < 7
      /\ \/ p.water
         \/ /\ p.step > 2 => p.rounds > 0
            /\ p.step > 4 => p.rounds = 2
  BY <1>1 DEF Sound, Page, Runs
<1>3. Counted(s) = [s EXCEPT !.page = p]
  BY DEF Counted, Good, Clean, Page
<1>4. [s EXCEPT !.page = p].page = p
  BY DEF Good, Clean
<1>. HIDE DEF p
<1>. QED  BY <1>2, <1>3, <1>4, PageGood

LEMMA DownGood ==
    ASSUME NEW s, Good(s)
    PROVE  Good(Down(s))
BY CountedGood, ForwardGood DEF Down, Running

LEMMA StepBackGood ==
    ASSUME NEW s, Good(s)
    PROVE  Good(StepBack(s))
BY BackwardGood, ChangeStepGood DEF StepBack

LEMMA CloudStartsGood ==
    ASSUME NEW s, Good(s)
    PROVE  Good(CloudStarts(s))
<1>1. Good(GoTo(s, TRUE, 2)) /\ Good(GoTo(s, FALSE, 3))
  <2>1. 2 \in 0..7 /\ 3 \in 0..7 /\ 2 <= 3 /\ 3 <= 3
    OBVIOUS
  <2>2. TRUE \in BOOLEAN /\ FALSE \in BOOLEAN
    OBVIOUS
  <2>. QED  BY <2>1, <2>2, GoToGood
<1>2. ~s.page.water /\ s.page.step = 4 => Good(Forward(s))
  <2>1. s.page \in Sound
    BY DEF Good
  <2>. QED  BY <2>1, ForwardGood DEF Sound, Page
<1>3. s.mode \in Modes
  BY DEF Good, Clean
<1>. QED  BY <1>1, <1>2, <1>3 DEF CloudStarts, Modes

LEMMA ToldGood ==
    ASSUME NEW s, Good(s)
    PROVE  Good([s EXCEPT !.told = "none"])
BY DEF Good, Clean

LEMMA UpdatePageGood ==
    ASSUME NEW s, Good(s), NEW flags
    PROVE  Good(UpdatePage(s, flags))
<1>. DEFINE a == IF "DOWN" \in flags THEN Down(s) ELSE s
            b == IF "WARN" \in flags THEN StepBack(a) ELSE a
            c == IF "CLOSE" \in flags THEN Resume(b) ELSE b
<1>1. Good(a)
  BY DownGood
<1>2. Good(b)
  BY <1>1, StepBackGood
<1>3. Good(c)
  BY <1>2, ChangeStepGood DEF Resume
<1>4. Good([a EXCEPT !.told = "none"]) /\ Good(CloudStarts(c)) /\ Good(Stop(c, KindOf(c.page)))
  BY <1>1, <1>3, ToldGood, CloudStartsGood, StopGood, KindOfType
<1>. QED  BY <1>3, <1>4 DEF UpdatePage
-----------------------------------------------------------------------------
(* The warning pop-up.                                                     *)

LEMMA UndealtType ==
    ASSUME NEW s, Good(s)
    PROVE  Undealt(s) \in SUBSET AllWarnings
BY DEF Good, Clean, Undealt

LEMMA ListGood ==
    ASSUME NEW s, Good(s), NEW ws \in SUBSET AllWarnings
    PROVE  Good(List(s, ws))
<1>1. FirstOf(ws) \in AllWarnings \cup {"none"}
  BY DEF FirstOf, AllWarnings
<1>. QED  BY <1>1 DEF Good, Clean, List

LEMMA ClosePopGood ==
    ASSUME NEW s, Good(s)
    PROVE  Good(ClosePop(s))
BY DEF Good, Clean, ClosePop

LEMMA UpdatePopGood ==
    ASSUME NEW s, Good(s)
    PROVE  Good(UpdatePop(s))
<1>1. Good([s EXCEPT !.listed = Undealt(s)])
  BY UndealtType DEF Good, Clean
<1>. QED  BY <1>1, UndealtType, ListGood, ClosePopGood DEF UpdatePop

LEMMA FlagsGood ==
    ASSUME NEW s, Good(s), NEW flags \in SUBSET Flags
    PROVE  Good([s EXCEPT !.flags = flags])
BY DEF Good, Clean

LEMMA UpdateGood ==
    ASSUME NEW s, Good(s), NEW new \in SUBSET Flags
    PROVE  Good(Update(s, new))
<1>. DEFINE flags == s.flags \cup new
            p == IF "WARN" \in flags THEN UpdatePop(s) ELSE s
            left == IF "WARN" \in flags /\ s.pop = "WARN" /\ Undealt(s) = {}
                    THEN flags \ {"WARN"} ELSE flags
            q == IF "AI" \in left THEN Leave(p) ELSE p
<1>1. left \in SUBSET Flags
  BY DEF Good, Clean
<1>2. Good(p) /\ Good(q)
  BY UpdatePopGood, LeaveGood
<1>3. Good(Open(p)) /\ Good(UpdatePage(q, left))
  BY <1>2, OpenGood, UpdatePageGood
<1>4. Good([Open(p) EXCEPT !.flags = left]) /\ Good([UpdatePage(q, left) EXCEPT !.flags = {}])
  BY <1>1, <1>3, FlagsGood
<1>. QED  BY <1>4 DEF Update
-----------------------------------------------------------------------------
(* The steps of the specification.                                         *)

LEMMA InitGood == Init => Good(clean)
<1>. SUFFICES ASSUME Init PROVE Good(clean)
  OBVIOUS
<1>1. New(0) \in Sound /\ New(0) \in Page
  BY NewSound DEF Sound
<1>. QED  BY <1>1 DEF Init, Good, Clean, Modes

LEMMA CleanDoneGood ==
    ASSUME Good(clean), CleanDone
    PROVE  Good(clean)'
<1>. DEFINE kind == IF "WATER" \in clean.bits THEN "WATER" ELSE "CAL"
            s == [clean EXCEPT !.bits = @ \ {kind}, !.told = "none"]
<1>1. Good(s)
  BY DEF Good, Clean
<1>2. {"DOWN"} \in SUBSET Flags
  BY DEF Flags
<1>3. clean' = Update(s, {"DOWN"})
  BY DEF CleanDone
<1>. HIDE DEF s
<1>4. Good(Update(s, {"DOWN"}))
  BY <1>1, <1>2, UpdateGood
<1>. QED  BY <1>3, <1>4 DEF Good

LEMMA WarnFrameGood ==
    ASSUME Good(clean), WarnFrame
    PROVE  Good(clean)'
<1>1. PICK ws \in SUBSET Warnings :
        clean' = Update([clean EXCEPT !.warn = ws, !.dealt = @ \cap ws], {"WARN"})
  BY DEF WarnFrame
<1>. DEFINE s == [clean EXCEPT !.warn = ws, !.dealt = @ \cap ws]
<1>2. Good(s)
  BY WarningsAssumption DEF Good, Clean
<1>3. {"WARN"} \in SUBSET Flags
  BY DEF Flags
<1>. HIDE DEF s
<1>4. Good(Update(s, {"WARN"}))
  BY <1>2, <1>3, UpdateGood
<1>. QED  BY <1>1, <1>4 DEF Good, s

\* One more warning dealt with.
LEMMA DealtGood ==
    ASSUME NEW s, Good(s), NEW ws \in SUBSET AllWarnings
    PROVE  Good([s EXCEPT !.dealt = s.dealt \cup ws])
BY DEF Good, Clean

LEMMA PopEnterGood ==
    ASSUME Good(clean), PopEnter
    PROVE  Good(clean)'
<1>. DEFINE s == [clean EXCEPT !.dealt = @ \cup ({clean.asked} \ {"none"})]
            rest == s.listed \ {s.asked}
<1>1. Good(s)
  <2>1. {clean.asked} \ {"none"} \in SUBSET AllWarnings
    BY DEF Good, Clean
  <2>. QED  BY <2>1, DealtGood
<1>2. rest \in SUBSET AllWarnings /\ {"CLOSE"} \in SUBSET Flags
  BY <1>1 DEF Good, Clean, Flags
<1>3. \/ clean' = ClosePop(Update(OpenCalcify(s), {"CLOSE"}))
      \/ clean' = List(s, rest)
      \/ clean' = ClosePop(Update(s, {"CLOSE"}))
  BY DEF PopEnter
<1>. HIDE DEF s, rest
<1>4. /\ Good(ClosePop(Update(OpenCalcify(s), {"CLOSE"})))
      /\ Good(List(s, rest))
      /\ Good(ClosePop(Update(s, {"CLOSE"})))
  BY <1>1, <1>2, OpenCalcifyGood, UpdateGood, ListGood, ClosePopGood
<1>. QED  BY <1>3, <1>4 DEF Good

LEMMA PopLaterGood ==
    ASSUME Good(clean), PopLater
    PROVE  Good(clean)'
<1>. DEFINE s == [clean EXCEPT !.dealt = @ \cup {"A02"}]
<1>1. Good(s)
  BY DealtGood DEF AllWarnings
<1>2. {"CLOSE"} \in SUBSET Flags
  BY DEF Flags
<1>3. clean' = ClosePop(Update(s, {"CLOSE"}))
  BY DEF PopLater
<1>. HIDE DEF s
<1>4. Good(ClosePop(Update(s, {"CLOSE"})))
  BY <1>1, <1>2, UpdateGood, ClosePopGood
<1>. QED  BY <1>3, <1>4 DEF Good

LEMMA PopGood ==
    ASSUME NEW s, Good(s), NEW kind \in {"none", "STOP_CLEAN"}
    PROVE  Good([s EXCEPT !.pop = kind])
BY DEF Good, Clean

LEMMA ButtonsGood ==
    ASSUME Good(clean), Select \/ Enter \/ Cancel \/ Back
    PROVE  Good(clean)'
<1>1. CASE Select
  <2>1. PICK water \in BOOLEAN : clean' = GoTo(clean, water, 1)
    BY <1>1 DEF Select
  <2>2. 1 \in 0..7 /\ 1 <= 3
    OBVIOUS
  <2>3. Good(GoTo(clean, water, 1))
    BY <2>2, GoToGood
  <2>. QED  BY <2>1, <2>3 DEF Good
<1>2. CASE Enter
  <2>1. clean.page \in Sound
    BY DEF Good
  <2>2. Good(Forward(clean))
    BY <1>2, <2>1, ForwardGood DEF Enter, Sound, Page
  <2>. QED  BY <1>2, <2>2 DEF Enter, Good
<1>3. CASE Cancel
  <2>1. Good(Backward(clean))
    BY <1>3, BackwardGood DEF Cancel
  <2>. QED  BY <1>3, <2>1 DEF Cancel, Good
<1>4. CASE Back
  <2>1. Good(Leave(clean)) /\ Good([clean EXCEPT !.pop = "STOP_CLEAN"])
    BY LeaveGood, PopGood
  <2>. QED  BY <1>4, <2>1 DEF Back, Good
<1>. QED  BY <1>1, <1>2, <1>3, <1>4

LEMMA StopEnterGood ==
    ASSUME Good(clean), StopEnter
    PROVE  Good(clean)'
<1>1. PICK kind \in Kinds : clean' = ClosePop(Stop(clean, kind))
  BY DEF StopEnter
<1>2. Good(ClosePop(Stop(clean, kind)))
  BY StopGood, ClosePopGood
<1>. QED  BY <1>1, <1>2 DEF Good

LEMMA DeletePagesGood ==
    ASSUME Good(clean), DeletePages
    PROVE  Good(clean)'
<1>1. \A q \in Seq(Sound) : q \in Seq(Page) => Good([clean EXCEPT !.closing = q])
  BY DEF Good, Clean
<1>2. << >> \in Seq(Sound) /\ << >> \in Seq(Page)
  OBVIOUS
<1>3. Good([clean EXCEPT !.closing = << >>])
  BY <1>1, <1>2
<1>. QED  BY <1>3 DEF DeletePages, Good

LEMMA CloudGood ==
    ASSUME Good(clean), CloudStart \/ CloudStop \/ AiData \/ TuyaBrew
    PROVE  Good(clean)'
<1>1. {"START"} \in SUBSET Flags /\ {"STOP"} \in SUBSET Flags /\ {"AI"} \in SUBSET Flags
  BY DEF Flags
<1>2. CASE CloudStart
  <2>1. PICK m \in Cloud : clean' = Update([clean EXCEPT !.mode = m], {"START"})
    BY <1>2 DEF CloudStart
  <2>2. Good([clean EXCEPT !.mode = m])
    BY CloudAssumption DEF Good, Clean
  <2>3. Good(Update([clean EXCEPT !.mode = m], {"START"}))
    BY <1>1, <2>2, UpdateGood
  <2>. QED  BY <2>1, <2>3 DEF Good
<1>3. CASE CloudStop
  <2>1. Good([clean EXCEPT !.flags = @ \ {"START"}])
    BY FlagsGood DEF Good, Clean
  <2>2. Good(Update([clean EXCEPT !.flags = @ \ {"START"}], {"STOP"}))
    BY <1>1, <2>1, UpdateGood
  <2>. QED  BY <1>3, <2>2 DEF CloudStop, Good
<1>4. CASE AiData
  BY <1>1, <1>4, UpdateGood DEF AiData, Good
<1>5. CASE TuyaBrew
  BY <1>5, ClosePopGood, LeaveGood DEF TuyaBrew, Good
<1>. QED  BY <1>2, <1>3, <1>4, <1>5

LEMMA NextGood ==
    ASSUME Good(clean), [Next]_clean
    PROVE  Good(clean)'
<1>1. CASE OtherFrame
  <2>1. Good(Update(clean, {}))
    BY UpdateGood
  <2>. QED  BY <1>1, <2>1 DEF OtherFrame, Good
<1>2. CASE StopCancel
  BY <1>2, ClosePopGood DEF StopCancel, Good
<1>3. CASE UNCHANGED clean
  BY <1>3 DEF Good
<1>. QED
  BY <1>1, <1>2, <1>3, CleanDoneGood, WarnFrameGood, PopEnterGood, PopLaterGood, ButtonsGood,
     StopEnterGood, DeletePagesGood, CloudGood DEF Next
-----------------------------------------------------------------------------
(* What a step does to an order that was not given.                        *)

\* The warnings stay, and no cleaning that was ordered is forgotten.
Keeps(s, t) == t.warn = s.warn /\ s.bits \subseteq t.bits

\* The same, or the controller is told to do nothing.
Calm(s, t) == t.warn = s.warn /\ (t.told = "none" \/ s.bits \subseteq t.bits)

LEMMA LeaveKeeps ==
    ASSUME NEW s \in Clean
    PROVE  Keeps(s, Leave(s))
BY DEF Clean, Leave, Keeps

LEMMA ChangeStepKeeps ==
    ASSUME NEW s \in Clean
    PROVE  Keeps(s, ChangeStep(s))
<1>1. Keeps(s, s) /\ \A kind : Keeps(s, Start(s, kind))
  BY DEF Clean, Start, Keeps
<1>. QED  BY <1>1, LeaveKeeps DEF ChangeStep

\* Nothing is told where no cleaning runs.
LEMMA ChangeStepTells ==
    ASSUME NEW s \in Clean, ~Runs(s.page)
    PROVE  ChangeStep(s).told = s.told
BY DEF Clean, ChangeStep, Leave

LEMMA GoToKeeps ==
    ASSUME NEW s \in Clean, NEW water \in BOOLEAN, NEW step \in 0..7
    PROVE  /\ Keeps(s, GoTo(s, water, step))
           /\ ~Runs([water |-> water, step |-> step, rounds |-> 0])
                 => GoTo(s, water, step).told = s.told
<1>. DEFINE r == IF water \/ step <= 3 THEN 0 ELSE s.page.rounds
            p == [water |-> water, step |-> step, rounds |-> r]
            t == [s EXCEPT !.page = p]
<1>1. p \in Page
  BY DEF Clean, Page
<1>2. Runs(p) <=> Runs([water |-> water, step |-> step, rounds |-> 0])
  BY DEF Runs
<1>. HIDE DEF p
<1>3. t \in Clean /\ t.warn = s.warn /\ t.bits = s.bits /\ t.told = s.told /\ t.page = p
  BY <1>1 DEF Clean
<1>4. GoTo(s, water, step) = ChangeStep(t)
  BY DEF GoTo, p
<1>. HIDE DEF t
<1>5. Keeps(t, ChangeStep(t)) /\ (~Runs(p) => ChangeStep(t).told = t.told)
  BY <1>3, ChangeStepKeeps, ChangeStepTells
<1>. QED  BY <1>2, <1>3, <1>4, <1>5 DEF Keeps

LEMMA CountedKeeps ==
    ASSUME NEW s \in Clean
    PROVE  LET t == Counted(s)
           IN  /\ t \in Clean /\ t.warn = s.warn /\ t.bits = s.bits /\ t.told = s.told
               /\ t.page.water = s.page.water /\ t.page.step = s.page.step
<1>. DEFINE r == IF ~s.page.water /\ Runs(s.page) /\ s.page.rounds < 2 THEN s.page.rounds + 1 ELSE s.page.rounds
            p == [s.page EXCEPT !.rounds = r]
<1>1. s.page \in Page
  BY DEF Clean
<1>2. p \in Page /\ p.water = s.page.water /\ p.step = s.page.step
  BY <1>1 DEF Page
<1>3. Counted(s) = [s EXCEPT !.page = p]
  BY DEF Counted, Clean, Page
<1>. HIDE DEF p
<1>. QED  BY <1>2, <1>3 DEF Clean

\* The end of a cleaning leads to a step where none runs.
LEMMA DownKeeps ==
    ASSUME NEW s \in Clean
    PROVE  Keeps(s, Down(s)) /\ Down(s).told = s.told
<1>. DEFINE t == Counted(s)
<1>1. CASE Running(s)
  <2>1. /\ t \in Clean /\ t.warn = s.warn /\ t.bits = s.bits /\ t.told = s.told
        /\ t.page.water = s.page.water /\ t.page.step = s.page.step
    BY CountedKeeps
  <2>2. s.page \in Page
    BY DEF Clean
  <2>3. /\ t.page.water \in BOOLEAN /\ t.page.step + 1 \in 0..7
        /\ ~Runs([water |-> t.page.water, step |-> t.page.step + 1, rounds |-> 0])
    BY <1>1, <2>1, <2>2 DEF Running, Runs, Page
  <2>4. Down(s) = GoTo(t, t.page.water, t.page.step + 1)
    BY <1>1 DEF Down, Forward
  <2>. HIDE DEF t
  <2>. QED  BY <2>1, <2>3, <2>4, GoToKeeps DEF Keeps
<1>2. CASE ~Running(s)
  BY <1>2 DEF Down, Keeps
<1>. QED  BY <1>1, <1>2

LEMMA StepBackKeeps ==
    ASSUME NEW s \in Clean
    PROVE  Keeps(s, StepBack(s))
<1>1. s.page \in Page
  BY DEF Clean
<1>2. s.page.step > 0 => s.page.water \in BOOLEAN /\ s.page.step - 1 \in 0..7
  BY <1>1 DEF Page
<1>3. s.page.step > 0 => Keeps(s, Backward(s))
  BY <1>2, GoToKeeps DEF Backward
<1>4. Keeps(s, s)
  BY DEF Keeps
<1>. QED  BY <1>3, <1>4, ChangeStepKeeps DEF StepBack

LEMMA CloudStartsKeeps ==
    ASSUME NEW s \in Clean
    PROVE  Keeps(s, CloudStarts(s))
<1>1. s.page \in Page /\ s.mode \in Modes
  BY DEF Clean
<1>2. ~s.page.water /\ s.page.step = 4 => Keeps(s, Forward(s))
  <2>1. s.page.step = 4 => s.page.water \in BOOLEAN /\ s.page.step + 1 \in 0..7
    BY <1>1 DEF Page
  <2>. QED  BY <2>1, GoToKeeps DEF Forward
<1>3. Keeps(s, GoTo(s, TRUE, 2)) /\ Keeps(s, GoTo(s, FALSE, 3))
  <2>1. 2 \in 0..7 /\ 3 \in 0..7 /\ TRUE \in BOOLEAN /\ FALSE \in BOOLEAN
    OBVIOUS
  <2>. QED  BY <2>1, GoToKeeps
<1>4. Keeps(s, s)
  BY DEF Keeps
<1>. QED  BY <1>1, <1>2, <1>3, <1>4 DEF CloudStarts, Modes

LEMMA UpdatePageCalm ==
    ASSUME NEW s, Good(s), NEW flags
    PROVE  Calm(s, UpdatePage(s, flags))
<1>. DEFINE a == IF "DOWN" \in flags THEN Down(s) ELSE s
            b == IF "WARN" \in flags THEN StepBack(a) ELSE a
            c == IF "CLOSE" \in flags THEN Resume(b) ELSE b
<1>1. Good(a) /\ Keeps(s, a)
  BY DownGood, DownKeeps DEF Good, Keeps
<1>2. Good(b) /\ Keeps(a, b)
  BY <1>1, StepBackGood, StepBackKeeps DEF Good, Keeps
<1>3. Good(c) /\ Keeps(b, c)
  BY <1>2, ChangeStepGood, ChangeStepKeeps DEF Good, Keeps, Resume
<1>4. Keeps(s, c)
  BY <1>1, <1>2, <1>3 DEF Keeps
<1>5. Keeps(c, CloudStarts(c))
  BY <1>3, CloudStartsKeeps DEF Good
<1>6. Calm(c, Stop(c, KindOf(c.page)))
  BY <1>3 DEF Calm, Stop, Leave, Good, Clean
<1>7. Calm(a, [a EXCEPT !.told = "none"])
  BY <1>1 DEF Calm, Good, Clean
<1>8. /\ Calm(s, c) /\ Calm(s, CloudStarts(c)) /\ Calm(s, s)
      /\ Calm(s, Stop(c, KindOf(c.page))) /\ Calm(s, [a EXCEPT !.told = "none"])
  <2>. HIDE DEF a, b, c
  <2>. QED  BY <1>1, <1>4, <1>5, <1>6, <1>7 DEF Keeps, Calm
<1>. QED  BY <1>8 DEF UpdatePage

LEMMA PopKeeps ==
    ASSUME NEW s \in Clean
    PROVE  /\ Keeps(s, ClosePop(s)) /\ ClosePop(s).told = s.told
           /\ Keeps(s, UpdatePop(s)) /\ UpdatePop(s).told = s.told
           /\ \A ws : Keeps(s, List(s, ws)) /\ List(s, ws).told = s.told
<1>1. Keeps(s, s) /\ Keeps(s, ClosePop(s)) /\ ClosePop(s).told = s.told
  BY DEF Clean, ClosePop, Keeps
<1>2. \A ws : /\ Keeps(s, List(s, ws)) /\ List(s, ws).told = s.told
              /\ Keeps(s, [s EXCEPT !.listed = ws]) /\ [s EXCEPT !.listed = ws].told = s.told
  BY DEF Clean, List, Keeps
<1>. QED  BY <1>1, <1>2 DEF UpdatePop

LEMMA OpenKeeps ==
    ASSUME NEW s \in Clean
    PROVE  /\ Keeps(s, Open(s)) /\ Open(s).told = s.told
           /\ Keeps(s, OpenCalcify(s)) /\ OpenCalcify(s).told = s.told
BY DEF Clean, Open, OpenCalcify, Keeps

LEMMA FlagsKeep ==
    ASSUME NEW s \in Clean, NEW flags
    PROVE  LET t == [s EXCEPT !.flags = flags]
           IN  t.warn = s.warn /\ t.bits = s.bits /\ t.told = s.told
BY DEF Clean

LEMMA UpdateCalm ==
    ASSUME NEW s, Good(s), NEW new \in SUBSET Flags
    PROVE  Calm(s, Update(s, new))
<1>. DEFINE flags == s.flags \cup new
            p == IF "WARN" \in flags THEN UpdatePop(s) ELSE s
            left == IF "WARN" \in flags /\ s.pop = "WARN" /\ Undealt(s) = {}
                    THEN flags \ {"WARN"} ELSE flags
            q == IF "AI" \in left THEN Leave(p) ELSE p
            u == UpdatePage(q, left)
<1>1. Good(p) /\ Keeps(s, p)
  BY UpdatePopGood, PopKeeps DEF Good, Keeps
<1>2. Good(Open(p)) /\ Keeps(p, Open(p))
  BY <1>1, OpenGood, OpenKeeps DEF Good
<1>3. Good(u) /\ Calm(p, u)
  <2>1. Good(q) /\ Keeps(p, q)
    BY <1>1, LeaveGood, LeaveKeeps DEF Good, Keeps
  <2>2. Good(u) /\ Calm(q, u)
    BY <2>1, UpdatePageGood, UpdatePageCalm
  <2>. HIDE DEF p, q, u
  <2>. QED  BY <2>1, <2>2 DEF Keeps, Calm
<1>4. Update(s, new) = [Open(p) EXCEPT !.flags = left] \/ Update(s, new) = [u EXCEPT !.flags = {}]
  BY DEF Update
<1>. HIDE DEF p, q, u, left
<1>5. /\ [Open(p) EXCEPT !.flags = left].warn = Open(p).warn
      /\ [Open(p) EXCEPT !.flags = left].bits = Open(p).bits
      /\ [u EXCEPT !.flags = {}].warn = u.warn
      /\ [u EXCEPT !.flags = {}].bits = u.bits
      /\ [u EXCEPT !.flags = {}].told = u.told
  BY <1>2, <1>3, FlagsKeep DEF Good
<1>. QED  BY <1>1, <1>2, <1>3, <1>4, <1>5 DEF Keeps, Calm

\* The end of a cleaning starts no other, unless flags of an earlier update are left.
LEMMA CleanDoneTells ==
    ASSUME Good(clean), clean.flags = {}, CleanDone
    PROVE  clean.told' = "none"
<1>. DEFINE kind == IF "WATER" \in clean.bits THEN "WATER" ELSE "CAL"
            s == [clean EXCEPT !.bits = @ \ {kind}, !.told = "none"]
<1>1. Good(s) /\ s.flags = {} /\ s.told = "none"
  BY DEF Good, Clean
<1>2. clean' = Update(s, {"DOWN"})
  BY DEF CleanDone
<1>. HIDE DEF s
<1>. DEFINE u == UpdatePage(s, {"DOWN"})
<1>3. u = IF s.shown THEN Down(s) ELSE s
  BY DEF UpdatePage
<1>4. clean' = [u EXCEPT !.flags = {}]
  BY <1>1, <1>2 DEF Update
<1>5. u \in Clean /\ u.told = "none"
  BY <1>1, <1>3, DownGood, DownKeeps DEF Good
<1>. HIDE DEF u
<1>. QED  BY <1>4, <1>5, FlagsKeep

\* Out of water is told to stop; what other reports step back is a fault.
LEMMA WarnFrameTells ==
    ASSUME Good(clean), clean.flags = {}, clean.told = "none", WarnFrame,
           "FAULT" \notin clean.warn'
    PROVE  clean.told' = "none"
<1>1. PICK ws \in SUBSET Warnings :
        clean' = Update([clean EXCEPT !.warn = ws, !.dealt = @ \cap ws], {"WARN"})
  BY DEF WarnFrame
<1>. DEFINE s == [clean EXCEPT !.warn = ws, !.dealt = @ \cap ws]
            p == UpdatePop(s)
            left == IF s.pop = "WARN" /\ Undealt(s) = {} THEN {} ELSE {"WARN"}
            u == UpdatePage(p, left)
<1>2. Good(s) /\ s.warn = ws /\ s.flags = {} /\ s.told = "none"
  BY WarningsAssumption DEF Good, Clean
<1>. HIDE DEF s
<1>3. Good(p) /\ p.warn = ws /\ p.told = "none"
  BY <1>2, UpdatePopGood, PopKeeps DEF Good, Keeps
<1>4. clean' = [u EXCEPT !.flags = {}]
  BY <1>1, <1>2 DEF Update, s
<1>. HIDE DEF p, left
<1>5. Good(u) /\ Calm(p, u)
  BY <1>3, UpdatePageGood, UpdatePageCalm
<1>6. clean.warn' = u.warn /\ clean.told' = u.told
  <2>. HIDE DEF u
  <2>. QED  BY <1>4, <1>5, FlagsKeep DEF Good
<1>7. "FAULT" \notin ws /\ ws \subseteq AllWarnings
  BY <1>3, <1>5, <1>6, WarningsAssumption DEF Calm
<1>8. StepBack(p) = p \/ Pauses(p)
  BY <1>3, <1>7 DEF StepBack, Pauses, AllWarnings
<1>9. left = {} \/ left = {"WARN"}
  BY DEF left
<1>10. u = p \/ u = [p EXCEPT !.told = "none"]
  BY <1>8, <1>9 DEF UpdatePage
<1>11. [p EXCEPT !.told = "none"].told = "none"
  BY <1>3 DEF Good, Clean
<1>. QED  BY <1>3, <1>6, <1>10, <1>11

\* Every other step leaves the warnings and keeps the orders, or tells the controller nothing.
LEMMA PopActionsCalm ==
    ASSUME Good(clean), PopEnter \/ PopLater \/ StopEnter \/ StopCancel
    PROVE  Calm(clean, clean')
<1>. DEFINE s(ws) == [clean EXCEPT !.dealt = @ \cup ws]
<1>1. \A ws \in SUBSET AllWarnings : Good(s(ws)) /\ s(ws).warn = clean.warn /\ s(ws).bits = clean.bits
  <2>1. \A ws : s(ws).warn = clean.warn /\ s(ws).bits = clean.bits
    BY DEF Good, Clean
  <2>2. \A ws \in SUBSET AllWarnings : Good(s(ws))
    BY DealtGood
  <2>. QED  BY <2>1, <2>2
<1>2. {"CLOSE"} \in SUBSET Flags
  BY DEF Flags
<1>3. ASSUME NEW t, Good(t)
      PROVE  Calm(t, ClosePop(Update(t, {"CLOSE"})))
  <2>1. Good(Update(t, {"CLOSE"})) /\ Calm(t, Update(t, {"CLOSE"}))
    BY <1>2, <1>3, UpdateGood, UpdateCalm
  <2>2. /\ Keeps(Update(t, {"CLOSE"}), ClosePop(Update(t, {"CLOSE"})))
        /\ ClosePop(Update(t, {"CLOSE"})).told = Update(t, {"CLOSE"}).told
    BY <2>1, PopKeeps DEF Good
  <2>. QED  BY <2>1, <2>2 DEF Keeps, Calm
<1>4. CASE PopEnter
  <2>. DEFINE ws == {clean.asked} \ {"none"}
              d == s(ws)
  <2>1. ws \in SUBSET AllWarnings
    BY DEF Good, Clean
  <2>2. Good(d) /\ d.warn = clean.warn /\ d.bits = clean.bits
    BY <1>1, <2>1
  <2>3. \/ clean' = ClosePop(Update(OpenCalcify(d), {"CLOSE"}))
        \/ clean' = List(d, d.listed \ {d.asked})
        \/ clean' = ClosePop(Update(d, {"CLOSE"}))
    BY <1>4 DEF PopEnter
  <2>. HIDE DEF d
  <2>4. Good(OpenCalcify(d)) /\ Keeps(d, OpenCalcify(d)) /\ Keeps(d, List(d, d.listed \ {d.asked}))
    BY <2>2, OpenCalcifyGood, OpenKeeps, PopKeeps DEF Good
  <2>5. /\ Calm(OpenCalcify(d), ClosePop(Update(OpenCalcify(d), {"CLOSE"})))
        /\ Calm(d, ClosePop(Update(d, {"CLOSE"})))
    BY <1>3, <2>2, <2>4
  <2>. QED  BY <2>2, <2>3, <2>4, <2>5 DEF Keeps, Calm
<1>5. CASE PopLater
  <2>1. {"A02"} \in SUBSET AllWarnings
    BY DEF AllWarnings
  <2>2. Good(s({"A02"})) /\ s({"A02"}).warn = clean.warn /\ s({"A02"}).bits = clean.bits
    BY <1>1, <2>1
  <2>3. clean' = ClosePop(Update(s({"A02"}), {"CLOSE"}))
    BY <1>5 DEF PopLater
  <2>4. Calm(s({"A02"}), ClosePop(Update(s({"A02"}), {"CLOSE"})))
    BY <1>3, <2>2
  <2>. HIDE DEF s
  <2>. QED  BY <2>2, <2>3, <2>4 DEF Calm
<1>6. CASE StopEnter
  <2>1. PICK kind \in Kinds : clean' = ClosePop(Stop(clean, kind))
    BY <1>6 DEF StopEnter
  <2>2. Good(Stop(clean, kind)) /\ Stop(clean, kind).warn = clean.warn /\ Stop(clean, kind).told = "none"
    <3>1. Good(Stop(clean, kind))
      BY StopGood
    <3>. QED  BY <3>1 DEF Stop, Leave, Good, Clean
  <2>3. /\ Keeps(Stop(clean, kind), ClosePop(Stop(clean, kind)))
        /\ ClosePop(Stop(clean, kind)).told = Stop(clean, kind).told
    BY <2>2, PopKeeps DEF Good
  <2>. QED  BY <2>1, <2>2, <2>3 DEF Keeps, Calm
<1>7. CASE StopCancel
  BY <1>7, PopKeeps DEF StopCancel, Keeps, Calm, Good
<1>. QED  BY <1>4, <1>5, <1>6, <1>7

LEMMA PageActionsCalm ==
    ASSUME Good(clean), Select \/ Enter \/ Cancel \/ Back \/ DeletePages
    PROVE  Calm(clean, clean')
<1>1. clean \in Clean /\ clean.page \in Page
  BY DEF Good, Clean
<1>2. CASE Select
  <2>1. PICK water \in BOOLEAN : clean' = GoTo(clean, water, 1)
    BY <1>2 DEF Select
  <2>2. Keeps(clean, GoTo(clean, water, 1))
    <3>1. 1 \in 0..7
      OBVIOUS
    <3>. QED  BY <1>1, <3>1, GoToKeeps
  <2>. QED  BY <2>1, <2>2 DEF Keeps, Calm
<1>3. CASE Enter
  <2>1. clean.page.water \in BOOLEAN /\ clean.page.step + 1 \in 0..7
    BY <1>1, <1>3 DEF Enter, Page
  <2>2. clean' = GoTo(clean, clean.page.water, clean.page.step + 1)
    BY <1>3 DEF Enter, Forward
  <2>3. Keeps(clean, GoTo(clean, clean.page.water, clean.page.step + 1))
    BY <1>1, <2>1, GoToKeeps
  <2>. QED  BY <2>2, <2>3 DEF Keeps, Calm
<1>4. CASE Cancel
  <2>1. clean.page.water \in BOOLEAN /\ clean.page.step - 1 \in 0..7
    BY <1>1, <1>4 DEF Cancel, Page
  <2>2. clean' = GoTo(clean, clean.page.water, clean.page.step - 1)
    BY <1>4 DEF Cancel, Backward
  <2>3. Keeps(clean, GoTo(clean, clean.page.water, clean.page.step - 1))
    BY <1>1, <2>1, GoToKeeps
  <2>. QED  BY <2>2, <2>3 DEF Keeps, Calm
<1>5. CASE Back
  <2>1. Keeps(clean, Leave(clean)) /\ Keeps(clean, [clean EXCEPT !.pop = "STOP_CLEAN"])
    BY <1>1, LeaveKeeps DEF Clean, Keeps
  <2>. QED  BY <1>5, <2>1 DEF Back, Keeps, Calm
<1>6. CASE DeletePages
  BY <1>1, <1>6 DEF DeletePages, Clean, Calm
<1>. QED  BY <1>2, <1>3, <1>4, <1>5, <1>6

LEMMA CloudActionsCalm ==
    ASSUME Good(clean), CloudStart \/ CloudStop \/ AiData \/ TuyaBrew
    PROVE  Calm(clean, clean')
<1>1. {"START"} \in SUBSET Flags /\ {"STOP"} \in SUBSET Flags /\ {"AI"} \in SUBSET Flags
  BY DEF Flags
<1>2. CASE CloudStart
  <2>1. PICK m \in Cloud : clean' = Update([clean EXCEPT !.mode = m], {"START"})
    BY <1>2 DEF CloudStart
  <2>. DEFINE s == [clean EXCEPT !.mode = m]
  <2>2. Good(s) /\ s.warn = clean.warn /\ s.bits = clean.bits
    BY CloudAssumption DEF Good, Clean
  <2>. HIDE DEF s
  <2>3. Calm(s, Update(s, {"START"}))
    BY <1>1, <2>2, UpdateCalm
  <2>. QED  BY <2>1, <2>2, <2>3 DEF Calm, s
<1>3. CASE CloudStop
  <2>. DEFINE s == [clean EXCEPT !.flags = @ \ {"START"}]
  <2>1. Good(s) /\ s.warn = clean.warn /\ s.bits = clean.bits
    BY DEF Good, Clean
  <2>2. clean' = Update(s, {"STOP"})
    BY <1>3 DEF CloudStop
  <2>. HIDE DEF s
  <2>3. Calm(s, Update(s, {"STOP"}))
    BY <1>1, <2>1, UpdateCalm
  <2>. QED  BY <2>1, <2>2, <2>3 DEF Calm
<1>4. CASE AiData
  BY <1>1, <1>4, UpdateCalm DEF AiData
<1>5. CASE TuyaBrew
  <2>1. Good(ClosePop(clean)) /\ Keeps(clean, ClosePop(clean))
    BY ClosePopGood, PopKeeps DEF Good
  <2>2. Keeps(ClosePop(clean), Leave(ClosePop(clean)))
    BY <2>1, LeaveKeeps DEF Good
  <2>. QED  BY <1>5, <2>1, <2>2 DEF TuyaBrew, Keeps, Calm
<1>. QED  BY <1>2, <1>3, <1>4, <1>5
-----------------------------------------------------------------------------
LEMMA Invariance == Spec => []IInv
<1>1. Init => IInv
  BY InitGood DEF IInv
<1>2. IInv /\ [Next]_clean => IInv'
  BY NextGood DEF IInv
<1>. QED  BY <1>1, <1>2, PTL DEF Spec

\* The state of the clean page has its type, for any warnings and commands and any number
\* of pages that wait to be deleted.
THEOREM CleanTypeOK == Spec => []TypeOK
<1>1. IInv => TypeOK
  BY DEF IInv, Good, TypeOK
<1>. QED  BY <1>1, Invariance, PTL

\* Calcify cleaning is told to be done after two rounds that the controller ended, also
\* on a page that was left, waited to be deleted and is shown again.
THEOREM DoneAfterTwoRounds == Spec => []TwoRounds
<1>1. IInv => TwoRounds
  BY DEF IInv, Good, Sound, TwoRounds
<1>. QED  BY <1>1, Invariance, PTL

\* The controller never cleans on an order that the program has forgotten.
THEOREM NoForgottenOrder == Spec => []ToldHasBit
<1>1. IInv => ToldHasBit
  BY DEF IInv, Good, ToldHasBit
<1>. QED  BY <1>1, Invariance, PTL

\* No report of the controller starts a cleaning, but a fault that goes on.
THEOREM ReportsStartNothing == Spec => FramesStartNothing
<1>. DEFINE Step == /\ clean.told = "none" /\ clean'.told # "none"
                    /\ clean.flags = {} /\ "FAULT" \notin clean'.warn
                    => clean'.warn = clean.warn /\ clean.bits \subseteq clean'.bits
<1>1. IInv /\ [Next]_clean => [Step]_clean
  <2>. SUFFICES ASSUME Good(clean), Next PROVE Step
    BY DEF IInv
  <2>. SUFFICES ASSUME clean.told = "none", clean'.told # "none",
                       clean.flags = {}, "FAULT" \notin clean'.warn
                PROVE  clean'.warn = clean.warn /\ clean.bits \subseteq clean'.bits
    OBVIOUS
  <2>1. ~CleanDone /\ ~WarnFrame /\ ~OtherFrame
    BY CleanDoneTells, WarnFrameTells DEF OtherFrame
  <2>2. Calm(clean, clean')
    BY <2>1, PopActionsCalm, PageActionsCalm, CloudActionsCalm DEF Next
  <2>. QED  BY <2>2 DEF Calm
<1>. QED  BY <1>1, Invariance, PTL DEF Spec, FramesStartNothing
=============================================================================
