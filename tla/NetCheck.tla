------------------------------ MODULE NetCheck ------------------------------
(***************************************************************************)
(* The thread pool with the tasks of the program: the check of the network *)
(* (CTickHanlder, src/main.cc), one at a time, whose result the main       *)
(* thread turns into netOk; and others (weather, time, reports of recipes, *)
(* checking an upgrade), which differ only in how long they keep a worker. *)
(***************************************************************************)
EXTENDS TaskPool

CONSTANT MaxFails       \* cap on mPingFailCount: three is as good as more

ASSUME MaxFailsAssumption == MaxFails \in Nat /\ MaxFails >= 3

VARIABLES
    mNetChecking,
    mPingFailCount,
    netOk,              \* g_appData.netOk
    checks,             \* the tasks that check the network, from add to delete
    link                \* can the name server be reached?

client == <<mNetChecking, mPingFailCount, netOk, checks, link>>
vars == <<pool, client>>

NetInit ==
    /\ Init
    /\ mNetChecking = FALSE
    /\ mPingFailCount = 0
    /\ netOk = FALSE
    /\ checks = {}
    /\ link \in BOOLEAN

\* Mutant: every tick adds a check.
Tick_Again ==
    /\ main = "loop"
    /\ \E c \in Cells : Add(c) /\ checks' = checks \cup {c}
    /\ mNetChecking' = TRUE
    /\ UNCHANGED <<mPingFailCount, netOk, link>>

\* Mutant: every tick counts from nothing.
Tick_Resets ==
    /\ main = "loop" /\ ~mNetChecking
    /\ \E c \in Cells : Add(c) /\ checks' = checks \cup {c}
    /\ mNetChecking' = TRUE
    /\ mPingFailCount' = 0
    /\ UNCHANGED <<netOk, link>>

\* handleEvents, once a second.
Tick ==
    /\ main = "loop" /\ ~mNetChecking
    /\ \E c \in Cells : Add(c) /\ checks' = checks \cup {c}
    /\ mNetChecking' = TRUE
    /\ UNCHANGED <<mPingFailCount, netOk, link>>

\* Others leave room for the check: the heap is not that small.
AddOther ==
    /\ main = "loop"
    /\ Cardinality(Cells \ Live) > 1
    /\ \E c \in Cells : Add(c)
    /\ UNCHANGED client

\* onTask, on a worker: the answer of the moment at which it ends.
CheckNet(w) ==
    /\ tdata[w] \in checks
    /\ RunDone(w)
    /\ mPingFailCount' = IF link THEN 0
                         ELSE IF mPingFailCount < MaxFails THEN mPingFailCount + 1 ELSE MaxFails
    /\ UNCHANGED <<mNetChecking, netOk, checks, link>>

RunOther(w) == tdata[w] \notin checks /\ RunDone(w) /\ UNCHANGED client

\* Mutant: the check is not armed again when the network is lost.
CheckDone_NotArmed ==
    /\ Report /\ Head(mainTasks) \in checks
    /\ checks' = checks \ {Head(mainTasks)}
    /\ mNetChecking' = (netOk /\ mPingFailCount >= 3)
    /\ netOk' = ((netOk /\ mPingFailCount < 3) \/ mPingFailCount = 0)
    /\ UNCHANGED <<mPingFailCount, link>>

\* onMain.  The Wi-Fi manager is never CONNECTING: what would set it is commented out.
CheckDone ==
    /\ Report /\ Head(mainTasks) \in checks
    /\ checks' = checks \ {Head(mainTasks)}
    /\ mNetChecking' = FALSE
    /\ netOk' = ((netOk /\ mPingFailCount < 3) \/ mPingFailCount = 0)
    /\ UNCHANGED <<mPingFailCount, link>>

ReportOther == Report /\ Head(mainTasks) \notin checks /\ UNCHANGED client

\* The setting page: the switch turned off, or the connection held down.
Disconnect ==
    /\ main = "loop" /\ netOk
    /\ netOk' = FALSE
    /\ UNCHANGED <<pool, mNetChecking, mPingFailCount, checks, link>>

LinkChanges == link' = ~link /\ UNCHANGED <<pool, mNetChecking, mPingFailCount, netOk, checks>>

Handle ==
    \/ (HandleEvents \/ StartReport \/ EndReport \/ \E w \in Workers : Assign(w)) /\ UNCHANGED client
    \/ CheckDone \/ ReportOther

Done(w) == CheckNet(w) \/ RunOther(w)

OnThread(w) == (StartThread(w) \/ BecomeIdle(w) \/ LogId(w)) /\ UNCHANGED client

HandOn(w) == Push(w) /\ UNCHANGED client

NetNext ==
    \/ Tick \/ AddOther \/ Handle \/ Disconnect \/ LinkChanges
    \/ \E w \in Workers : OnThread(w) \/ Done(w) \/ HandOn(w)

\* The main loop polls each of its handlers in turn, the system runs every thread, a
\* mutex that is free again and again is not refused for ever, and a task is done in
\* the end.  Nothing is assumed of the user and of the network.
NetFairness ==
    /\ SF_vars(Tick) /\ WF_vars(Handle)
    /\ \A w \in Workers : WF_vars(OnThread(w) \/ Done(w)) /\ SF_vars(HandOn(w))

NetSpec == NetInit /\ [][NetNext]_vars /\ NetFairness
-----------------------------------------------------------------------------
NetTypeOK ==
    /\ TypeOK
    /\ mNetChecking \in BOOLEAN /\ netOk \in BOOLEAN /\ link \in BOOLEAN
    /\ mPingFailCount \in 0..MaxFails
    /\ checks \subseteq Cells

\* One check at a time, from the tick that adds it to its onMain: the counter that the
\* worker writes and the main thread reads has one user at a time.
OneCheck ==
    /\ Cardinality(checks) = IF mNetChecking THEN 1 ELSE 0
    /\ checks \subseteq Live

\* A network that is lost or back for good is noticed.
NoticesLoss == <>[]~link => <>[]~netOk
NoticesReturn == <>[]link => []<>netOk

=============================================================================
