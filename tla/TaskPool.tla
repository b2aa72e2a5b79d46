------------------------------ MODULE TaskPool ------------------------------
(***************************************************************************)
(* ThreadPool (src/src/common/comm_class.cc): the main thread queues tasks *)
(* and hands them to idle worker threads; a worker that ran one queues it  *)
(* for the main thread, which calls onMain and deletes it.  Only the       *)
(* second queue has a mutex.  Workers and the main thread otherwise share  *)
(* plain fields: the status of a worker, and the pointer to its task.      *)
(*                                                                         *)
(* A cell is an allocated TaskData; a deleted cell may be allocated again, *)
(* so that a pointer left in a worker may come to point to another task.   *)
(* Stores of a thread are taken to be seen in the order of the program.    *)
(***************************************************************************)
EXTENDS Naturals, Sequences, FiniteSets

CONSTANTS
    Cells,      \* bound on the tasks allocated at once
    Workers,    \* the threads of init(2)
    None,       \* the null pointer
    Batch       \* how many tasks one handleEvents reports: 3 in the code

ASSUME NoneAssumption == None \notin Cells
ASSUME WorkersAssumption == IsFiniteSet(Workers)
ASSUME BatchAssumption == Batch \in Nat \ {0}

VARIABLES
    waitTasks,  \* mWaitTasks
    mainTasks,  \* mMainTasks
    status,     \* ThreadData.status
    tdata,      \* ThreadData.tdata
    at,         \* where the worker is in onThread
    main,       \* where the main thread is in handleEvents; it holds mMutex in "report"
    left        \* tasks this handleEvents may still report

pool == <<waitTasks, mainTasks, status, tdata, at, main, left>>

Elements(s) == {s[i] : i \in DOMAIN s}

\* Workers between the moment they were given a task and the moment they handed it on.
Active == {w \in Workers : status[w] = "BUSY" /\ at[w] # "pushed"}

Held == {tdata[w] : w \in Active}

\* Cells that are allocated.
Live == Elements(waitTasks) \cup Held \cup Elements(mainTasks)

Init ==
    /\ waitTasks = << >> /\ mainTasks = << >>
    /\ status = [w \in Workers |-> "NULL"]
    /\ tdata = [w \in Workers |-> None]
    /\ at = [w \in Workers |-> "start"]
    /\ main = "loop" /\ left = 0
-----------------------------------------------------------------------------
(* The main thread.                                                        *)

\* add(): the list of waiting tasks is the main thread's own.
Add(c) ==
    /\ main # "assign"
    /\ c \notin Live
    /\ waitTasks' = Append(waitTasks, c)
    /\ UNCHANGED <<mainTasks, status, tdata, at, main, left>>

\* checkEvents().
HandleEvents ==
    /\ main = "loop"
    /\ waitTasks # << >> \/ mainTasks # << >>
    /\ main' = "assign"
    /\ UNCHANGED <<waitTasks, mainTasks, status, tdata, at, left>>

\* Mutant: any thread that is not busy counts as idle.
Idle_NotBusy(w) == status[w] # "BUSY"

\* getIdle() may return w.
Idle(w) == status[w] = "IDLE"

Assign(w) ==
    /\ main = "assign" /\ waitTasks # << >> /\ Idle(w)
    /\ tdata' = [tdata EXCEPT ![w] = Head(waitTasks)]
    /\ status' = [status EXCEPT ![w] = "BUSY"]
    /\ waitTasks' = Tail(waitTasks)
    /\ UNCHANGED <<mainTasks, at, main, left>>

\* No task waits or no thread is idle: take the mutex.
StartReport ==
    /\ main = "assign"
    /\ waitTasks = << >> \/ \A w \in Workers : ~Idle(w)
    /\ main' = "report" /\ left' = Batch
    /\ UNCHANGED <<waitTasks, mainTasks, status, tdata, at>>

\* Mutant: the bound of a batch forgotten.
Report_Unbounded ==
    /\ main = "report" /\ mainTasks # << >>
    /\ mainTasks' = Tail(mainTasks)
    /\ left' = left - 1
    /\ UNCHANGED <<waitTasks, status, tdata, at, main>>

\* onMain, then the task is taken off the list and deleted.
Report ==
    /\ main = "report" /\ left > 0 /\ mainTasks # << >>
    /\ mainTasks' = Tail(mainTasks)
    /\ left' = left - 1
    /\ UNCHANGED <<waitTasks, status, tdata, at, main>>

\* Nothing left, the batch reported, or one that took more than half a second.
EndReport ==
    /\ main = "report"
    /\ left < Batch \/ mainTasks = << >>
    /\ main' = "loop" /\ left' = 0
    /\ UNCHANGED <<waitTasks, mainTasks, status, tdata, at>>
-----------------------------------------------------------------------------
(* A worker: onThread.                                                     *)

StartThread(w) ==
    /\ at[w] = "start"
    /\ status' = [status EXCEPT ![w] = "IDLE"]
    /\ at' = [at EXCEPT ![w] = "loop"]
    /\ UNCHANGED <<waitTasks, mainTasks, tdata, main, left>>

\* onTask returned 0.  While it runs, and when it returns something else and is called
\* again, nothing changes here.
RunDone(w) ==
    /\ at[w] = "loop" /\ status[w] = "BUSY"
    /\ at' = [at EXCEPT ![w] = "ran"]
    /\ UNCHANGED <<waitTasks, mainTasks, status, tdata, main, left>>

\* Mutant: idle before the task is handed on.
Push_IdleFirst(w) ==
    /\ at[w] = "ran" /\ main # "report"
    /\ at' = [at EXCEPT ![w] = IF status[w] = "BUSY" THEN @ ELSE "pushed"]
    /\ status' = [status EXCEPT ![w] = "IDLE"]
    /\ mainTasks' = IF status[w] = "BUSY" THEN mainTasks ELSE Append(mainTasks, tdata[w])
    /\ UNCHANGED <<waitTasks, tdata, main, left>>

\* The mutex is free.
Push(w) ==
    /\ at[w] = "ran" /\ main # "report"
    /\ mainTasks' = Append(mainTasks, tdata[w])
    /\ at' = [at EXCEPT ![w] = "pushed"]
    /\ UNCHANGED <<waitTasks, status, tdata, main, left>>

\* Mutant: a thread that has worked is not idle again.
BecomeIdle_Never(w) ==
    /\ at[w] = "pushed"
    /\ status' = [status EXCEPT ![w] = "NULL"]
    /\ at' = [at EXCEPT ![w] = "logs"]
    /\ UNCHANGED <<waitTasks, mainTasks, tdata, main, left>>

BecomeIdle(w) ==
    /\ at[w] = "pushed"
    /\ status' = [status EXCEPT ![w] = "IDLE"]
    /\ at' = [at EXCEPT ![w] = "logs"]
    /\ UNCHANGED <<waitTasks, mainTasks, tdata, main, left>>

\* The line logged after a task reads its id through tdata.  By now the main thread may
\* have deleted that task, or given the worker its next one.  If it has not, nothing
\* reads this pointer again, and the model forgets it.
LogId(w) ==
    /\ at[w] = "logs"
    /\ at' = [at EXCEPT ![w] = "loop"]
    /\ tdata' = [tdata EXCEPT ![w] = IF status[w] = "BUSY" THEN @ ELSE None]
    /\ UNCHANGED <<waitTasks, mainTasks, status, main, left>>

Main == HandleEvents \/ (\E w \in Workers : Assign(w)) \/ StartReport \/ Report \/ EndReport

Worker(w) == StartThread(w) \/ RunDone(w) \/ Push(w) \/ BecomeIdle(w) \/ LogId(w)

Next == (\E c \in Cells : Add(c)) \/ Main \/ \E w \in Workers : Worker(w)

Spec == Init /\ [][Next]_pool
-----------------------------------------------------------------------------
TypeOK ==
    /\ waitTasks \in Seq(Cells) /\ mainTasks \in Seq(Cells)
    /\ status \in [Workers -> {"NULL", "IDLE", "BUSY"}]
    /\ tdata \in [Workers -> Cells \cup {None}]
    /\ at \in [Workers -> {"start", "loop", "ran", "pushed", "logs"}]
    /\ main \in {"loop", "assign", "report"} /\ left \in 0..Batch

Distinct(s) == \A i, j \in DOMAIN s : s[i] = s[j] => i = j

\* A task is in one place: waiting, with one worker until that has handed it on, or on
\* its way back.  So it is run by one worker and told once (comm_class.cc:99, 141, 112).
\* It says nothing of LogId, which reads a task after it was handed on.
OneHolder ==
    /\ Distinct(waitTasks) /\ Distinct(mainTasks)
    /\ Elements(waitTasks) \cap Elements(mainTasks) = {}
    /\ Held \cap (Elements(waitTasks) \cup Elements(mainTasks)) = {}
    /\ \A v, w \in Active : tdata[v] = tdata[w] => v = w

\* Not so, and checked by no run: the id for the log line is read from a task that is
\* still allocated (comm_class.cc:146).  The main thread may have deleted it, or the
\* slot may hold a task added since; what is read goes to the log and nowhere else.
LogReadsLive == \A w \in Workers : at[w] = "logs" => tdata[w] \in Live

\* A worker that runs a task is busy and has one.
WorkerReady ==
    \A w \in Workers :
       /\ at[w] \in {"ran", "pushed"} => status[w] = "BUSY"
       /\ at[w] = "start" <=> status[w] = "NULL"
       /\ status[w] = "BUSY" => tdata[w] \in Cells

Board == INSTANCE TaskBoard WITH
            Tasks <- Cells, Size <- Cardinality(Workers),
            waiting <- waitTasks, running <- Held, finished <- mainTasks

\* Every task added comes back to the main thread, also with all workers taken and
\* whoever adds more (comm_class.cc:93, 140, 108).
Served == \A c \in Cells : []<>(c \notin Live)

\* The pool keeps the promise of the board.
KeepsBoard == Board!Spec
=============================================================================
