-------------------------- MODULE NetCheck_proofs --------------------------
(***************************************************************************)
(* For any number of workers and tasks: a task has one holder, whatever    *)
(* the interleaving of the main thread and the workers, and the pool       *)
(* implements the board.  Only the second queue is locked, so the argument *)
(* is about the status of a worker: it is the main thread's to set when it *)
(* is "IDLE" and the worker's when it is "BUSY", and a busy worker has a   *)
(* task that nobody else has.                                              *)
(*                                                                         *)
(* The tasks of the program use the pool as the pool is meant to be used,  *)
(* so that all that is proved of the pool holds for them; and one check of *)
(* the network is under way at a time.                                     *)
(***************************************************************************)
EXTENDS NetCheck, FiniteSetTheorems, SequenceTheorems, TLAPS

\* The invariant of the pool.
IInv == TypeOK /\ OneHolder /\ WorkerReady
-----------------------------------------------------------------------------
(* Lists of tasks.                                                         *)

\* A task appended is one more element, and the list stays without repetition when the
\* task is new (Add, Push).
LEMMA AppendElements ==
    ASSUME NEW s \in Seq(Cells), NEW c \in Cells
    PROVE  /\ Append(s, c) \in Seq(Cells)
           /\ Elements(Append(s, c)) = Elements(s) \cup {c}
           /\ Distinct(s) /\ c \notin Elements(s) => Distinct(Append(s, c))
<1>1. /\ Append(s, c) \in Seq(Cells)
      /\ DOMAIN s = 1..Len(s) /\ Len(s) \in Nat
      /\ DOMAIN Append(s, c) = 1..(Len(s) + 1)
      /\ \A i \in 1..Len(s) : Append(s, c)[i] = s[i]
      /\ Append(s, c)[Len(s) + 1] = c
  OBVIOUS
<1>2. Elements(Append(s, c)) = Elements(s) \cup {c}
  <2>1. Elements(Append(s, c)) \subseteq Elements(s) \cup {c}
    BY <1>1 DEF Elements
  <2>2. Elements(s) \subseteq Elements(Append(s, c))
    <3>. SUFFICES ASSUME NEW i \in 1..Len(s)
                  PROVE  s[i] \in Elements(Append(s, c))
      BY <1>1 DEF Elements
    <3>1. i \in 1..(Len(s) + 1) /\ Append(s, c)[i] = s[i]
      BY <1>1
    <3>. QED  BY <1>1, <3>1 DEF Elements
  <2>3. c \in Elements(Append(s, c))
    <3>1. Len(s) + 1 \in 1..(Len(s) + 1)
      BY <1>1
    <3>. QED  BY <1>1, <3>1 DEF Elements
  <2>. QED  BY <2>1, <2>2, <2>3
<1>3. ASSUME Distinct(s), c \notin Elements(s)
      PROVE  Distinct(Append(s, c))
  <2>. SUFFICES ASSUME NEW i \in 1..(Len(s) + 1), NEW j \in 1..(Len(s) + 1),
                       Append(s, c)[i] = Append(s, c)[j]
                PROVE  i = j
    BY <1>1 DEF Distinct
  <2>1. \A k \in 1..Len(s) : s[k] # c
    BY <1>1, <1>3 DEF Elements
  <2>2. \A k, l \in 1..Len(s) : s[k] = s[l] => k = l
    BY <1>1, <1>3 DEF Distinct
  <2>. QED  BY <1>1, <2>1, <2>2
<1>. QED  BY <1>1, <1>2, <1>3

\* Taking the head off a list without repetition takes exactly that task (Assign, Report).
LEMMA TailElements ==
    ASSUME NEW s \in Seq(Cells), s # << >>
    PROVE  /\ Head(s) \in Cells /\ Tail(s) \in Seq(Cells)
           /\ Elements(s) = {Head(s)} \cup Elements(Tail(s))
           /\ Distinct(s) => Distinct(Tail(s)) /\ Head(s) \notin Elements(Tail(s))
<1>1. /\ Len(s) \in Nat \ {0} /\ DOMAIN s = 1..Len(s)
      /\ Head(s) \in Cells /\ Head(s) = s[1]
      /\ Tail(s) \in Seq(Cells)
      /\ DOMAIN Tail(s) = 1..(Len(s) - 1)
      /\ \A i \in 1..(Len(s) - 1) : Tail(s)[i] = s[i + 1]
  BY EmptySeq, HeadTailProperties, LenProperties
<1>2. Elements(s) = {Head(s)} \cup Elements(Tail(s))
  <2>1. Elements(s) \subseteq {Head(s)} \cup Elements(Tail(s))
    <3>. SUFFICES ASSUME NEW i \in 1..Len(s), i # 1
                  PROVE  s[i] \in Elements(Tail(s))
      BY <1>1 DEF Elements
    <3>1. i - 1 \in 1..(Len(s) - 1) /\ Tail(s)[i - 1] = s[i]
      BY <1>1
    <3>. QED  BY <1>1, <3>1 DEF Elements
  <2>2. Elements(Tail(s)) \subseteq Elements(s)
    <3>. SUFFICES ASSUME NEW i \in 1..(Len(s) - 1)
                  PROVE  Tail(s)[i] \in Elements(s)
      BY <1>1 DEF Elements
    <3>1. i + 1 \in 1..Len(s) /\ Tail(s)[i] = s[i + 1]
      BY <1>1
    <3>. QED  BY <1>1, <3>1 DEF Elements
  <2>3. Head(s) \in Elements(s)
    <3>1. 1 \in 1..Len(s)
      BY <1>1
    <3>. QED  BY <1>1, <3>1 DEF Elements
  <2>. QED  BY <2>1, <2>2, <2>3
<1>3. ASSUME Distinct(s)
      PROVE  Distinct(Tail(s)) /\ Head(s) \notin Elements(Tail(s))
  <2>1. \A i, j \in 1..Len(s) : s[i] = s[j] => i = j
    BY <1>1, <1>3 DEF Distinct
  <2>2. ASSUME NEW i \in 1..(Len(s) - 1), NEW j \in 1..(Len(s) - 1),
               Tail(s)[i] = Tail(s)[j]
        PROVE  i = j
    <3>1. i + 1 \in 1..Len(s) /\ j + 1 \in 1..Len(s) /\ s[i + 1] = s[j + 1]
      BY <1>1, <2>2
    <3>2. i + 1 = j + 1
      BY <2>1, <3>1
    <3>. QED  BY <1>1, <3>2
  <2>3. ASSUME NEW i \in 1..(Len(s) - 1)
        PROVE  Tail(s)[i] # Head(s)
    <3>1. i + 1 \in 1..Len(s) /\ 1 \in 1..Len(s) /\ i + 1 # 1
      BY <1>1
    <3>. QED  BY <1>1, <2>1, <3>1
  <2>. QED  BY <1>1, <2>2, <2>3 DEF Distinct, Elements
<1>. QED  BY <1>1, <1>2, <1>3
-----------------------------------------------------------------------------
(* The steps of the threads.                                               *)

LEMMA InitInv == Init => IInv
<1>. SUFFICES ASSUME Init PROVE IInv
  OBVIOUS
<1>1. TypeOK
  BY BatchAssumption DEF Init, TypeOK
<1>2. Active = {} /\ Held = {} /\ Elements(waitTasks) = {} /\ Elements(mainTasks) = {}
  BY DEF Init, Active, Held, Elements
<1>3. OneHolder
  BY <1>2 DEF Init, OneHolder, Distinct
<1>4. WorkerReady
  BY DEF Init, WorkerReady
<1>. QED  BY <1>1, <1>3, <1>4 DEF IInv

\* What the workers hold changes only with their own fields.
LEMMA HeldUnchanged ==
    ASSUME UNCHANGED <<status, tdata>>, \A w \in Workers : at'[w] = "pushed" <=> at[w] = "pushed"
    PROVE  Active' = Active /\ Held' = Held
BY DEF Active, Held

\* A new task is in nobody's hands.
LEMMA AddInv ==
    ASSUME IInv, NEW c \in Cells, Add(c)
    PROVE  IInv'
<1>1. waitTasks \in Seq(Cells)
  BY DEF IInv, TypeOK
<1>2. /\ waitTasks' \in Seq(Cells)
      /\ Elements(waitTasks)' = Elements(waitTasks) \cup {c}
      /\ Distinct(waitTasks) /\ c \notin Elements(waitTasks) => Distinct(waitTasks)'
  BY <1>1, AppendElements DEF Add
<1>3. Active' = Active /\ Held' = Held
  BY HeldUnchanged DEF Add
<1>4. c \notin Elements(waitTasks) \cup Held \cup Elements(mainTasks)
  BY DEF Add, Live
<1>5. TypeOK'
  BY <1>2 DEF IInv, TypeOK, Add
<1>6. OneHolder'
  BY <1>2, <1>3, <1>4 DEF IInv, OneHolder, Add
<1>7. WorkerReady'
  BY DEF IInv, WorkerReady, Add
<1>. QED  BY <1>5, <1>6, <1>7 DEF IInv

\* The first task that waits goes to the worker, and to no other.
LEMMA AssignHeld ==
    ASSUME IInv, NEW w \in Workers, Assign(w)
    PROVE  /\ w \notin Active
           /\ Active' = Active \cup {w}
           /\ Held' = Held \cup {Head(waitTasks)}
           /\ tdata'[w] = Head(waitTasks)
           /\ \A v \in Active : tdata'[v] = tdata[v]
<1>1. status[w] = "IDLE" /\ at[w] # "pushed"
  BY DEF IInv, WorkerReady, Assign, Idle
<1>2. /\ \A v \in Workers \ {w} : tdata'[v] = tdata[v] /\ status'[v] = status[v]
      /\ tdata'[w] = Head(waitTasks) /\ status'[w] = "BUSY" /\ at' = at
  BY DEF IInv, TypeOK, Assign
<1>3. w \notin Active /\ Active' = Active \cup {w}
  BY <1>1, <1>2 DEF Active
<1>4. \A v \in Active : tdata'[v] = tdata[v]
  BY <1>2, <1>3 DEF Active
<1>5. Held' = Held \cup {Head(waitTasks)}
  BY <1>2, <1>3, <1>4 DEF Held
<1>. QED  BY <1>2, <1>3, <1>4, <1>5

LEMMA AssignInv ==
    ASSUME IInv, NEW w \in Workers, Assign(w)
    PROVE  IInv'
<1>1. waitTasks \in Seq(Cells) /\ waitTasks # << >> /\ waitTasks' = Tail(waitTasks)
  BY DEF IInv, TypeOK, Assign
<1>2. /\ Head(waitTasks) \in Cells /\ waitTasks' \in Seq(Cells)
      /\ Elements(waitTasks) = {Head(waitTasks)} \cup Elements(waitTasks)'
      /\ Distinct(waitTasks)' /\ Head(waitTasks) \notin Elements(waitTasks)'
  BY <1>1, TailElements DEF IInv, OneHolder
<1>3. TypeOK'
  BY <1>2 DEF IInv, TypeOK, Assign
<1>4. OneHolder'
  <2>1. mainTasks' = mainTasks /\ Head(waitTasks) \notin Held \cup Elements(mainTasks)
    BY <1>2 DEF IInv, OneHolder, Assign
  <2>2. \A v \in Active : tdata[v] # Head(waitTasks)
    BY <2>1 DEF Held
  <2>3. \A u, v \in Active' : tdata'[u] = tdata'[v] => u = v
    BY <2>2, AssignHeld DEF IInv, OneHolder
  <2>. QED  BY <1>2, <2>1, <2>3, AssignHeld DEF IInv, OneHolder
<1>5. WorkerReady'
  BY <1>2 DEF IInv, TypeOK, WorkerReady, Assign, Idle
<1>. QED  BY <1>3, <1>4, <1>5 DEF IInv

\* Only the head of the list is told and deleted.
LEMMA ReportInv ==
    ASSUME IInv, Report
    PROVE  IInv'
<1>1. mainTasks \in Seq(Cells) /\ mainTasks # << >> /\ mainTasks' = Tail(mainTasks)
  BY DEF IInv, TypeOK, Report
<1>2. /\ mainTasks' \in Seq(Cells)
      /\ Elements(mainTasks)' \subseteq Elements(mainTasks)
      /\ Distinct(mainTasks)'
  BY <1>1, TailElements DEF IInv, OneHolder
<1>3. Active' = Active /\ Held' = Held
  BY HeldUnchanged DEF Report
<1>4. TypeOK'
  BY <1>2, BatchAssumption DEF IInv, TypeOK, Report
<1>5. OneHolder'
  BY <1>2, <1>3 DEF IInv, OneHolder, Report
<1>6. WorkerReady'
  BY DEF IInv, WorkerReady, Report
<1>. QED  BY <1>4, <1>5, <1>6 DEF IInv

\* The main thread starts and ends a round without touching a task.
LEMMA RoundInv ==
    ASSUME IInv, HandleEvents \/ StartReport \/ EndReport
    PROVE  IInv'
<1>1. UNCHANGED <<waitTasks, mainTasks, status, tdata, at>>
  BY DEF HandleEvents, StartReport, EndReport
<1>2. Active' = Active /\ Held' = Held
  BY <1>1, HeldUnchanged
<1>3. TypeOK'
  BY <1>1, BatchAssumption DEF IInv, TypeOK, HandleEvents, StartReport, EndReport
<1>4. OneHolder'
  BY <1>1, <1>2 DEF IInv, OneHolder
<1>5. WorkerReady'
  BY <1>1 DEF IInv, WorkerReady
<1>. QED  BY <1>3, <1>4, <1>5 DEF IInv

\* A worker gives the task up and puts it on the list in one step of the mutex.
LEMMA PushHeld ==
    ASSUME IInv, NEW w \in Workers, Push(w)
    PROVE  /\ w \in Active
           /\ Active' = Active \ {w}
           /\ Held' = Held \ {tdata[w]}
           /\ tdata[w] \in Cells
<1>1. at[w] = "ran" /\ status[w] = "BUSY" /\ tdata[w] \in Cells
  BY DEF IInv, WorkerReady, Push
<1>2. w \in Active /\ Active' = Active \ {w}
  BY <1>1 DEF IInv, TypeOK, Active, Push
<1>3. Held' = Held \ {tdata[w]}
  BY <1>2 DEF IInv, OneHolder, Held, Push
<1>. QED  BY <1>1, <1>2, <1>3

LEMMA PushInv ==
    ASSUME IInv, NEW w \in Workers, Push(w)
    PROVE  IInv'
<1>1. tdata[w] \in Held /\ tdata[w] \in Cells /\ mainTasks \in Seq(Cells)
  BY PushHeld DEF Held, IInv, TypeOK
<1>2. /\ mainTasks' \in Seq(Cells)
      /\ Elements(mainTasks)' = Elements(mainTasks) \cup {tdata[w]}
      /\ Distinct(mainTasks)'
  BY <1>1, AppendElements DEF IInv, OneHolder, Push
<1>3. TypeOK'
  BY <1>2 DEF IInv, TypeOK, Push
<1>4. OneHolder'
  <2>1. waitTasks' = waitTasks /\ tdata' = tdata
    BY DEF Push
  <2>2. \A u, v \in Active' : tdata'[u] = tdata'[v] => u = v
    BY <2>1, PushHeld DEF IInv, OneHolder
  <2>3. /\ Elements(waitTasks)' = Elements(waitTasks)
        /\ Held' \cap (Elements(waitTasks)' \cup Elements(mainTasks)') = {}
        /\ Elements(waitTasks)' \cap Elements(mainTasks)' = {}
    BY <1>1, <1>2, <2>1, PushHeld DEF IInv, OneHolder
  <2>. QED  BY <1>2, <2>1, <2>2, <2>3 DEF IInv, OneHolder
<1>5. WorkerReady'
  BY PushHeld DEF IInv, TypeOK, WorkerReady, Push
<1>. QED  BY <1>3, <1>4, <1>5 DEF IInv

\* The other steps of a worker move no task.
LEMMA WorkerInv ==
    ASSUME IInv, NEW w \in Workers, StartThread(w) \/ RunDone(w) \/ BecomeIdle(w) \/ LogId(w)
    PROVE  IInv' /\ Held' = Held
<1>1. UNCHANGED <<waitTasks, mainTasks, main, left>>
  BY DEF StartThread, RunDone, BecomeIdle, LogId
<1>2. TypeOK'
  BY <1>1 DEF IInv, TypeOK, StartThread, RunDone, BecomeIdle, LogId
<1>3. WorkerReady'
  BY <1>1 DEF IInv, TypeOK, WorkerReady, StartThread, RunDone, BecomeIdle, LogId
<1>4. Active' = Active
  BY DEF IInv, TypeOK, WorkerReady, Active, StartThread, RunDone, BecomeIdle, LogId
<1>5. \A v \in Active : tdata'[v] = tdata[v]
  BY DEF IInv, TypeOK, Active, StartThread, RunDone, BecomeIdle, LogId
<1>6. Held' = Held
  BY <1>4, <1>5 DEF Held
<1>7. OneHolder'
  <2>1. \A u, v \in Active' : tdata'[u] = tdata'[v] => u = v
    BY <1>4, <1>5 DEF IInv, OneHolder
  <2>. QED  BY <1>1, <1>6, <2>1 DEF IInv, OneHolder
<1>. QED  BY <1>2, <1>3, <1>6, <1>7 DEF IInv

LEMMA NextInv == IInv /\ [Next]_pool => IInv'
<1>. SUFFICES ASSUME IInv, [Next]_pool PROVE IInv'
  OBVIOUS
<1>1. CASE \E c \in Cells : Add(c)
  BY <1>1, AddInv
<1>2. CASE Main
  BY <1>2, RoundInv, AssignInv, ReportInv DEF Main
<1>3. CASE \E w \in Workers : Worker(w)
  BY <1>3, WorkerInv, PushInv DEF Worker
<1>4. CASE UNCHANGED pool
  <2>1. Active' = Active /\ Held' = Held
    BY <1>4, HeldUnchanged DEF pool
  <2>. QED  BY <1>4, <2>1 DEF pool, IInv, TypeOK, OneHolder, WorkerReady
<1>. QED  BY <1>1, <1>2, <1>3, <1>4 DEF Next
-----------------------------------------------------------------------------
\* The pool's fields keep their types: in particular a batch never reports more than
\* its bound.
THEOREM Typing == Spec => []TypeOK
<1>1. IInv => TypeOK
  BY DEF IInv
<1>. QED  BY <1>1, InitInv, NextInv, PTL DEF Spec

\* A task is waiting, with one worker, or on its way back, and in that place once.
THEOREM Holding == Spec => []OneHolder
<1>1. IInv => OneHolder
  BY DEF IInv
<1>. QED  BY <1>1, InitInv, NextInv, PTL DEF Spec

\* A worker that runs or hands on a task is busy, and a busy worker has a task.
THEOREM Ready == Spec => []WorkerReady
<1>1. IInv => WorkerReady
  BY DEF IInv
<1>. QED  BY <1>1, InitInv, NextInv, PTL DEF Spec
-----------------------------------------------------------------------------
(* The pool implements the board.                                          *)

\* While a worker is idle, fewer tasks run than there are workers.
LEMMA RoomForOne ==
    ASSUME NEW w \in Workers, w \notin Active
    PROVE  Cardinality(Held) < Cardinality(Workers)
<1>1. IsFiniteSet(Active) /\ Cardinality(Active) < Cardinality(Workers)
  <2>1. Active \in SUBSET Workers /\ Active # Workers
    BY DEF Active
  <2>2. /\ IsFiniteSet(Active)
        /\ Cardinality(Active) <= Cardinality(Workers)
        /\ Cardinality(Workers) = Cardinality(Active) => Workers = Active
    BY <2>1, WorkersAssumption, FS_Subset
  <2>3. Cardinality(Workers) \in Nat /\ Cardinality(Active) \in Nat
    BY <2>2, WorkersAssumption, FS_CardinalityType
  <2>. QED  BY <2>1, <2>2, <2>3
<1>2. IsFiniteSet(Held) /\ Cardinality(Held) <= Cardinality(Active)
  <2>. DEFINE f == [v \in Active |-> tdata[v]]
  <2>1. f \in Surjection(Active, Held)
    BY DEF Surjection, Held
  <2>. HIDE DEF f
  <2>. QED  BY <1>1, <2>1, FS_Surjection
<1>3. /\ Cardinality(Held) \in Nat /\ Cardinality(Active) \in Nat
      /\ Cardinality(Workers) \in Nat
  BY <1>1, <1>2, WorkersAssumption, FS_CardinalityType
<1>. QED  BY <1>1, <1>2, <1>3

\* Every step of a thread is a step of the board or none.
LEMMA StepOfBoard == IInv /\ [Next]_pool => [Board!Next]_(Board!board)
<1>. SUFFICES ASSUME IInv, [Next]_pool
              PROVE  Board!Next \/ UNCHANGED <<waitTasks, Held, mainTasks>>
  BY DEF Board!board
<1>1. ASSUME NEW c \in Cells, Add(c)
      PROVE  Board!Next
  <2>1. Held' = Held
    BY <1>1, HeldUnchanged DEF Add
  <2>2. Board!Submit(c)
    BY <1>1, <2>1 DEF Board!Submit, Board!OnBoard, Add, Live, Elements
  <2>. QED  BY <2>2 DEF Board!Next
<1>2. ASSUME NEW w \in Workers, Assign(w)
      PROVE  Board!Next
  <2>1. Board!Cardinality(Held) = Cardinality(Held)
    BY DEF Cardinality, Board!Cardinality
  <2>2. Board!Start
    BY <1>2, <2>1, AssignHeld, RoomForOne DEF Board!Start, Assign
  <2>. QED  BY <2>2 DEF Board!Next
<1>3. ASSUME Report
      PROVE  Board!Next
  <2>1. Board!Tell
    BY <1>3, HeldUnchanged DEF Board!Tell, Report
  <2>. QED  BY <2>1 DEF Board!Next
<1>4. ASSUME NEW w \in Workers, Push(w)
      PROVE  Board!Next
  <2>1. tdata[w] \in Held
    BY <1>4, PushHeld DEF Held
  <2>2. Board!Finish(tdata[w])
    BY <1>4, <2>1, PushHeld DEF Board!Finish, Push
  <2>. QED  BY <1>4, <2>2, PushHeld DEF Board!Next
<1>5. ASSUME HandleEvents \/ StartReport \/ EndReport
      PROVE  UNCHANGED <<waitTasks, Held, mainTasks>>
  BY <1>5, HeldUnchanged DEF HandleEvents, StartReport, EndReport
<1>6. ASSUME NEW w \in Workers, StartThread(w) \/ RunDone(w) \/ BecomeIdle(w) \/ LogId(w)
      PROVE  UNCHANGED <<waitTasks, Held, mainTasks>>
  BY <1>6, WorkerInv DEF StartThread, RunDone, BecomeIdle, LogId
<1>7. ASSUME UNCHANGED pool
      PROVE  UNCHANGED <<waitTasks, Held, mainTasks>>
  BY <1>7, HeldUnchanged DEF pool
<1>. QED  BY <1>1, <1>2, <1>3, <1>4, <1>5, <1>6, <1>7 DEF Next, Main, Worker

\* Tasks are started in the order in which they were added, each by one worker, and
\* each is told once, in the order in which they ended.
THEOREM Implements == Spec => KeepsBoard
<1>1. Init => Board!Init
  BY DEF Init, Board!Init, Active, Held
<1>. QED  BY <1>1, InitInv, NextInv, StepOfBoard, PTL DEF Spec, KeepsBoard, Board!Spec
-----------------------------------------------------------------------------
(* The check of the network.                                               *)

\* OneCheck without counting: the check under way, if there is one.
CheckIs ==
    /\ mNetChecking => \E c \in Cells : checks = {c}
    /\ ~mNetChecking => checks = {}
    /\ checks \subseteq Live

NetInv == IInv /\ NetTypeOK /\ CheckIs

\* A step of the program is a step of the pool or leaves it alone.
LEMMA NetStep == [NetNext]_vars => [Next]_pool
<1>. SUFFICES ASSUME [NetNext]_vars PROVE [Next]_pool
  OBVIOUS
<1>1. ASSUME Tick \/ AddOther
      PROVE  Next
  BY <1>1 DEF Tick, AddOther, Next
<1>2. ASSUME Handle
      PROVE  Next
  BY <1>2 DEF Handle, CheckDone, ReportOther, Next, Main
<1>3. ASSUME NEW w \in Workers, OnThread(w) \/ Done(w) \/ HandOn(w)
      PROVE  Next
  BY <1>3 DEF OnThread, Done, HandOn, CheckNet, RunOther, Next, Worker
<1>4. ASSUME Disconnect \/ LinkChanges \/ UNCHANGED vars
      PROVE  UNCHANGED pool
  BY <1>4 DEF Disconnect, LinkChanges, vars
<1>. QED  BY <1>1, <1>2, <1>3, <1>4 DEF NetNext

LEMMA NetInitPool == NetInit => Init
BY DEF NetInit

\* All that holds of the pool holds of the program that uses it.
THEOREM UsesPool == NetSpec => Spec
BY NetInitPool, NetStep, PTL DEF NetSpec, Spec
-----------------------------------------------------------------------------
(* Which cells are allocated.                                              *)

\* The steps that only move a task keep it allocated.
LEMMA LiveKept ==
    ASSUME IInv, NEW w \in Workers,
           \/ HandleEvents \/ StartReport \/ EndReport
           \/ Assign(w) \/ StartThread(w) \/ RunDone(w) \/ Push(w) \/ BecomeIdle(w)
           \/ LogId(w)
    PROVE  Live' = Live
<1>1. CASE HandleEvents \/ StartReport \/ EndReport
  BY <1>1, HeldUnchanged DEF Live, HandleEvents, StartReport, EndReport
<1>2. CASE Assign(w)
  <2>1. Elements(waitTasks) = {Head(waitTasks)} \cup Elements(waitTasks)'
    BY <1>2, TailElements DEF Assign, IInv, TypeOK
  <2>. QED  BY <1>2, <2>1, AssignHeld DEF Live, Assign
<1>3. CASE StartThread(w) \/ RunDone(w) \/ BecomeIdle(w) \/ LogId(w)
  BY <1>3, WorkerInv DEF Live, StartThread, RunDone, BecomeIdle, LogId
<1>4. CASE Push(w)
  <2>1. tdata[w] \in Held /\ tdata[w] \in Cells /\ Held' = Held \ {tdata[w]}
    BY <1>4, PushHeld DEF Held
  <2>2. Elements(mainTasks)' = Elements(mainTasks) \cup {tdata[w]}
    BY <1>4, <2>1, AppendElements DEF Push, IInv, TypeOK
  <2>. QED  BY <1>4, <2>1, <2>2 DEF Live, Push
<1>. QED  BY <1>1, <1>2, <1>3, <1>4

LEMMA LiveAdded ==
    ASSUME IInv, NEW c \in Cells, Add(c)
    PROVE  Live' = Live \cup {c}
<1>1. Held' = Held
  BY HeldUnchanged DEF Add
<1>2. Elements(waitTasks)' = Elements(waitTasks) \cup {c}
  BY AppendElements DEF Add, IInv, TypeOK
<1>. QED  BY <1>1, <1>2 DEF Live, Add

LEMMA LiveReported ==
    ASSUME IInv, Report
    PROVE  Live \ {Head(mainTasks)} \subseteq Live'
<1>1. Held' = Held
  BY HeldUnchanged DEF Report
<1>2. Elements(mainTasks) = {Head(mainTasks)} \cup Elements(mainTasks)'
  BY TailElements DEF Report, IInv, TypeOK
<1>. QED  BY <1>1, <1>2 DEF Live, Report
-----------------------------------------------------------------------------
LEMMA NetInitInv == NetInit => NetInv
<1>. SUFFICES ASSUME NetInit PROVE NetInv
  OBVIOUS
<1>1. IInv
  BY InitInv, NetInitPool
<1>2. NetTypeOK
  <2>1. mPingFailCount \in 0..MaxFails
    BY MaxFailsAssumption DEF NetInit
  <2>2. mNetChecking \in BOOLEAN /\ netOk \in BOOLEAN /\ link \in BOOLEAN /\ checks \subseteq Cells
    BY Zenon DEF NetInit
  <2>. QED  BY <1>1, <2>1, <2>2 DEF NetTypeOK, IInv
<1>3. CheckIs
  BY DEF CheckIs, NetInit
<1>. QED  BY <1>1, <1>2, <1>3 DEF NetInv

\* A tick adds a check only when the one before has come back.
LEMMA TickInv ==
    ASSUME NetInv, Tick
    PROVE  CheckIs'
<1>1. PICK c \in Cells : Add(c) /\ checks' = checks \cup {c}
  BY DEF Tick
<1>2. checks' = {c}
  BY <1>1 DEF NetInv, CheckIs, Tick
<1>3. Live' = Live \cup {c}
  BY <1>1, LiveAdded DEF NetInv
<1>. QED  BY <1>2, <1>3 DEF CheckIs, Tick

\* The result that comes back ends the check it belongs to.
LEMMA ReportedInv ==
    ASSUME NetInv, CheckDone \/ ReportOther
    PROVE  CheckIs'
<1>1. Live \ {Head(mainTasks)} \subseteq Live'
  BY LiveReported DEF NetInv, CheckDone, ReportOther
<1>2. CASE CheckDone
  <2>1. checks' = {} /\ mNetChecking' = FALSE
    BY <1>2 DEF NetInv, CheckIs, NetTypeOK, CheckDone
  <2>. QED  BY <2>1 DEF CheckIs
<1>3. CASE ReportOther
  <2>1. UNCHANGED client /\ Head(mainTasks) \notin checks
    BY <1>3 DEF ReportOther
  <2>. QED  BY <1>1, <2>1 DEF CheckIs, NetInv, client
<1>. QED  BY <1>2, <1>3

LEMMA NetTypeInv == NetInv /\ [NetNext]_vars => NetTypeOK'
<1>. SUFFICES ASSUME NetInv, [NetNext]_vars PROVE NetTypeOK'
  OBVIOUS
<1>1. TypeOK'
  BY NetStep, NextInv DEF NetInv, IInv
<1>2. UNCHANGED client => NetTypeOK'
  BY <1>1 DEF NetInv, NetTypeOK, client
<1>3. CASE Tick
  BY <1>1, <1>3 DEF NetInv, NetTypeOK, Tick
<1>4. CASE Disconnect \/ LinkChanges
  BY <1>1, <1>4 DEF NetInv, NetTypeOK, Disconnect, LinkChanges
<1>5. CASE CheckDone
  BY <1>1, <1>5 DEF NetInv, NetTypeOK, CheckDone
<1>6. ASSUME NEW w \in Workers, CheckNet(w)
      PROVE  NetTypeOK'
  <2>1. mPingFailCount' \in 0..MaxFails
    BY <1>6, MaxFailsAssumption DEF NetInv, NetTypeOK, CheckNet
  <2>. QED  BY <1>1, <1>6, <2>1 DEF NetInv, NetTypeOK, CheckNet
<1>. QED  BY <1>2, <1>3, <1>4, <1>5, <1>6
          DEF NetNext, AddOther, Handle, ReportOther, OnThread, Done, RunOther, HandOn, vars

LEMMA CheckInv == NetInv /\ [NetNext]_vars => CheckIs'
<1>. SUFFICES ASSUME NetInv, [NetNext]_vars PROVE CheckIs'
  OBVIOUS
<1>1. ASSUME Live \subseteq Live', checks' = checks, mNetChecking' = mNetChecking
      PROVE  CheckIs'
  BY <1>1 DEF NetInv, CheckIs
<1>2. CASE AddOther
  BY <1>1, <1>2, LiveAdded DEF AddOther, NetInv, client
<1>3. CASE Handle
  <2>1. CASE \E w \in Workers : Assign(w) /\ UNCHANGED client
    BY <1>1, <2>1, LiveKept DEF NetInv, client
  <2>2. CASE (HandleEvents \/ StartReport \/ EndReport) /\ UNCHANGED client
    <3>1. Live' = Live
      BY <2>2, HeldUnchanged DEF Live, HandleEvents, StartReport, EndReport
    <3>. QED  BY <1>1, <2>2, <3>1 DEF client
  <2>. QED  BY <1>3, <2>1, <2>2, ReportedInv DEF Handle
<1>4. ASSUME NEW w \in Workers, OnThread(w) \/ Done(w) \/ HandOn(w)
      PROVE  CheckIs'
  BY <1>1, <1>4, LiveKept
     DEF OnThread, Done, HandOn, CheckNet, RunOther, NetInv, client
<1>5. CASE Disconnect \/ LinkChanges \/ UNCHANGED vars
  <2>1. UNCHANGED pool /\ checks' = checks /\ mNetChecking' = mNetChecking
    BY <1>5 DEF Disconnect, LinkChanges, vars, client
  <2>2. Live' = Live
    BY <2>1, HeldUnchanged DEF Live, pool
  <2>. QED  BY <1>1, <2>1, <2>2
<1>. QED  BY <1>2, <1>3, <1>4, <1>5, TickInv DEF NetNext

LEMMA NetNextInv == NetInv /\ [NetNext]_vars => NetInv'
BY NetStep, NextInv, NetTypeInv, CheckInv DEF NetInv

\* The counter of failures never leaves its range, whatever the workers report.
THEOREM NetTyping == NetSpec => []NetTypeOK
<1>1. NetInv => NetTypeOK
  BY DEF NetInv
<1>. QED  BY <1>1, NetInitInv, NetNextInv, PTL DEF NetSpec

\* One check of the network at a time, from the tick that adds it to its onMain.
THEOREM CheckingOnce == NetSpec => []OneCheck
<1>1. NetInv => OneCheck
  <2>. SUFFICES ASSUME NetInv PROVE OneCheck
    OBVIOUS
  <2>1. Cardinality({}) = 0 /\ \A c \in Cells : Cardinality({c}) = 1
    BY FS_EmptySet, FS_Singleton
  <2>. QED  BY <2>1 DEF NetInv, CheckIs, NetTypeOK, OneCheck
<1>. QED  BY <1>1, NetInitInv, NetNextInv, PTL DEF NetSpec
=============================================================================
