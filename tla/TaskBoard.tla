----------------------------- MODULE TaskBoard -----------------------------
(***************************************************************************)
(* What the thread pool promises to those who hand it tasks: a task is run *)
(* by one worker, tasks are started in the order in which they were added, *)
(* and each is told to the main thread once, in the order in which they    *)
(* ended.                                                                  *)
(***************************************************************************)
EXTENDS Naturals, Sequences, FiniteSets

CONSTANTS
    Tasks,      \* tasks that may be on the board at once
    Size        \* how many run at once at most

VARIABLES waiting, running, finished

board == <<waiting, running, finished>>

OnBoard == {waiting[i] : i \in DOMAIN waiting} \cup running
              \cup {finished[i] : i \in DOMAIN finished}

Init == waiting = << >> /\ running = {} /\ finished = << >>

Submit(t) ==
    /\ t \notin OnBoard
    /\ waiting' = Append(waiting, t)
    /\ UNCHANGED <<running, finished>>

Start ==
    /\ waiting # << >>
    /\ Cardinality(running) < Size
    /\ waiting' = Tail(waiting)
    /\ running' = running \cup {Head(waiting)}
    /\ UNCHANGED finished

Finish(t) ==
    /\ t \in running
    /\ running' = running \ {t}
    /\ finished' = Append(finished, t)
    /\ UNCHANGED waiting

Tell ==
    /\ finished # << >>
    /\ finished' = Tail(finished)
    /\ UNCHANGED <<waiting, running>>

Next == (\E t \in Tasks : Submit(t) \/ Finish(t)) \/ Start \/ Tell

Spec == Init /\ [][Next]_board
=============================================================================
