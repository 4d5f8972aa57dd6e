---------------------------- MODULE QueueObserver ----------------------------
(***************************************************************************)
(* full() of the ring, called by a third thread while both ends are at      *)
(* work: it loads the two indices one after the other.                      *)
(***************************************************************************)
EXTENDS SPSCQueue

VARIABLES observer,   \* where the third thread is in full()
          loaded,     \* the write index full() has loaded
          wasFull,    \* history: the queue was full at some time during full()
          answer      \* the last answer of full()

observerVars == <<observer, loaded, wasFull, answer>>
allVars == <<vars, observerVars>>

InitAll == /\ Init
           /\ observer = "idle" /\ loaded = 0 /\ wasFull = FALSE /\ answer = FALSE

FullLoadsWrite ==
    /\ observer = "idle"
    /\ observer' = "loaded"
    /\ loaded' = write_index
    /\ wasFull' = (Occupancy = Capacity)
    /\ UNCHANGED <<vars, answer>>

FullLoadsRead ==
    /\ observer = "loaded"
    /\ observer' = "idle"
    /\ answer' = (Ahead(loaded, read_index) >= Capacity)
    /\ UNCHANGED <<vars, loaded, wasFull>>

\* A step of an end of the queue.
QueueStep == /\ Next
             /\ wasFull' = (wasFull \/ (Occupancy = Capacity)')
             /\ UNCHANGED <<observer, loaded, answer>>

NextAll == QueueStep \/ FullLoadsWrite \/ FullLoadsRead

SpecAll == InitAll /\ [][NextAll]_allVars

------------------------------------------------------------------------------
\* Properties

\* "Check whether the queue is currently full": when full() has answered yes,
\* the queue was full at some time between its two loads.
FullMeansFull == observer = "idle" /\ answer => wasFull
==============================================================================
