--------------------------- MODULE CoverageStore ---------------------------
(***************************************************************************)
(* The coverage bookkeeping of debug/CoverageStore: for every GL entry     *)
(* point the level of testing it has reached, the first test that reached  *)
(* it and a note.  Every GL call marks its entry, so a mark that would     *)
(* change nothing must not take the mutex: it decides from two atomics     *)
(* that are published, one after the other, under the mutex.               *)
(*                                                                         *)
(* A thread's mark is taken apart at every atomic load and store; what is  *)
(* done to an entry under the mutex before publishing is one step, since   *)
(* only holders of the mutex read it.  The call counters, which are        *)
(* relaxed atomics on their own, and the reports are left out.             *)
(***************************************************************************)
EXTENDS Naturals

CONSTANTS
    Threads, NoThread,
    Functions,          \* FunctionId
    Notes, NoNote,      \* notes, and the empty string
    Tests, NoTest       \* test identifiers, and the empty string

\* CoverageState, as far as marks ask for it.
Stubbed == 1
Implemented == 2
SmokeTested == 3
ScenarioTested == 4

Levels == Stubbed .. ScenarioTested

ASSUME NoThreadAssumption == NoThread \notin Threads
ASSUME NoNoteAssumption == NoNote \notin Notes
ASSUME NoTestAssumption == NoTest \notin Tests

VARIABLES
    statuses,           \* state, firstPassingTestId and notes of an entry
    publishedState,
    notesPublished,
    statusMutex,        \* holder of statusMutex_
    at,                 \* where each thread is in its mark
    mark                \* the arguments of its mark

vars == <<statuses, publishedState, notesPublished, statusMutex, at, mark>>

\* markStubbed and markImplemented take no test, the others assert one.
Mark ==
    {m \in [fn : Functions, level : Levels, note : Notes \cup {NoNote},
            test : Tests \cup {NoTest}] :
        m.test = NoTest <=> m.level < SmokeTested}

Init ==
    /\ statuses = [f \in Functions |->
                      [state |-> 0, test |-> NoTest, note |-> NoNote]]
    /\ publishedState = [f \in Functions |-> 0]
    /\ notesPublished = [f \in Functions |-> FALSE]
    /\ statusMutex = NoThread
    /\ at = [t \in Threads |-> "idle"]
    /\ mark \in [Threads -> Mark]

Goto(t, place) == at' = [at EXCEPT ![t] = place]

-----------------------------------------------------------------------------
\* markStubbed, markImplemented, markSmokeTested or markScenarioTested.
Call(t) ==
    /\ at[t] = "idle"
    /\ \E m \in Mark : mark' = [mark EXCEPT ![t] = m]
    /\ Goto(t, "loadState")
    /\ UNCHANGED <<statuses, publishedState, notesPublished, statusMutex>>

\* fastPathSatisfied, first load: a mark below what is published, or without a
\* note at the same level, changes nothing.
LoadState_IgnoresNote(t) ==
    LET published == publishedState[mark[t].fn]
    IN  /\ at[t] = "loadState"
        /\ Goto(t, IF published < mark[t].level THEN "lock" ELSE "done")
        /\ UNCHANGED <<statuses, publishedState, notesPublished, statusMutex, mark>>

LoadState(t) ==
    LET published == publishedState[mark[t].fn]
    IN  /\ at[t] = "loadState"
        /\ Goto(t, IF published < mark[t].level THEN "lock"
                   ELSE IF mark[t].note # NoNote /\ published = mark[t].level
                        THEN "loadNotes" ELSE "done")
        /\ UNCHANGED <<statuses, publishedState, notesPublished, statusMutex, mark>>

\* fastPathSatisfied, second load: a note at the level published is not needed
\* if there is one.
LoadNotes(t) ==
    /\ at[t] = "loadNotes"
    /\ Goto(t, IF notesPublished[mark[t].fn] THEN "done" ELSE "lock")
    /\ UNCHANGED <<statuses, publishedState, notesPublished, statusMutex, mark>>

Lock_NoWait(t) ==
    /\ at[t] = "lock"
    /\ statusMutex' = t
    /\ Goto(t, "update")
    /\ UNCHANGED <<statuses, publishedState, notesPublished, mark>>

Lock(t) ==
    /\ at[t] = "lock"
    /\ statusMutex = NoThread
    /\ statusMutex' = t
    /\ Goto(t, "update")
    /\ UNCHANGED <<statuses, publishedState, notesPublished, mark>>

-----------------------------------------------------------------------------
(* Under the mutex.                                                        *)

MaxState(lhs, rhs) == IF lhs > rhs THEN lhs ELSE rhs

ShouldStoreNote(entry, m) ==
    /\ m.note # NoNote
    /\ \/ entry.state < m.level
       \/ entry.state = m.level /\ entry.note = NoNote

Update(t) ==
    LET m     == mark[t]
        entry == statuses[m.fn]
    IN  /\ at[t] = "update"
        /\ statuses' = [statuses EXCEPT ![m.fn] =
              [state |-> MaxState(entry.state, m.level),
               test  |-> IF m.level >= SmokeTested /\ entry.test = NoTest
                         THEN m.test ELSE entry.test,
               note  |-> IF ShouldStoreNote(entry, m) THEN m.note ELSE entry.note]]
        /\ Goto(t, "publishNotes")
        /\ UNCHANGED <<publishedState, notesPublished, statusMutex, mark>>

\* publishStateLocked: the notes first, then the state.
PublishNotes_Always(t) ==
    /\ at[t] = "publishNotes"
    /\ notesPublished' = [notesPublished EXCEPT ![mark[t].fn] = TRUE]
    /\ Goto(t, "publishState")
    /\ UNCHANGED <<statuses, publishedState, statusMutex, mark>>

PublishNotes(t) ==
    LET f == mark[t].fn
    IN  /\ at[t] = "publishNotes"
        /\ notesPublished' =
              [notesPublished EXCEPT ![f] = @ \/ statuses[f].note # NoNote]
        /\ Goto(t, "publishState")
        /\ UNCHANGED <<statuses, publishedState, statusMutex, mark>>

PublishState(t) ==
    LET f == mark[t].fn
    IN  /\ at[t] = "publishState"
        /\ publishedState' = [publishedState EXCEPT ![f] = statuses[f].state]
        /\ statusMutex' = NoThread
        /\ Goto(t, "done")
        /\ UNCHANGED <<statuses, notesPublished, mark>>

Return(t) ==
    /\ at[t] = "done"
    /\ Goto(t, "idle")
    /\ UNCHANGED <<statuses, publishedState, notesPublished, statusMutex, mark>>

Next ==
    \E t \in Threads :
        \/ Call(t)
        \/ LoadState(t)
        \/ LoadNotes(t)
        \/ Lock(t)
        \/ Update(t)
        \/ PublishNotes(t)
        \/ PublishState(t)
        \/ Return(t)

Spec == Init /\ [][Next]_vars

-----------------------------------------------------------------------------
(* Properties                                                              *)

Places == {"idle", "loadState", "loadNotes", "lock", "update", "publishNotes",
           "publishState", "done"}

Locked(t) == at[t] \in {"update", "publishNotes", "publishState"}

\* The types, and the discipline of the mutex: entries are written by its holder
\* alone.
TypeOK ==
    /\ statuses \in [Functions -> [state : Levels \cup {0},
                                   test  : Tests \cup {NoTest},
                                   note  : Notes \cup {NoNote}]]
    /\ publishedState \in [Functions -> Levels \cup {0}]
    /\ notesPublished \in [Functions -> BOOLEAN]
    /\ statusMutex \in Threads \cup {NoThread}
    /\ at \in [Threads -> Places]
    /\ mark \in [Threads -> Mark]
    /\ \A t \in Threads : Locked(t) <=> statusMutex = t

\* What the atomics announce is true of the entry, and a mark has been entered
\* when it returns, by whichever path: its level is reached, with a test if the
\* level needs one, and with a note if it gave one at the entry's level.
MarkEntered ==
    /\ \A f \in Functions :
          /\ publishedState[f] <= statuses[f].state
          /\ notesPublished[f] => statuses[f].note # NoNote
    /\ \A t \in Threads : at[t] = "done" =>
          LET entry == statuses[mark[t].fn]
          IN  /\ entry.state >= mark[t].level
              /\ mark[t].level >= SmokeTested => entry.test # NoTest
              /\ mark[t].note # NoNote /\ entry.state = mark[t].level
                    => entry.note # NoNote

\* No step lowers an entry's level or replaces the first test that reached it.
NeverDowngraded ==
    [][\A f \in Functions :
          /\ statuses'[f].state >= statuses[f].state
          /\ statuses[f].test # NoTest => statuses'[f].test = statuses[f].test]_vars

\* A mark takes effect at one instant between its call and its return, although
\* the fast path reads two atomics that others write meanwhile.
Phase == [t \in Threads |->
             IF at[t] = "idle" THEN "idle"
             ELSE IF at[t] \in {"publishNotes", "publishState", "done"}
                  THEN "applied" ELSE "called"]

Table == INSTANCE CoverageTable WITH
    table <- statuses, phase <- Phase, request <- mark

TableSpec == Table!Spec

=============================================================================
