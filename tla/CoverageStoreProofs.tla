------------------------ MODULE CoverageStoreProofs ------------------------
(***************************************************************************)
(* Proofs about CoverageStore, for any numbers of threads, functions,      *)
(* notes and tests: its invariants, that an entry is never downgraded, and *)
(* that it implements CoverageTable.                                       *)
(***************************************************************************)
EXTENDS CoverageStore, TLAPS

\* What a mark that is entered owes its caller.
Entered(t) ==
    /\ statuses[mark[t].fn].state >= mark[t].level
    /\ mark[t].level >= SmokeTested => statuses[mark[t].fn].test # NoTest
    /\ mark[t].note # NoNote /\ statuses[mark[t].fn].state = mark[t].level
          => statuses[mark[t].fn].note # NoNote

\* The parts that MarkEntered leaves out: an entry at a tested level has a test,
\* a thread that goes on to look for notes has seen its level reached, and a
\* mark is entered before it is published.
PathsSound ==
    /\ \A f \in Functions :
          statuses[f].state >= SmokeTested => statuses[f].test # NoTest
    /\ \A t \in Threads :
          /\ at[t] = "loadNotes" => statuses[mark[t].fn].state >= mark[t].level
          /\ at[t] \in {"publishNotes", "publishState", "done"} => Entered(t)

IInv == TypeOK /\ MarkEntered /\ PathsSound

\* The fields of a mark.
LEMMA MarkFields ==
    ASSUME NEW m \in Mark
    PROVE  /\ m.fn \in Functions
           /\ m.level \in 1 .. 4
           /\ m.note \in Notes \cup {NoNote}
           /\ m.test \in Tests \cup {NoTest}
           /\ m.test = NoTest <=> m.level < 3
  BY DEF Mark, Levels, Stubbed, ScenarioTested, SmokeTested

\* The entry a mark leaves, as Update computes it.
NewEntry(entry, m) ==
    [state |-> MaxState(entry.state, m.level),
     test  |-> IF m.level >= SmokeTested /\ entry.test = NoTest
               THEN m.test ELSE entry.test,
     note  |-> IF ShouldStoreNote(entry, m) THEN m.note ELSE entry.note]

Entry == [state : Levels \cup {0}, test : Tests \cup {NoTest},
          note : Notes \cup {NoNote}]

\* Entering a mark raises the entry to its level, keeps a first test, gives a
\* tested level a test, and leaves no entry without a note at the mark's level
\* if the mark has one (markImplemented and its siblings).
LEMMA NewEntryFacts ==
    ASSUME NEW e \in Entry, NEW m \in Mark
    PROVE  /\ NewEntry(e, m) \in Entry
           /\ NewEntry(e, m).state >= e.state
           /\ NewEntry(e, m).state >= m.level
           /\ e.test # NoTest => NewEntry(e, m).test = e.test
           /\ m.level >= SmokeTested => NewEntry(e, m).test # NoTest
           /\ e.note # NoNote => NewEntry(e, m).note # NoNote
           /\ m.note # NoNote /\ NewEntry(e, m).state = m.level
                 => NewEntry(e, m).note # NoNote
           /\ \/ NewEntry(e, m).state = e.state
              \/ NewEntry(e, m).state = m.level
  BY MarkFields
  DEF NewEntry, Entry, MaxState, ShouldStoreNote, Levels, Stubbed,
      ScenarioTested, SmokeTested

\* The initial state.
LEMMA InitIInv == Init => IInv
<1> SUFFICES ASSUME Init PROVE IInv
  OBVIOUS
<1>1. TypeOK
  BY NoThreadAssumption DEF Init, TypeOK, Levels, Places, Locked
<1>2. MarkEntered
  BY DEF Init, MarkEntered
<1>3. PathsSound
  BY DEF Init, PathsSound, SmokeTested
<1> QED
  BY <1>1, <1>2, <1>3 DEF IInv

-----------------------------------------------------------------------------
(* One lemma for each kind of step.                                        *)

\* A step that leaves the entries and the atomics alone and takes one thread to
\* a place outside the mutex, where what is owed there holds.
LEMMA ReaderStep ==
    ASSUME IInv, NEW t \in Threads, NEW place \in Places,
           ~Locked(t), place \notin {"update", "publishNotes", "publishState"},
           Goto(t, place),
           UNCHANGED <<statuses, publishedState, notesPublished, statusMutex, mark>>,
           place = "loadNotes" => statuses[mark[t].fn].state >= mark[t].level,
           place = "done" => Entered(t)
    PROVE  IInv'
<1>1. TypeOK'
  BY DEF IInv, TypeOK, Goto, Locked, Places
<1>2. MarkEntered'
  BY DEF IInv, TypeOK, MarkEntered, Entered, Goto
<1>3. PathsSound'
  BY DEF IInv, TypeOK, PathsSound, Entered, Goto
<1> QED
  BY <1>1, <1>2, <1>3 DEF IInv

\* A thread in need of the fast path's answer finds its mark entered whenever
\* the fast path is satisfied.
LEMMA FastPathEntered ==
    ASSUME IInv, NEW t \in Threads,
           \/ /\ publishedState[mark[t].fn] >= mark[t].level
              /\ \/ mark[t].note = NoNote
                 \/ publishedState[mark[t].fn] # mark[t].level
           \/ /\ statuses[mark[t].fn].state >= mark[t].level
              /\ notesPublished[mark[t].fn]
    PROVE  Entered(t)
<1>1. mark[t] \in Mark /\ mark[t].fn \in Functions /\ mark[t].level \in 1 .. 4
  BY MarkFields DEF IInv, TypeOK
<1>2. /\ statuses[mark[t].fn].state \in 0 .. 4
      /\ publishedState[mark[t].fn] \in 0 .. 4
  BY <1>1 DEF IInv, TypeOK, Levels, Stubbed, ScenarioTested
<1> QED
  BY <1>1, <1>2 DEF IInv, MarkEntered, PathsSound, Entered, SmokeTested

\* The invariant is inductive.
LEMMA NextIInv == IInv /\ [Next]_vars => IInv'
<1> SUFFICES ASSUME IInv, [Next]_vars PROVE IInv'
  OBVIOUS
<1>0. \A t \in Threads : mark[t] \in Mark /\ mark[t].fn \in Functions
                         /\ mark[t].level \in 1 .. 4
  BY MarkFields DEF IInv, TypeOK
<1>1. ASSUME NEW t \in Threads, Call(t) PROVE IInv'
  <2>1. PICK m \in Mark : mark' = [mark EXCEPT ![t] = m]
    BY <1>1 DEF Call
  <2>2. TypeOK'
    BY <1>1, <2>1 DEF IInv, TypeOK, Call, Goto, Locked, Places
  <2>3. MarkEntered'
    BY <1>1, <2>1 DEF IInv, TypeOK, MarkEntered, Call, Goto
  <2>4. PathsSound'
    BY <1>1, <2>1 DEF IInv, TypeOK, PathsSound, Entered, Call, Goto
  <2> QED
    BY <2>2, <2>3, <2>4 DEF IInv
<1>2. ASSUME NEW t \in Threads, LoadState(t) PROVE IInv'
  <2> DEFINE published == publishedState[mark[t].fn]
             place == IF published < mark[t].level THEN "lock"
                      ELSE IF mark[t].note # NoNote /\ published = mark[t].level
                           THEN "loadNotes" ELSE "done"
  <2>1. published \in 0 .. 4 /\ statuses[mark[t].fn].state \in 0 .. 4
        /\ published <= statuses[mark[t].fn].state
    BY <1>0 DEF IInv, TypeOK, MarkEntered, Levels, Stubbed, ScenarioTested
  <2>2. place \in Places \ {"update", "publishNotes", "publishState"}
    BY DEF Places
  <2>3. place = "loadNotes" => statuses[mark[t].fn].state >= mark[t].level
    BY <1>0, <2>1
  <2>4. place = "done" => Entered(t)
    BY <1>0, <2>1, FastPathEntered
  <2>5. ~Locked(t) /\ Goto(t, place)
        /\ UNCHANGED <<statuses, publishedState, notesPublished, statusMutex, mark>>
    BY <1>2 DEF LoadState, Locked
  <2> QED
    BY <2>2, <2>3, <2>4, <2>5, ReaderStep
<1>3. ASSUME NEW t \in Threads, LoadNotes(t) PROVE IInv'
  <2> DEFINE place == IF notesPublished[mark[t].fn] THEN "done" ELSE "lock"
  <2>1. place \in Places \ {"update", "publishNotes", "publishState", "loadNotes"}
    BY DEF Places
  <2>2. place = "done" => Entered(t)
    BY <1>3, FastPathEntered DEF LoadNotes, IInv, PathsSound
  <2>3. ~Locked(t) /\ Goto(t, place)
        /\ UNCHANGED <<statuses, publishedState, notesPublished, statusMutex, mark>>
    BY <1>3 DEF LoadNotes, Locked
  <2> QED
    BY <2>1, <2>2, <2>3, ReaderStep
<1>4. ASSUME NEW t \in Threads, Lock(t) PROVE IInv'
  <2>1. TypeOK'
    BY <1>4, NoThreadAssumption DEF IInv, TypeOK, Lock, Goto, Locked, Places
  <2>2. MarkEntered'
    BY <1>4 DEF IInv, TypeOK, MarkEntered, Lock, Goto
  <2>3. PathsSound'
    BY <1>4 DEF IInv, TypeOK, PathsSound, Entered, Lock, Goto
  <2> QED
    BY <2>1, <2>2, <2>3 DEF IInv
<1>5. ASSUME NEW t \in Threads, Update(t) PROVE IInv'
  <2> DEFINE f == mark[t].fn
             new == NewEntry(statuses[f], mark[t])
  <2>1. f \in Functions /\ mark[t] \in Mark /\ statuses[f] \in Entry
    BY <1>0 DEF IInv, TypeOK, Entry
  <2>2. statuses' = [statuses EXCEPT ![f] = new]
    BY <1>5 DEF Update, NewEntry
  <2>3. UNCHANGED <<publishedState, notesPublished, statusMutex, mark>>
        /\ Goto(t, "publishNotes") /\ at[t] = "update"
    BY <1>5 DEF Update
  <2>4. TypeOK'
    BY <2>1, <2>2, <2>3, NewEntryFacts
    DEF IInv, TypeOK, Entry, Goto, Locked, Places
  <2>5. \A g \in Functions :
           /\ statuses'[g].state >= statuses[g].state
           /\ statuses[g].test # NoTest => statuses'[g].test # NoTest
           /\ statuses[g].note # NoNote => statuses'[g].note # NoNote
           /\ statuses[g].state \in 0 .. 4 /\ statuses'[g].state \in 0 .. 4
           /\ publishedState[g] \in 0 .. 4
    <3> SUFFICES ASSUME NEW g \in Functions
                 PROVE  /\ statuses'[g].state >= statuses[g].state
                        /\ statuses[g].test # NoTest => statuses'[g].test # NoTest
                        /\ statuses[g].note # NoNote => statuses'[g].note # NoNote
                        /\ statuses[g].state \in 0 .. 4 /\ statuses'[g].state \in 0 .. 4
                        /\ publishedState[g] \in 0 .. 4
      OBVIOUS
    <3>1. /\ statuses[g].state \in 0 .. 4 /\ statuses'[g].state \in 0 .. 4
          /\ publishedState[g] \in 0 .. 4
      BY <2>4 DEF IInv, TypeOK, Levels, Stubbed, ScenarioTested
    <3>2. statuses'[g] = IF g = f THEN new ELSE statuses[g]
      BY <2>1, <2>2 DEF IInv, TypeOK
    <3>3. /\ new.state >= statuses[f].state
          /\ statuses[f].test # NoTest => new.test = statuses[f].test
          /\ statuses[f].note # NoNote => new.note # NoNote
      BY <2>1, NewEntryFacts
    <3> QED
      BY <3>1, <3>2, <3>3
  <2>6. Entered(t)'
    BY <2>1, <2>2, <2>3, NewEntryFacts DEF Entered, IInv, TypeOK
  <2>7. \A u \in Threads : Entered(u) => Entered(u)'
    <3> SUFFICES ASSUME NEW u \in Threads, Entered(u) PROVE Entered(u)'
      OBVIOUS
    <3>1. mark'[u] = mark[u] /\ mark[u].fn \in Functions /\ mark[u].level \in 1 .. 4
      BY <1>0, <2>3
    <3> QED
      BY <2>5, <3>1 DEF Entered
  <2>8. \A u \in Threads : u # t => at'[u] = at[u]
    BY <2>3 DEF IInv, TypeOK, Goto
  <2>9. at'[t] = "publishNotes"
    BY <2>3 DEF IInv, TypeOK, Goto
  <2>10. PathsSound'
    <3>1. \A g \in Functions :
             statuses'[g].state >= SmokeTested => statuses'[g].test # NoTest
      BY <2>1, <2>2, NewEntryFacts DEF IInv, TypeOK, PathsSound, SmokeTested, Entry,
         Levels, Stubbed, ScenarioTested
    <3>2. \A u \in Threads : at'[u] = "loadNotes"
             => statuses'[mark'[u].fn].state >= mark'[u].level
      BY <1>0, <2>3, <2>5, <2>8, <2>9 DEF IInv, PathsSound
    <3>3. \A u \in Threads : at'[u] \in {"publishNotes", "publishState", "done"}
             => Entered(u)'
      BY <2>6, <2>7, <2>8 DEF IInv, PathsSound
    <3> QED
      BY <3>1, <3>2, <3>3 DEF PathsSound
  <2>11. MarkEntered'
    <3>1. \A g \in Functions : /\ publishedState'[g] <= statuses'[g].state
                               /\ notesPublished'[g] => statuses'[g].note # NoNote
      BY <2>3, <2>5 DEF IInv, MarkEntered
    <3> QED
      BY <3>1, <2>10 DEF MarkEntered, PathsSound, Entered
  <2> QED
    BY <2>4, <2>10, <2>11 DEF IInv
<1>6. ASSUME NEW t \in Threads, PublishNotes(t) PROVE IInv'
  <2>1. TypeOK'
    BY <1>0, <1>6 DEF IInv, TypeOK, PublishNotes, Goto, Locked, Places
  <2>2. PathsSound'
    BY <1>6 DEF IInv, TypeOK, PathsSound, Entered, PublishNotes, Goto
  <2>3. MarkEntered'
    <3>1. \A g \in Functions : notesPublished'[g] => statuses'[g].note # NoNote
      BY <1>0, <1>6 DEF IInv, TypeOK, MarkEntered, PublishNotes
    <3> QED
      BY <1>6, <2>2, <3>1
      DEF IInv, TypeOK, MarkEntered, PathsSound, Entered, PublishNotes
  <2> QED
    BY <2>1, <2>2, <2>3 DEF IInv
<1>7. ASSUME NEW t \in Threads, PublishState(t) PROVE IInv'
  <2>1. TypeOK'
    BY <1>0, <1>7, NoThreadAssumption
    DEF IInv, TypeOK, PublishState, Goto, Locked, Places
  <2>2. PathsSound'
    BY <1>7 DEF IInv, TypeOK, PathsSound, Entered, PublishState, Goto
  <2>3. MarkEntered'
    <3>1. \A g \in Functions : publishedState'[g] <= statuses'[g].state
      <4> SUFFICES ASSUME NEW g \in Functions
                   PROVE publishedState'[g] <= statuses'[g].state
        OBVIOUS
      <4>1. statuses[g].state \in 0 .. 4
        BY DEF IInv, TypeOK, Levels, Stubbed, ScenarioTested
      <4> QED
        BY <1>0, <1>7, <4>1 DEF IInv, TypeOK, MarkEntered, PublishState
    <3> QED
      BY <1>7, <2>2, <3>1
      DEF IInv, TypeOK, MarkEntered, PathsSound, Entered, PublishState
  <2> QED
    BY <2>1, <2>2, <2>3 DEF IInv
<1>8. ASSUME NEW t \in Threads, Return(t) PROVE IInv'
  BY <1>8, ReaderStep DEF Return, Locked, Places
<1>9. CASE UNCHANGED vars
  BY <1>9 DEF IInv, TypeOK, MarkEntered, PathsSound, Entered, Locked, vars
<1> QED
  BY <1>1, <1>2, <1>3, <1>4, <1>5, <1>6, <1>7, <1>8, <1>9 DEF Next

\* The inductive invariant holds throughout.
THEOREM SpecIInv == Spec => []IInv
  BY InitIInv, NextIInv, PTL DEF Spec

\* The types and the discipline of statusMutex_.
THEOREM SpecTypeOK == Spec => []TypeOK
  BY SpecIInv, PTL DEF IInv

\* The atomics announce nothing that is not true, and every mark is entered when
\* it returns (fastPathSatisfied).
THEOREM SpecMarkEntered == Spec => []MarkEntered
  BY SpecIInv, PTL DEF IInv

-----------------------------------------------------------------------------
\* A step that changes entries enters one mark.
LEMMA EntriesChange ==
    ASSUME IInv, [Next]_vars
    PROVE  \/ statuses' = statuses
           \/ \E t \in Threads :
                 /\ mark[t] \in Mark
                 /\ mark[t].fn \in Functions
                 /\ statuses[mark[t].fn] \in Entry
                 /\ statuses' = [statuses EXCEPT ![mark[t].fn] =
                                     NewEntry(statuses[mark[t].fn], mark[t])]
<1>1. \A t \in Threads : /\ mark[t] \in Mark /\ mark[t].fn \in Functions
                         /\ statuses[mark[t].fn] \in Entry
  BY MarkFields DEF IInv, TypeOK, Entry
<1>2. ASSUME NEW t \in Threads, Update(t)
      PROVE statuses' = [statuses EXCEPT ![mark[t].fn] =
                             NewEntry(statuses[mark[t].fn], mark[t])]
  BY <1>2 DEF Update, NewEntry
<1> QED
  BY <1>1, <1>2 DEF Next, Call, LoadState, LoadNotes, Lock, PublishNotes,
     PublishState, Return, vars

\* An entry's level never falls and its first test stays.
THEOREM SpecNeverDowngraded == Spec => NeverDowngraded
<1> DEFINE Kept == \A f \in Functions :
              /\ statuses'[f].state >= statuses[f].state
              /\ statuses[f].test # NoTest => statuses'[f].test = statuses[f].test
<1>1. IInv /\ [Next]_vars => [Kept]_vars
  <2> SUFFICES ASSUME IInv, [Next]_vars PROVE Kept
    OBVIOUS
  <2>1. \A f \in Functions : statuses[f].state \in 0 .. 4
    BY DEF IInv, TypeOK, Levels, Stubbed, ScenarioTested
  <2>2. CASE statuses' = statuses
    BY <2>1, <2>2
  <2>3. ASSUME NEW t \in Threads, mark[t] \in Mark, mark[t].fn \in Functions,
               statuses[mark[t].fn] \in Entry,
               statuses' = [statuses EXCEPT ![mark[t].fn] =
                                NewEntry(statuses[mark[t].fn], mark[t])]
        PROVE Kept
    <3> DEFINE new == NewEntry(statuses[mark[t].fn], mark[t])
    <3>1. \A f \in Functions : statuses'[f] = IF f = mark[t].fn THEN new
                                              ELSE statuses[f]
      BY <2>3 DEF IInv, TypeOK
    <3>2. /\ new.state >= statuses[mark[t].fn].state
          /\ statuses[mark[t].fn].test # NoTest
                => new.test = statuses[mark[t].fn].test
      BY <2>3, NewEntryFacts
    <3> HIDE DEF new
    <3> QED
      BY <2>1, <3>1, <3>2
  <2> QED
    BY <2>2, <2>3, EntriesChange
<1> QED
  BY <1>1, SpecIInv, PTL DEF Spec, NeverDowngraded

-----------------------------------------------------------------------------
(* CoverageStore implements CoverageTable.                                 *)

\* The two descriptions of what a mark does to an entry agree.
LEMMA NewEntryIsMarked ==
    ASSUME NEW e \in Entry, NEW m \in Mark
    PROVE  NewEntry(e, m) = Table!Marked(e, m)
  BY MarkFields
  DEF NewEntry, Table!Marked, Entry, MaxState, ShouldStoreNote, Levels, Stubbed,
      ScenarioTested, SmokeTested

\* A mark that is entered already changes nothing.
LEMMA EnteredIsMarked ==
    ASSUME IInv, NEW t \in Threads, Entered(t),
           \/ mark[t].note = NoNote
           \/ statuses[mark[t].fn].note # NoNote
           \/ statuses[mark[t].fn].state > mark[t].level
    PROVE  Table!Marked(statuses[mark[t].fn], mark[t]) = statuses[mark[t].fn]
<1>1. mark[t] \in Mark /\ statuses[mark[t].fn] \in Entry
  BY MarkFields DEF IInv, TypeOK, Entry
<1> QED
  BY <1>1, MarkFields
  DEF Table!Marked, Entered, Entry, Levels, Stubbed, ScenarioTested, SmokeTested

\* The initial states correspond.
LEMMA InitTable == Init => Table!Init
  BY DEF Init, Table!Init, Phase, Mark, Table!Request

\* A thread goes from one abstract phase to another and the others stay.
LEMMA PhaseStep ==
    ASSUME TypeOK, NEW t \in Threads, NEW place, Goto(t, place)
    PROVE  Phase' = [Phase EXCEPT ![t] =
                        IF place = "idle" THEN "idle"
                        ELSE IF place \in {"publishNotes", "publishState", "done"}
                             THEN "applied" ELSE "called"]
  BY DEF TypeOK, Goto, Phase

\* A satisfied fast path is an application that changes nothing.
LEMMA FastPathApplies ==
    ASSUME IInv, NEW t \in Threads, Goto(t, "done"),
           at[t] \in {"loadState", "loadNotes"},
           Entered(t),
           \/ mark[t].note = NoNote
           \/ statuses[mark[t].fn].note # NoNote
           \/ statuses[mark[t].fn].state > mark[t].level,
           UNCHANGED <<statuses, mark>>
    PROVE  Table!Apply(t)
<1>1. Phase[t] = "called" /\ Phase' = [Phase EXCEPT ![t] = "applied"]
  BY PhaseStep DEF IInv, Phase
<1>2. statuses' = [statuses EXCEPT ![mark[t].fn] =
                      Table!Marked(statuses[mark[t].fn], mark[t])]
  BY EnteredIsMarked DEF IInv, TypeOK
<1> QED
  BY <1>1, <1>2 DEF Table!Apply

\* Every step of the store is a step of the table, or none.
LEMMA NextTable == IInv /\ [Next]_vars => [Table!Next]_(Table!vars)
<1> SUFFICES ASSUME IInv, [Next]_vars PROVE [Table!Next]_(Table!vars)
  OBVIOUS
<1> USE DEF Table!vars
<1>0. \A t \in Threads : /\ mark[t] \in Mark /\ mark[t].fn \in Functions
                         /\ mark[t].level \in 1 .. 4
                         /\ statuses[mark[t].fn] \in Entry
                         /\ statuses[mark[t].fn].state \in 0 .. 4
                         /\ publishedState[mark[t].fn] \in 0 .. 4
  BY MarkFields DEF IInv, TypeOK, Entry, Levels, Stubbed, ScenarioTested
<1>1. ASSUME NEW t \in Threads, Call(t) PROVE Table!Call(t)
  <2>1. Phase[t] = "idle" /\ Phase' = [Phase EXCEPT ![t] = "called"]
    BY <1>1, PhaseStep DEF Call, IInv, Phase
  <2> QED
    BY <1>1, <2>1 DEF Call, Table!Call, Mark, Table!Request
<1>2. ASSUME NEW t \in Threads, LoadState(t)
      PROVE Table!Apply(t) \/ UNCHANGED Table!vars
  <2>1. CASE Goto(t, "done") /\ publishedState[mark[t].fn] >= mark[t].level
             /\ (mark[t].note = NoNote \/ publishedState[mark[t].fn] # mark[t].level)
    <3>1. Entered(t)
      BY <2>1, FastPathEntered
    <3>2. \/ mark[t].note = NoNote
          \/ statuses[mark[t].fn].state > mark[t].level
      BY <1>0, <2>1 DEF IInv, MarkEntered
    <3> QED
      BY <1>2, <2>1, <3>1, <3>2, FastPathApplies DEF LoadState
  <2>2. CASE Goto(t, "lock") \/ Goto(t, "loadNotes")
    <3>1. Phase[t] = "called" /\ Phase' = [Phase EXCEPT ![t] = "called"]
      BY <1>2, <2>2, PhaseStep DEF LoadState, IInv, Phase
    <3>2. Phase' = Phase
      BY <3>1 DEF Phase
    <3> QED
      BY <1>2, <3>2 DEF LoadState
  <2> QED
    BY <1>0, <1>2, <2>1, <2>2 DEF LoadState
<1>3. ASSUME NEW t \in Threads, LoadNotes(t)
      PROVE Table!Apply(t) \/ UNCHANGED Table!vars
  <2>1. CASE notesPublished[mark[t].fn]
    <3>1. Entered(t)
      BY <1>3, <2>1, FastPathEntered DEF LoadNotes, IInv, PathsSound
    <3>2. statuses[mark[t].fn].note # NoNote
      BY <1>0, <2>1 DEF IInv, MarkEntered
    <3> QED
      BY <1>3, <2>1, <3>1, <3>2, FastPathApplies DEF LoadNotes
  <2>2. CASE ~notesPublished[mark[t].fn]
    <3>1. Phase[t] = "called" /\ Phase' = [Phase EXCEPT ![t] = "called"]
      BY <1>3, <2>2, PhaseStep DEF LoadNotes, IInv, Phase
    <3>2. Phase' = Phase
      BY <3>1 DEF Phase
    <3> QED
      BY <1>3, <3>2 DEF LoadNotes
  <2> QED
    BY <2>1, <2>2
<1>4. ASSUME NEW t \in Threads, Lock(t) PROVE UNCHANGED Table!vars
  <2>1. Phase[t] = "called" /\ Phase' = [Phase EXCEPT ![t] = "called"]
    BY <1>4, PhaseStep DEF Lock, IInv, Phase
  <2>2. Phase' = Phase
    BY <2>1 DEF Phase
  <2> QED
    BY <1>4, <2>2 DEF Lock
<1>5. ASSUME NEW t \in Threads, Update(t) PROVE Table!Apply(t)
  <2>1. Phase[t] = "called" /\ Phase' = [Phase EXCEPT ![t] = "applied"]
    BY <1>5, PhaseStep DEF Update, IInv, Phase
  <2>2. statuses' = [statuses EXCEPT ![mark[t].fn] =
                        NewEntry(statuses[mark[t].fn], mark[t])]
    BY <1>5 DEF Update, NewEntry
  <2>3. NewEntry(statuses[mark[t].fn], mark[t])
           = Table!Marked(statuses[mark[t].fn], mark[t])
    BY <1>0, NewEntryIsMarked
  <2> QED
    BY <1>5, <2>1, <2>2, <2>3 DEF Table!Apply, Update
<1>6. ASSUME NEW t \in Threads, PublishNotes(t) \/ PublishState(t)
      PROVE UNCHANGED Table!vars
  <2>1. Phase[t] = "applied" /\ Phase' = [Phase EXCEPT ![t] = "applied"]
    BY <1>6, PhaseStep DEF PublishNotes, PublishState, IInv, Phase
  <2>2. Phase' = Phase
    BY <2>1 DEF Phase
  <2> QED
    BY <1>6, <2>2 DEF PublishNotes, PublishState
<1>7. ASSUME NEW t \in Threads, Return(t) PROVE Table!Return(t)
  <2>1. Phase[t] = "applied" /\ Phase' = [Phase EXCEPT ![t] = "idle"]
    BY <1>7, PhaseStep DEF Return, IInv, Phase
  <2> QED
    BY <1>7, <2>1 DEF Return, Table!Return
<1>8. CASE UNCHANGED vars
  BY <1>8 DEF vars, Phase
<1> QED
  BY <1>1, <1>2, <1>3, <1>4, <1>5, <1>6, <1>7, <1>8 DEF Next, Table!Next

\* The store implements the table: every mark takes effect at one instant
\* between its call and its return.
THEOREM SpecTable == Spec => TableSpec
  BY InitTable, NextTable, SpecIInv, PTL DEF Spec, TableSpec, Table!Spec

=============================================================================
