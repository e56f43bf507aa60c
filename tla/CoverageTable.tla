--------------------------- MODULE CoverageTable ---------------------------
(***************************************************************************)
(* What debug/CoverageStore promises its callers: a table with an entry    *)
(* for every GL entry point, which a mark changes at one instant between   *)
(* its call and its return, whatever the other threads do.                 *)
(*                                                                         *)
(* An entry only rises.  The first test to reach it is remembered, and the *)
(* note is the first one given at the highest level reached, or the note   *)
(* of the level before if none was given yet.                              *)
(***************************************************************************)
EXTENDS Naturals

CONSTANTS
    Threads, Functions,
    Notes, NoNote,      \* notes, and the empty one
    Tests, NoTest,      \* test identifiers, and none
    SmokeTested,        \* the level from which a mark names a test
    Levels              \* the levels a mark can ask for

VARIABLES
    table,      \* entry of each function
    phase,      \* "idle", "called" or "applied", for each thread
    request     \* the mark a thread asked for last

vars == <<table, phase, request>>

Entry == [state : Levels \cup {0}, test : Tests \cup {NoTest},
          note : Notes \cup {NoNote}]

Request ==
    {r \in [fn : Functions, level : Levels, note : Notes \cup {NoNote},
            test : Tests \cup {NoTest}] :
        r.test = NoTest <=> r.level < SmokeTested}

Marked(e, r) ==
    [state |-> IF r.level > e.state THEN r.level ELSE e.state,
     test  |-> IF e.test = NoTest THEN r.test ELSE e.test,
     note  |-> IF \/ r.note = NoNote
                  \/ r.level < e.state
                  \/ r.level = e.state /\ e.note # NoNote
               THEN e.note ELSE r.note]

Init ==
    /\ table = [f \in Functions |-> [state |-> 0, test |-> NoTest, note |-> NoNote]]
    /\ phase = [t \in Threads |-> "idle"]
    /\ request \in [Threads -> Request]

Call(t) ==
    /\ phase[t] = "idle"
    /\ \E r \in Request : request' = [request EXCEPT ![t] = r]
    /\ phase' = [phase EXCEPT ![t] = "called"]
    /\ UNCHANGED table

Apply(t) ==
    /\ phase[t] = "called"
    /\ table' = [table EXCEPT ![request[t].fn] = Marked(@, request[t])]
    /\ phase' = [phase EXCEPT ![t] = "applied"]
    /\ UNCHANGED request

Return(t) ==
    /\ phase[t] = "applied"
    /\ phase' = [phase EXCEPT ![t] = "idle"]
    /\ UNCHANGED <<table, request>>

Next == \E t \in Threads : Call(t) \/ Apply(t) \/ Return(t)

Spec == Init /\ [][Next]_vars

=============================================================================
