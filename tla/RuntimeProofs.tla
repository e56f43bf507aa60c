---------------------------- MODULE RuntimeProofs ----------------------------
(***************************************************************************)
(* Proofs about the two parts that belong to the process rather than to a  *)
(* context: ContextRegistry, for any number of threads and addresses, and  *)
(* for applications that destroy contexts current elsewhere, too; and      *)
(* MemoryPressure: its hysteresis machine settles and is monotone for      *)
(* every set of ordered watermarks and every ratio, and the protocol       *)
(* around it is sound for every number of contexts.                        *)
(***************************************************************************)
EXTENDS ContextRegistry, MemoryPressure, TLAPS

-----------------------------------------------------------------------------
(* The registry of contexts.                                               *)

\* Registration leaves its trace in the inventory before the registry empties.
InventoryKept == everLive /\ liveContexts = {} => inventoryValid

RegistryInv ==
    /\ RegistryTypeOK
    /\ WalkedContextAlive
    /\ DiagnosticContextLive
    /\ InventoryKept
    /\ PostMortemAvailable
    /\ CurrentAlive

\* The initial state.
LEMMA RegistryInitInv == RegistryInit => RegistryInv
<1> SUFFICES ASSUME RegistryInit PROVE RegistryInv
  OBVIOUS
<1>1. RegistryTypeOK
  BY NoThreadAssumption DEF RegistryInit, RegistryTypeOK, Memory, Places
<1>2. WalkedContextAlive /\ DiagnosticContextLive /\ InventoryKept
      /\ PostMortemAvailable /\ CurrentAlive
  BY DEF RegistryInit, WalkedContextAlive, DiagnosticContextLive, InventoryKept,
         PostMortemAvailable, CurrentAlive, AnyOf
<1> QED
  BY <1>1, <1>2 DEF RegistryInv

\* A step that leaves the registry alone keeps what is known of it, if it starts
\* no walk and what it does to memory and to the current contexts is harmless.
LEMMA Unregistered ==
    ASSUME RegistryInv, RegistryTypeOK',
           UNCHANGED <<liveContexts, diagnosticContext, inventoryValid, everLive, disturbed>>,
           \A t \in Threads : at'[t] = "walk" =>
              at[t] = "walk" /\ subject'[t] = subject[t],
           \A t \in Threads : current'[t] # NoContext =>
              current'[t] \in liveContexts \/ current'[t] = current[t]
    PROVE  RegistryInv'
<1>1. \A c \in liveContexts : c \in Addresses /\ memory[c] = "live" /\ memory'[c] = "live"
  BY DEF RegistryInv, RegistryTypeOK
<1>2. WalkedContextAlive'
  BY <1>1 DEF RegistryInv, RegistryTypeOK, WalkedContextAlive
<1>3. CurrentAlive'
  BY <1>1 DEF RegistryInv, RegistryTypeOK, CurrentAlive
<1> QED
  BY <1>2, <1>3
  DEF RegistryInv, DiagnosticContextLive, InventoryKept, PostMortemAvailable

\* The invariant is inductive.
LEMMA RegistryNextInv == RegistryInv /\ [RegistryNext]_registryVars => RegistryInv'
<1> SUFFICES ASSUME RegistryInv, [RegistryNext]_registryVars PROVE RegistryInv'
  OBVIOUS
<1> USE NoThreadAssumption, NoContextAssumption
<1>1. ASSUME NEW t \in Threads, Construct(t) PROVE RegistryInv'
  <2>1. PICK c \in Addresses : /\ memory[c] = "free"
                              /\ memory' = [memory EXCEPT ![c] = "built"]
                              /\ Goto(t, "register", c)
    BY <1>1 DEF Construct
  <2>2. RegistryTypeOK'
    BY <1>1, <2>1 DEF RegistryInv, RegistryTypeOK, Construct, Goto, Memory, Places
  <2> QED
    BY <1>1, <2>1, <2>2, Unregistered DEF Construct, Goto, RegistryInv, RegistryTypeOK
<1>2. ASSUME NEW t \in Threads, Register(t) PROVE RegistryInv'
  <2> DEFINE c == subject[t]
  <2>1. c \in Addresses /\ memory[c] = "built" /\ at[t] = "register"
        /\ contextMutex = NoThread
    BY <1>2 DEF Register, RegistryInv, RegistryTypeOK
  <2>2. RegistryTypeOK'
    BY <1>2, <2>1 DEF RegistryInv, RegistryTypeOK, Register, Goto, Memory, Places
  <2>3. \A u \in Threads : at'[u] # "walk"
    BY <2>1, <2>2, <1>2 DEF Register, RegistryTypeOK
  <2>4. DiagnosticContextLive'
    BY <1>2 DEF Register, DiagnosticContextLive, AnyOf
  <2>5. CurrentAlive'
    BY <1>2, <2>1 DEF Register, RegistryInv, RegistryTypeOK, CurrentAlive
  <2>6. InventoryKept'
    BY <1>2 DEF Register, InventoryKept
  <2> QED
    BY <2>2, <2>3, <2>4, <2>5, <2>6 DEF RegistryInv, WalkedContextAlive, PostMortemAvailable
<1>3. ASSUME NEW t \in Threads, MakeCurrent(t) PROVE RegistryInv'
  <2>1. PICK c \in {d \in Addresses : memory[d] = "live"} \cup {NoContext} :
           current' = [current EXCEPT ![t] = c] /\ Goto(t, "note", c)
    BY <1>3 DEF MakeCurrent
  <2>2. RegistryTypeOK'
    BY <1>3, <2>1 DEF RegistryInv, RegistryTypeOK, MakeCurrent, Goto, Places
  <2>3. \A u \in Threads : at'[u] = "walk" =>
           at[u] = "walk" /\ subject'[u] = subject[u]
    BY <2>1 DEF RegistryInv, RegistryTypeOK, Goto
  <2>4. \A u \in Threads : current'[u] # NoContext =>
           current'[u] \in liveContexts \/ current'[u] = current[u]
    BY <2>1 DEF RegistryInv, RegistryTypeOK
  <2> QED
    BY <1>3, <2>2, <2>3, <2>4, Unregistered DEF MakeCurrent
<1>4. ASSUME NEW t \in Threads, NoteCurrent(t) PROVE RegistryInv'
  <2>1. DiagnosticContextLive'
    BY <1>4 DEF NoteCurrent, RegistryInv, DiagnosticContextLive, AnyOf
  <2>2. diagnosticContext' \in Addresses \cup {NoContext}
    BY <1>4, <2>1 DEF NoteCurrent, RegistryInv, RegistryTypeOK, DiagnosticContextLive, AnyOf
  <2>3. RegistryTypeOK'
    BY <1>4, <2>2 DEF NoteCurrent, RegistryInv, RegistryTypeOK, Goto, Places
  <2>4. WalkedContextAlive' /\ InventoryKept' /\ PostMortemAvailable' /\ CurrentAlive'
    BY <1>4 DEF NoteCurrent, RegistryInv, RegistryTypeOK, Goto, WalkedContextAlive, InventoryKept,
       PostMortemAvailable, CurrentAlive
  <2> QED
    BY <2>1, <2>3, <2>4 DEF RegistryInv
<1>5. ASSUME NEW t \in Threads, Unregister(t) PROVE RegistryInv'
  <2>1. PICK c \in Addresses :
           /\ MayDestroy(c)
           /\ liveContexts' = liveContexts \ {c}
           /\ diagnosticContext' \in
                 IF diagnosticContext = c THEN AnyOf(liveContexts \ {c})
                 ELSE {diagnosticContext}
           /\ ClearCurrent(t, c)
           /\ disturbed' = (disturbed \/ \E u \in Threads \ {t} : current[u] = c)
           /\ memory' = [memory EXCEPT ![c] = "dying"]
           /\ Goto(t, "free", c)
    BY <1>5 DEF Unregister
  <2>2. /\ at[t] = "idle" /\ contextMutex = NoThread /\ inventoryValid' = TRUE
        /\ UNCHANGED <<contextMutex, everLive>>
    BY <1>5 DEF Unregister, CaptureInventory
  <2>3. DiagnosticContextLive'
    BY <2>1 DEF RegistryInv, RegistryTypeOK, DiagnosticContextLive, AnyOf, MayDestroy
  <2>4. diagnosticContext' \in Addresses \cup {NoContext}
    BY <2>1, <2>3 DEF RegistryInv, RegistryTypeOK, DiagnosticContextLive, AnyOf
  <2>5. current' \in [Threads -> Addresses \cup {NoContext}]
    BY <2>1 DEF ClearCurrent, RegistryInv, RegistryTypeOK
  <2>6. RegistryTypeOK'
    <3>1. /\ at' = [at EXCEPT ![t] = "free"] /\ subject' = [subject EXCEPT ![t] = c]
          /\ memory[c] = "live"
      BY <2>1 DEF Goto, MayDestroy
    <3>2. \A u \in Threads :
             /\ at'[u] = "walk" <=> contextMutex' = u
             /\ at'[u] = "register" =>
                   subject'[u] \in Addresses /\ memory'[subject'[u]] = "built"
             /\ at'[u] = "free" =>
                   subject'[u] \in Addresses /\ memory'[subject'[u]] = "dying"
      BY <2>1, <2>2, <3>1 DEF RegistryInv, RegistryTypeOK
    <3>3. \A u \in Threads \ {t} : at[u] \in {"register", "free"} => subject[u] # c
      BY <3>1 DEF RegistryInv, RegistryTypeOK
    <3>4. \A u \in Threads : \A w \in Threads \ {u} :
             at'[u] \in {"register", "free"} /\ at'[w] \in {"register", "free"}
                => subject'[u] # subject'[w]
      BY <3>1, <3>3 DEF RegistryInv, RegistryTypeOK
    <3>5. liveContexts' = {d \in Addresses : memory'[d] = "live"}
          /\ memory' \in [Addresses -> Memory]
      BY <2>1 DEF RegistryInv, RegistryTypeOK, Memory
    <3>6. at' \in [Threads -> Places] /\ subject' \in [Threads -> Addresses \cup {NoContext}]
      BY <3>1 DEF RegistryInv, RegistryTypeOK, Places
    <3> QED
      BY <2>1, <2>2, <2>4, <2>5, <3>2, <3>4, <3>5, <3>6 DEF RegistryInv, RegistryTypeOK
  <2>7. \A u \in Threads : at'[u] # "walk"
    BY <2>2, <2>6 DEF RegistryTypeOK
  <2>8. CurrentAlive'
    <3> SUFFICES ASSUME ~disturbed', NEW u \in Threads, current'[u] # NoContext
                 PROVE  memory'[current'[u]] = "live"
      BY DEF CurrentAlive
    <3>1. current'[u] = current[u]
      BY <2>1 DEF ClearCurrent, RegistryInv, RegistryTypeOK
    <3>2. current[u] \in Addresses /\ memory[current[u]] = "live"
      BY <2>1, <3>1 DEF RegistryInv, RegistryTypeOK, CurrentAlive
    <3>3. current[u] # c
      BY <2>1, <3>1 DEF ClearCurrent, RegistryInv, RegistryTypeOK
    <3> QED
      BY <2>1, <3>1, <3>2, <3>3 DEF RegistryInv, RegistryTypeOK
  <2> QED
    BY <2>2, <2>3, <2>6, <2>7, <2>8
    DEF RegistryInv, WalkedContextAlive, InventoryKept, PostMortemAvailable
<1>6. ASSUME NEW t \in Threads, Free(t) PROVE RegistryInv'
  <2>1. RegistryTypeOK'
    <3> DEFINE c == subject[t]
    <3>1. /\ at[t] = "free" /\ c \in Addresses /\ memory[c] = "dying"
          /\ memory' = [memory EXCEPT ![c] = "free"]
          /\ at' = [at EXCEPT ![t] = "idle"]
          /\ subject' = [subject EXCEPT ![t] = NoContext]
          /\ UNCHANGED contextMutex
      BY <1>6 DEF RegistryInv, RegistryTypeOK, Free, Goto
    <3>2. \A u \in Threads \ {t} : at[u] \in {"register", "free"} => subject[u] # c
      BY <3>1 DEF RegistryInv, RegistryTypeOK
    <3>3. \A u \in Threads :
             /\ at'[u] = "walk" <=> contextMutex' = u
             /\ at'[u] = "register" =>
                   subject'[u] \in Addresses /\ memory'[subject'[u]] = "built"
             /\ at'[u] = "free" =>
                   subject'[u] \in Addresses /\ memory'[subject'[u]] = "dying"
      BY <3>1, <3>2 DEF RegistryInv, RegistryTypeOK
    <3>4. \A u \in Threads : \A w \in Threads \ {u} :
             at'[u] \in {"register", "free"} /\ at'[w] \in {"register", "free"}
                => subject'[u] # subject'[w]
      BY <3>1 DEF RegistryInv, RegistryTypeOK
    <3>5. liveContexts = {d \in Addresses : memory'[d] = "live"}
          /\ memory' \in [Addresses -> Memory]
      BY <3>1 DEF RegistryInv, RegistryTypeOK, Memory
    <3>6. at' \in [Threads -> Places] /\ subject' \in [Threads -> Addresses \cup {NoContext}]
      BY <3>1 DEF RegistryInv, RegistryTypeOK, Places
    <3> QED
      BY <1>6, <3>1, <3>3, <3>4, <3>5, <3>6 DEF RegistryInv, RegistryTypeOK, Free
  <2> QED
    BY <1>6, <2>1, Unregistered DEF Free, Goto, RegistryInv, RegistryTypeOK
<1>7. ASSUME NEW t \in Threads, StartWalk(t) PROVE RegistryInv'
  <2>1. \/ DiagnosticContextFor(t) \in liveContexts
        \/ DiagnosticContextFor(t) = NoContext /\ liveContexts = {}
    BY DEF RegistryInv, DiagnosticContextLive, AnyOf, DiagnosticContextFor
  <2>2. RegistryTypeOK'
    BY <1>7, <2>1 DEF RegistryInv, RegistryTypeOK, StartWalk, Goto, Places
  <2>3. \A u \in Threads : at'[u] = "walk" => u = t
    BY <1>7 DEF RegistryInv, RegistryTypeOK, StartWalk, Goto
  <2>4. subject'[t] = DiagnosticContextFor(t)
    BY <1>7 DEF RegistryInv, RegistryTypeOK, StartWalk, Goto
  <2>5. WalkedContextAlive' /\ PostMortemAvailable'
    BY <1>7, <2>1, <2>3, <2>4
    DEF RegistryInv, RegistryTypeOK, StartWalk, WalkedContextAlive, PostMortemAvailable, InventoryKept
  <2> QED
    BY <1>7, <2>2, <2>5
    DEF RegistryInv, StartWalk, DiagnosticContextLive, InventoryKept, CurrentAlive
<1>8. ASSUME NEW t \in Threads, EndWalk(t) PROVE RegistryInv'
  <2>1. RegistryTypeOK'
    BY <1>8 DEF RegistryInv, RegistryTypeOK, EndWalk, Goto, Places
  <2> QED
    BY <1>8, <2>1, Unregistered DEF EndWalk, Goto, RegistryInv, RegistryTypeOK
<1>9. CASE UNCHANGED registryVars
  BY <1>9 DEF RegistryInv, RegistryTypeOK, WalkedContextAlive, DiagnosticContextLive, InventoryKept,
     PostMortemAvailable, CurrentAlive, registryVars
<1> QED
  BY <1>1, <1>2, <1>3, <1>4, <1>5, <1>6, <1>7, <1>8, <1>9 DEF RegistryNext

\* The inductive invariant holds throughout.
THEOREM SpecRegistryInv == RegistrySpec => []RegistryInv
  BY RegistryInitInv, RegistryNextInv, PTL DEF RegistrySpec

\* The types, the mutex, and who is responsible for which context.
THEOREM SpecRegistryTypeOK == RegistrySpec => []RegistryTypeOK
  BY SpecRegistryInv, PTL DEF RegistryInv

\* A diagnostics walk has a whole context to report about to its end, or an
\* inventory (writeDiagnosticsJSON against unregisterContext).
THEOREM SpecWalkSound == RegistrySpec => []WalkSound
  BY SpecRegistryInv, PTL DEF RegistryInv, WalkSound

\* The registry's choice is live, and so is every current context of an
\* application that destroys none that is current to another thread.
THEOREM SpecRememberedAlive == RegistrySpec => []RememberedAlive
  BY SpecRegistryInv, PTL DEF RegistryInv, RememberedAlive

\* Both: no address the runtime keeps is used after its context is gone.
THEOREM SpecRegistrySound == RegistrySpec => []RegistrySound
  BY SpecWalkSound, SpecRememberedAlive, PTL DEF RegistrySound

-----------------------------------------------------------------------------
(* The hysteresis machine of memory pressure.                              *)

\* A machine that has stepped on some inputs stays where it is on the same
\* inputs, from every level, for every ordered set of watermarks
\* (metalMemoryPressureNextState).
THEOREM NextStateSettles ==
    ASSUME NEW was \in Levels, NEW os \in OSLevels,
           NEW ratio \in Nat \cup {NoRatio}
    PROVE  NextState(NextState(was, os, ratio), os, ratio)
              = NextState(was, os, ratio)
  BY WatermarksAssumption
  DEF NextState, PeakFor, Levels, OSLevels, Idle, Soft, Hard, Critical,
      OSNone, OSWarning, OSCritical, NoRatio

\* More pressure never leads to a lower level (metalMemoryPressureNextState).
THEOREM NextStateMonotone ==
    ASSUME NEW was \in Levels,
           NEW os1 \in OSLevels, NEW os2 \in OSLevels, os1 <= os2,
           NEW r1 \in Nat, NEW r2 \in Nat, r1 <= r2
    PROVE  NextState(was, os1, r1) <= NextState(was, os2, r2)
  BY WatermarksAssumption
  DEF NextState, PeakFor, Levels, OSLevels, Idle, Soft, Hard, Critical,
      OSNone, OSWarning, OSCritical, NoRatio

\* The machine's level is one of the four.
LEMMA NextStateType ==
    ASSUME NEW was \in Levels, NEW os \in OSLevels, NEW ratio
    PROVE  NextState(was, os, ratio) \in Levels
  BY DEF NextState, PeakFor, Levels

\* The machine climbs to Critical only on a critical level or a ratio at its
\* target.
LEMMA NextStateClimb ==
    ASSUME NEW was \in Levels, NEW os \in OSLevels, NEW ratio,
           NextState(was, os, ratio) = Critical,
           was # Critical
    PROVE  os = OSCritical \/ ratio >= Watermarks.criticalTarget
  BY DEF NextState, PeakFor, Levels, OSLevels, Idle, Soft, Hard, Critical,
         OSNone, OSWarning, OSCritical

-----------------------------------------------------------------------------
(* The protocol.  The three parts of the inductive invariant: the types,   *)
(* the account of peaks, and where a critical level can have come from.    *)

\* Critical pressure leaves its trace before it can be read anywhere.
CriticalSeen ==
    /\ osPressure = OSCritical => everCritical
    /\ \A c \in Contexts : ctx[c].os = OSCritical => everCritical
    /\ OutOfMemoryJustified

PressureInv == PressureTypeOK /\ OnePassPerEvent /\ CriticalSeen

LEMMA PeakForType ==
    ASSUME NEW os \in OSLevels
    PROVE  PeakFor(os) \in Levels
  BY DEF PeakFor, Levels

LEMMA HigherType ==
    ASSUME NEW a \in Levels, NEW b \in Levels
    PROVE  Higher(a, b) \in Levels
  BY DEF Higher

LEMMA NoSampleType ==
    NoSample \in [pc : {"idle", "sampling", "take", "apply", "evict"},
                  purpose : {"none", "boundary", "recheck", "diagnose"},
                  os : OSLevels, level : Levels, relief : BOOLEAN]
  BY DEF NoSample, OSLevels, Levels

\* The initial state.
LEMMA PressureInitInv == PressureInit => PressureInv
<1> SUFFICES ASSUME PressureInit PROVE PressureInv
  OBVIOUS
<1>1. PressureTypeOK
  <2>1. ctx \in [Contexts -> [pc : {"idle", "sampling", "take", "apply", "evict"},
                              purpose : {"none", "boundary", "recheck", "diagnose"},
                              os : OSLevels, level : Levels, relief : BOOLEAN]]
    BY NoSampleType DEF PressureInit
  <2>2. handler \in [pc : {"idle", "load", "exchange"}, peak : Levels,
                     current : Levels]
    BY DEF PressureInit, Levels
  <2> QED
    BY <2>1, <2>2 DEF PressureInit, PressureTypeOK, Levels, OSLevels
<1>2. OnePassPerEvent
  BY DEF PressureInit, OnePassPerEvent
<1>3. CriticalSeen
  BY DEF PressureInit, CriticalSeen, OutOfMemoryJustified, NoSample, Idle, Critical,
         OSNone, OSCritical
<1> QED
  BY <1>1, <1>2, <1>3 DEF PressureInv

\* The event handler's steps.
LEMMA AnnounceIInv ==
    ASSUME PressureInv, NEW os \in OSLevels, Announce(os)
    PROVE  PressureInv'
<1>1. PressureTypeOK'
  BY PeakForType DEF PressureInv, PressureTypeOK, Announce, Levels
<1>2. OnePassPerEvent'
  BY DEF PressureInv, PressureTypeOK, OnePassPerEvent, Announce
<1>3. CriticalSeen'
  BY DEF PressureInv, PressureTypeOK, CriticalSeen, OutOfMemoryJustified, Announce
<1> QED
  BY <1>1, <1>2, <1>3 DEF PressureInv

LEMMA HandlerIInv ==
    ASSUME PressureInv, Handler
    PROVE  PressureInv'
<1>1. PressureTypeOK'
  <2>1. handler' \in [pc : {"idle", "load", "exchange"}, peak : Levels,
                      current : Levels]
    <3>1. CASE Seen(pendingPressurePeak)
      BY <3>1 DEF PressureInv, PressureTypeOK, Seen, Levels
    <3>2. CASE handler' = [pc |-> "idle", peak |-> Idle, current |-> Idle]
      BY <3>2 DEF Levels
    <3> QED
      BY <3>1, <3>2 DEF Handler, LoadPeak, ExchangePeak
  <2>2. pendingPressurePeak' \in Levels
    BY DEF PressureInv, PressureTypeOK, Handler, LoadPeak, ExchangePeak
  <2> QED
    BY <2>1, <2>2 DEF PressureInv, PressureTypeOK, Handler, LoadPeak, ExchangePeak
<1>2. OnePassPerEvent'
  BY DEF PressureInv, PressureTypeOK, OnePassPerEvent, Handler, LoadPeak, ExchangePeak, Seen,
         Levels
<1>3. CriticalSeen'
  BY DEF PressureInv, PressureTypeOK, CriticalSeen, OutOfMemoryJustified, Handler, LoadPeak,
         ExchangePeak
<1> QED
  BY <1>1, <1>2, <1>3 DEF PressureInv

\* A context's steps up to the mutex.
LEMMA SampleIInv ==
    ASSUME PressureInv, NEW c \in Contexts,
           Boundary(c) \/ Diagnose(c) \/ LoadOSPressure(c) \/ TakePeak(c)
    PROVE  PressureInv'
<1>1. PressureTypeOK'
  BY DEF PressureInv, PressureTypeOK, Boundary, Diagnose, StartSample, LoadOSPressure, TakePeak,
         Levels, Idle
<1>2. OnePassPerEvent'
  BY DEF PressureInv, PressureTypeOK, OnePassPerEvent, Boundary, Diagnose, StartSample,
         LoadOSPressure, TakePeak
<1>3. CriticalSeen'
  BY DEF PressureInv, PressureTypeOK, CriticalSeen, OutOfMemoryJustified, Boundary, Diagnose,
         StartSample, LoadOSPressure, TakePeak
<1> QED
  BY <1>1, <1>2, <1>3 DEF PressureInv

\* What the machine's step under the mutex keeps.
LEMMA ApplyKeeps ==
    ASSUME PressureInv, NEW c \in Contexts, NEW purpose, NEW ratio \in Ratios,
           Apply(c, purpose, ratio)
    PROVE  /\ state' \in Levels
           /\ everCritical' \in BOOLEAN
           /\ everCritical => everCritical'
           /\ state' = Critical => everCritical'
<1>1. /\ state \in Levels /\ ctx[c].os \in OSLevels /\ everCritical \in BOOLEAN
      /\ state = Critical => everCritical
      /\ ctx[c].os = OSCritical => everCritical
  BY DEF PressureInv, PressureTypeOK, CriticalSeen, OutOfMemoryJustified
<1>2. state' = NextState(state, ctx[c].os, ratio)
  BY DEF Apply
<1>3. everCritical' = (everCritical \/ ratio >= Watermarks.criticalTarget)
  BY DEF Apply
<1>4. state' \in Levels
  BY <1>1, <1>2, NextStateType
<1>5. ASSUME state' = Critical PROVE everCritical'
  BY <1>1, <1>2, <1>3, <1>5, NextStateClimb
<1> QED
  BY <1>1, <1>3, <1>4, <1>5

LEMMA ApplyIInv ==
    ASSUME PressureInv, NEW c \in Contexts,
           ApplyBoundary(c) \/ ApplyDiagnose(c) \/ ApplyRecheck(c)
    PROVE  PressureInv'
<1>1. PICK purpose \in {"boundary", "diagnose", "recheck"}, ratio \in Ratios :
        Apply(c, purpose, ratio)
  BY DEF ApplyBoundary, ApplyDiagnose, ApplyRecheck
<1>2. /\ state' \in Levels
      /\ everCritical' \in BOOLEAN
      /\ everCritical => everCritical'
      /\ state' = Critical => everCritical'
  BY <1>1, ApplyKeeps
<1>3. UNCHANGED <<osPressure, pendingPressurePeak, handler, events, consumes>>
  BY <1>1 DEF Apply
<1>4. PICK record \in [pc : {"idle", "sampling", "take", "apply", "evict"},
                       purpose : {"none", "boundary", "recheck", "diagnose"},
                       os : OSLevels, level : Levels, relief : BOOLEAN] :
         /\ record.os = OSNone
         /\ ctx' = [ctx EXCEPT ![c] = record]
  <2>1. NoSample.os = OSNone
    BY DEF NoSample
  <2>2. CASE ApplyBoundary(c)
    <3>1. PICK r \in Ratios :
            LET level == Higher(NextState(state, ctx[c].os, r), ctx[c].level)
            IN  \/ ctx' = [ctx EXCEPT ![c] = NoSample]
                \/ ctx' = [ctx EXCEPT ![c] = [NoSample EXCEPT !.pc = "evict",
                                                            !.level = level]]
      BY <2>2 DEF ApplyBoundary
    <3> DEFINE level == Higher(NextState(state, ctx[c].os, r), ctx[c].level)
    <3>2. level \in Levels
      BY NextStateType, HigherType DEF PressureInv, PressureTypeOK
    <3> HIDE DEF level
    <3>3. CASE ctx' = [ctx EXCEPT ![c] = NoSample]
      BY <3>3, <2>1, NoSampleType
    <3>4. CASE ctx' = [ctx EXCEPT ![c] = [NoSample EXCEPT !.pc = "evict",
                                                       !.level = level]]
      BY <3>4, <3>2, <2>1 DEF NoSample, OSLevels
    <3> QED
      BY <3>1, <3>3, <3>4 DEF level
  <2>3. CASE ApplyDiagnose(c) \/ ApplyRecheck(c)
    BY <2>1, <2>3, NoSampleType DEF ApplyDiagnose, ApplyRecheck
  <2> QED
    BY <2>2, <2>3
<1>5. lastLevel' \in [Contexts -> Levels]
  BY DEF PressureInv, PressureTypeOK, ApplyBoundary, ApplyDiagnose, ApplyRecheck, Levels
<1>6. oom' \in BOOLEAN /\ (oom' => oom \/ state' = Critical)
  <2>1. CASE oom' = oom
    BY <2>1 DEF PressureInv, PressureTypeOK
  <2>2. CASE oom' = (oom \/ (state' = Critical /\ ~ctx[c].relief))
    BY <2>2, Zenon
  <2> QED
    BY <2>1, <2>2 DEF ApplyBoundary, ApplyDiagnose, ApplyRecheck
<1>7. PressureTypeOK'
  BY <1>2, <1>3, <1>4, <1>5, <1>6 DEF PressureInv, PressureTypeOK
<1>8. OnePassPerEvent'
  BY <1>3 DEF PressureInv, OnePassPerEvent
<1>9. CriticalSeen'
  BY <1>2, <1>3, <1>4, <1>6
  DEF PressureInv, PressureTypeOK, CriticalSeen, OutOfMemoryJustified, OSNone, OSCritical
<1> QED
  BY <1>7, <1>8, <1>9 DEF PressureInv

\* The eviction pass.
LEMMA EvictIInv ==
    ASSUME PressureInv, NEW c \in Contexts,
           EvictSkipped(c) \/ EvictBelowCritical(c) \/ EvictCritical(c)
    PROVE  PressureInv'
<1> DEFINE Records == [pc : {"idle", "sampling", "take", "apply", "evict"},
                       purpose : {"none", "boundary", "recheck", "diagnose"},
                       os : OSLevels, level : Levels, relief : BOOLEAN]
<1>0. PICK record \in Records : /\ record.os = OSNone
                                /\ ctx' = [ctx EXCEPT ![c] = record]
  <2>1. CASE EvictSkipped(c) \/ EvictBelowCritical(c)
    BY <2>1, NoSampleType DEF EvictSkipped, EvictBelowCritical, NoSample
  <2>2. CASE EvictCritical(c)
    <3>1. PICK relief \in BOOLEAN :
            ctx' = [ctx EXCEPT ![c] = [NoSample EXCEPT !.pc = "sampling",
                                                       !.purpose = "recheck",
                                                       !.relief = relief]]
      BY <2>2 DEF EvictCritical
    <3>2. [NoSample EXCEPT !.pc = "sampling", !.purpose = "recheck",
                           !.relief = relief] \in Records
      BY NoSampleType DEF NoSample
    <3> QED
      BY <3>1, <3>2 DEF NoSample
  <2> QED
    BY <2>1, <2>2
<1>1. PressureTypeOK'
  <2>1. lastLevel' \in [Contexts -> Levels]
    BY DEF PressureInv, PressureTypeOK, EvictSkipped, EvictBelowCritical, EvictCritical
  <2>2. UNCHANGED <<osPressure, pendingPressurePeak, handler, state, events,
                    consumes, everCritical, oom>>
    BY DEF EvictSkipped, EvictBelowCritical, EvictCritical
  <2> QED
    BY <1>0, <2>1, <2>2 DEF PressureInv, PressureTypeOK
<1>2. OnePassPerEvent'
  BY DEF PressureInv, OnePassPerEvent, EvictSkipped, EvictBelowCritical, EvictCritical
<1>3. CriticalSeen'
  <2>1. UNCHANGED <<osPressure, state, everCritical, oom>>
    BY DEF EvictSkipped, EvictBelowCritical, EvictCritical
  <2> QED
    BY <1>0, <2>1
    DEF PressureInv, PressureTypeOK, CriticalSeen, OutOfMemoryJustified, OSNone, OSCritical
<1> QED
  BY <1>1, <1>2, <1>3 DEF PressureInv

\* Every step keeps the invariant.
LEMMA PressureNextInv == PressureInv /\ [PressureNext]_pressureVars => PressureInv'
<1> SUFFICES ASSUME PressureInv, [PressureNext]_pressureVars PROVE PressureInv'
  OBVIOUS
<1>1. CASE UNCHANGED pressureVars
  BY <1>1 DEF PressureInv, PressureTypeOK, OnePassPerEvent, CriticalSeen, OutOfMemoryJustified,
              pressureVars
<1>2. ASSUME NEW os \in OSLevels, Announce(os) PROVE PressureInv'
  BY <1>2, AnnounceIInv
<1>3. CASE Handler
  BY <1>3, HandlerIInv
<1>4. ASSUME NEW c \in Contexts, Boundary(c) \/ Diagnose(c) \/ InBoundary(c)
      PROVE  PressureInv'
  BY <1>4, SampleIInv, ApplyIInv, EvictIInv DEF InBoundary
<1> QED
  BY <1>1, <1>2, <1>3, <1>4 DEF PressureNext

\* The inductive invariant holds in every reachable state.
THEOREM SpecPressureInv == PressureSpec => []PressureInv
<1> QED
  BY PressureInitInv, PressureNextInv, PTL DEF PressureSpec

\* The observer, the handler and the samples keep their shapes.
THEOREM SpecPressureTypeOK == PressureSpec => []PressureTypeOK
<1>1. PressureInv => PressureTypeOK
  BY DEF PressureInv
<1> QED
  BY <1>1, SpecPressureInv, PTL

\* One event provokes at most one forced pass, and GL_OUT_OF_MEMORY needs
\* pressure that has really been critical: for any number of contexts and of
\* events, any ratios and any ordered watermarks.
THEOREM SpecReactionJustified == PressureSpec => []ReactionJustified
<1>1. PressureInv => ReactionJustified
  BY DEF PressureInv, CriticalSeen, ReactionJustified, OutOfMemoryJustified
<1> QED
  BY <1>1, SpecPressureInv, PTL

\* The shared machine settles in every reachable state.
THEOREM SpecSettles == PressureSpec => []Settles
<1>1. PressureInv => Settles
  BY NextStateSettles, RatiosAssumption DEF PressureInv, PressureTypeOK, Settles
<1> QED
  BY <1>1, SpecPressureInv, PTL

\* The shared machine is monotone in every reachable state.
THEOREM SpecMonotone == PressureSpec => []Monotone
<1>1. PressureInv => Monotone
  BY NextStateMonotone, RatiosAssumption DEF PressureInv, PressureTypeOK, Monotone
<1> QED
  BY <1>1, SpecPressureInv, PTL

\* Contexts that agree on the pressure never make the machine flap, and more
\* pressure never lowers its level (nextState in MetalMemoryPressure.h).
THEOREM SpecHysteresisSound == PressureSpec => []HysteresisSound
  BY SpecSettles, SpecMonotone, PTL DEF HysteresisSound

=============================================================================
