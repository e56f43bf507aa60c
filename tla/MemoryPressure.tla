--------------------------- MODULE MemoryPressure ---------------------------
(***************************************************************************)
(* Memory pressure, from the operating system's event to the eviction pass *)
(* of a GL context.                                                        *)
(*                                                                         *)
(* The process has one observer (runtime/AppGLMemoryPressure.mm).  Its     *)
(* event handler, on a serial dispatch queue, publishes the level the OS   *)
(* announced and then latches the highest level seen into an atomic peak   *)
(* with a compare-exchange loop.  Every context samples the observer at    *)
(* its frame boundaries (GLContext.mm, maybeRunPressureEvictionPass): it   *)
(* reads the published level, takes the peak, and only then enters the     *)
(* mutex under which the hysteresis machine of MetalMemoryPressure.h       *)
(* steps.  The machine is shared by all contexts; diagnostics sample it    *)
(* without taking the peak.                                                *)
(*                                                                         *)
(* Each load, exchange and critical section is a step of its own.  The     *)
(* selection and destruction of the caches that a pass evicts is left to   *)
(* its outcome.  Eviction (feature r5) is taken to be on.                  *)
(***************************************************************************)
EXTENDS Integers

CONSTANTS
    Contexts,      \* GL contexts, each with a thread of its own
    Ratios,        \* working-set ratios (per ten thousand) a context may see
    Watermarks,    \* thresholds of the device's memory class
    MaxEvents      \* bound on the events the OS delivers

Idle     == 0
Soft     == 1
Hard     == 2
Critical == 3
Levels   == {Idle, Soft, Hard, Critical}

OSNone     == 0
OSWarning  == 1
OSCritical == 2
OSLevels   == {OSNone, OSWarning, OSCritical}

\* The ratio of a device that reports no recommended working set.
NoRatio == -1

ASSUME WatermarksAssumption ==
    /\ Watermarks \in [{"softTarget", "hardTarget", "criticalTarget",
                        "softExit", "hardExit", "criticalExit"} -> Nat]
    /\ Watermarks.softExit <= Watermarks.softTarget
    /\ Watermarks.hardExit <= Watermarks.hardTarget
    /\ Watermarks.criticalExit <= Watermarks.criticalTarget
    /\ Watermarks.softTarget <= Watermarks.hardTarget
    /\ Watermarks.hardTarget <= Watermarks.criticalTarget
    /\ Watermarks.softExit <= Watermarks.hardExit
    /\ Watermarks.hardExit <= Watermarks.criticalExit

ASSUME RatiosAssumption == Ratios \subseteq Nat \cup {NoRatio}
ASSUME MaxEventsAssumption == MaxEvents \in Nat

VARIABLES
    osPressure,           \* level published by the last event
    pendingPressurePeak,  \* highest level latched and not yet taken
    handler,              \* the event handler: where it is, what it latches
    state,                \* the hysteresis machine, guarded by stateMutex
    ctx,                  \* per context: the boundary or sample under way
    lastLevel,            \* per context: level of its last effective pass
    events,               \* history: events that announced some pressure
    consumes,             \* history: boundaries that took a peak
    everCritical,         \* history: critical pressure has been seen
    oom                   \* history: GL_OUT_OF_MEMORY has been raised

pressureVars == <<osPressure, pendingPressurePeak, handler, state, ctx, lastLevel,
                  events, consumes, everCritical, oom>>

Higher_Sum(a, b) == a + b

Higher(a, b) == IF a >= b THEN a ELSE b

\* The level a context reacts to when the OS announces os.
PeakFor(os) == IF os = OSCritical THEN Critical
               ELSE IF os = OSWarning THEN Soft ELSE Idle

NextState_ExitsAtTarget(was, os, ratio) ==
    CASE os = OSCritical -> Critical
      [] os # OSCritical /\ ratio = NoRatio -> PeakFor(os)
      [] OTHER -> IF ratio >= Watermarks.criticalTarget THEN Critical
                  ELSE IF ratio >= (IF was = Critical
                                    THEN Watermarks.hardExit
                                    ELSE Watermarks.hardTarget) THEN Hard
                  ELSE IF ratio >= Watermarks.softExit THEN Soft
                  ELSE Idle

\* One step of the hysteresis machine: a level is entered at its target and
\* left at its exit watermark.
NextState(was, os, ratio) ==
    LET critical == IF was = Critical THEN Watermarks.criticalExit
                                          ELSE Watermarks.criticalTarget
        hard     == IF was \in {Hard, Critical} THEN Watermarks.hardExit
                                                    ELSE Watermarks.hardTarget
        soft     == IF was = Idle THEN Watermarks.softTarget
                                      ELSE Watermarks.softExit
    IN  IF os = OSCritical \/ ratio = NoRatio THEN PeakFor(os)
        ELSE IF ratio >= critical THEN Critical
        ELSE IF ratio >= hard THEN Hard
        ELSE IF ratio >= soft \/ os = OSWarning THEN Soft
        ELSE Idle

-----------------------------------------------------------------------------
NoSample == [pc |-> "idle", purpose |-> "none", os |-> OSNone,
             level |-> Idle, relief |-> TRUE]

PressureInit ==
    /\ osPressure = OSNone
    /\ pendingPressurePeak = Idle
    /\ handler = [pc |-> "idle", peak |-> Idle, current |-> Idle]
    /\ state = Idle
    /\ ctx = [c \in Contexts |-> NoSample]
    /\ lastLevel = [c \in Contexts |-> Idle]
    /\ events = 0
    /\ consumes = 0
    /\ everCritical = FALSE
    /\ oom = FALSE

-----------------------------------------------------------------------------
(* The event handler.                                                      *)

\* recordPressureEvent publishes the level; an event that ends the pressure
\* latches nothing.
Announce(os) ==
    /\ handler.pc = "idle"
    /\ events < MaxEvents
    /\ osPressure' = os
    /\ handler' = IF os = OSNone
                  THEN handler
                  ELSE [pc |-> "load", peak |-> PeakFor(os), current |-> Idle]
    /\ events' = IF os = OSNone THEN events ELSE events + 1
    /\ everCritical' = (everCritical \/ os = OSCritical)
    /\ UNCHANGED <<pendingPressurePeak, state, ctx, lastLevel, consumes, oom>>

\* What the handler does once it knows that the peak is current.
Seen(was) ==
    handler' = IF was < handler.peak
               THEN [handler EXCEPT !.pc = "exchange", !.current = was]
               ELSE [pc |-> "idle", peak |-> Idle, current |-> Idle]

LoadPeak ==
    /\ handler.pc = "load"
    /\ Seen(pendingPressurePeak)
    /\ UNCHANGED <<osPressure, pendingPressurePeak, state, ctx, lastLevel,
                   events, consumes, everCritical, oom>>

ExchangePeak_GivesUp ==
    /\ handler.pc = "exchange"
    /\ IF pendingPressurePeak = handler.current
       THEN pendingPressurePeak' = handler.peak
       ELSE UNCHANGED pendingPressurePeak
    /\ handler' = [pc |-> "idle", peak |-> Idle, current |-> Idle]
    /\ UNCHANGED <<osPressure, state, ctx, lastLevel, events, consumes,
                   everCritical, oom>>

\* compare_exchange_weak: it fails when a context took the peak meanwhile,
\* and may fail for no reason; either way the loop looks again.
ExchangePeak ==
    /\ handler.pc = "exchange"
    /\ \/ /\ pendingPressurePeak = handler.current
          /\ pendingPressurePeak' = handler.peak
          /\ handler' = [pc |-> "idle", peak |-> Idle, current |-> Idle]
       \/ /\ Seen(pendingPressurePeak)
          /\ UNCHANGED pendingPressurePeak
    /\ UNCHANGED <<osPressure, state, ctx, lastLevel, events, consumes,
                   everCritical, oom>>

Handler == LoadPeak \/ ExchangePeak

-----------------------------------------------------------------------------
(* A context.                                                              *)

StartSample(c, purpose) ==
    /\ ctx[c].pc = "idle"
    /\ ctx' = [ctx EXCEPT ![c].pc = "sampling", ![c].purpose = purpose]
    /\ UNCHANGED <<osPressure, pendingPressurePeak, handler, state, lastLevel,
                   events, consumes, everCritical, oom>>

\* markR5Boundary, after a present or a finish that completed.
Boundary(c) == StartSample(c, "boundary")

\* Diagnostics sample the observer on the thread that asks for them.
Diagnose(c) == StartSample(c, "diagnose")

LoadOSPressure(c) ==
    /\ ctx[c].pc = "sampling"
    /\ ctx' = [ctx EXCEPT
         ![c].os = osPressure,
         ![c].pc = IF ctx[c].purpose = "boundary" THEN "take" ELSE "apply"]
    /\ UNCHANGED <<osPressure, pendingPressurePeak, handler, state, lastLevel,
                   events, consumes, everCritical, oom>>

TakePeak_LeavesIt(c) ==
    /\ ctx[c].pc = "take"
    /\ ctx' = [ctx EXCEPT ![c].pc = "apply", ![c].level = pendingPressurePeak]
    /\ consumes' = IF pendingPressurePeak = Idle THEN consumes ELSE consumes + 1
    /\ UNCHANGED <<osPressure, pendingPressurePeak, handler, state, lastLevel,
                   events, everCritical, oom>>

\* sampleAndConsumePending exchanges the peak for Idle.
TakePeak(c) ==
    /\ ctx[c].pc = "take"
    /\ ctx' = [ctx EXCEPT ![c].pc = "apply", ![c].level = pendingPressurePeak]
    /\ pendingPressurePeak' = Idle
    /\ consumes' = IF pendingPressurePeak = Idle THEN consumes ELSE consumes + 1
    /\ UNCHANGED <<osPressure, handler, state, lastLevel, events,
                   everCritical, oom>>

\* Under stateMutex the machine steps, on the level read before the lock and
\* the ratio of this context.  The ratio was read earlier too; any ratio may
\* have been, so it is chosen here.
Apply(c, purpose, ratio) ==
    /\ ctx[c].pc = "apply"
    /\ ctx[c].purpose = purpose
    /\ state' = NextState(state, ctx[c].os, ratio)
    /\ everCritical' = (everCritical \/ ratio >= Watermarks.criticalTarget)
    /\ UNCHANGED <<osPressure, pendingPressurePeak, handler, events, consumes>>

\* The decision of maybeRunPressureEvictionPass on the level sampled and the
\* peak taken.
ApplyBoundary(c) ==
    \E ratio \in Ratios :
        LET level == Higher(NextState(state, ctx[c].os, ratio), ctx[c].level)
        IN  /\ Apply(c, "boundary", ratio)
            /\ UNCHANGED oom
            /\ \/ /\ level = Idle
                  /\ lastLevel' = [lastLevel EXCEPT ![c] = Idle]
                  /\ ctx' = [ctx EXCEPT ![c] = NoSample]
               \/ /\ level # Idle
                  /\ level = lastLevel[c]
                  /\ ctx[c].level = Idle
                  /\ ctx' = [ctx EXCEPT ![c] = NoSample]
                  /\ UNCHANGED lastLevel
               \/ /\ level # Idle
                  /\ level # lastLevel[c] \/ ctx[c].level # Idle
                  /\ ctx' = [ctx EXCEPT ![c] = [NoSample EXCEPT !.pc = "evict",
                                                               !.level = level]]
                  /\ UNCHANGED lastLevel

ApplyDiagnose(c) ==
    /\ \E ratio \in Ratios : Apply(c, "diagnose", ratio)
    /\ ctx' = [ctx EXCEPT ![c] = NoSample]
    /\ UNCHANGED <<lastLevel, oom>>

\* evictR5DerivedCaches gives up: work is in flight and there is nothing to
\* select, or the drain failed.  The level is not remembered.
EvictSkipped(c) ==
    /\ ctx[c].pc = "evict"
    /\ ctx' = [ctx EXCEPT ![c] = NoSample]
    /\ UNCHANGED <<osPressure, pendingPressurePeak, handler, state, lastLevel,
                   events, consumes, everCritical, oom>>

\* A pass below Critical.  When every candidate was too recently used nothing
\* is evicted and the level is not remembered.
EvictBelowCritical(c) ==
    /\ ctx[c].pc = "evict"
    /\ ctx[c].level # Critical
    /\ \E deferredByRetention \in BOOLEAN :
          lastLevel' = IF deferredByRetention THEN lastLevel
                       ELSE [lastLevel EXCEPT ![c] = ctx[c].level]
    /\ ctx' = [ctx EXCEPT ![c] = NoSample]
    /\ UNCHANGED <<osPressure, pendingPressurePeak, handler, state, events,
                   consumes, everCritical, oom>>

\* A pass at Critical is followed by a second sample, without the peak.
EvictCritical(c) ==
    /\ ctx[c].pc = "evict"
    /\ ctx[c].level = Critical
    /\ \E relief \in BOOLEAN :
          ctx' = [ctx EXCEPT ![c] = [NoSample EXCEPT !.pc = "sampling",
                                                     !.purpose = "recheck",
                                                     !.relief = relief]]
    /\ UNCHANGED <<osPressure, pendingPressurePeak, handler, state, lastLevel,
                   events, consumes, everCritical, oom>>

\* maybeLatchR5CriticalPressureOOM, and the error the boundary ends with.
ApplyRecheck(c) ==
    /\ \E ratio \in Ratios : Apply(c, "recheck", ratio)
    /\ lastLevel' = [lastLevel EXCEPT ![c] = Critical]
    /\ oom' = (oom \/ (state' = Critical /\ ~ctx[c].relief))
    /\ ctx' = [ctx EXCEPT ![c] = NoSample]

InBoundary(c) ==
    \/ LoadOSPressure(c)
    \/ TakePeak(c)
    \/ ApplyBoundary(c)
    \/ ApplyDiagnose(c)
    \/ EvictSkipped(c)
    \/ EvictBelowCritical(c)
    \/ EvictCritical(c)
    \/ ApplyRecheck(c)

PressureNext ==
    \/ \E os \in OSLevels : Announce(os)
    \/ Handler
    \/ \E c \in Contexts : Boundary(c) \/ Diagnose(c) \/ InBoundary(c)

\* A handler and a boundary that have begun go on; the application keeps
\* reaching boundaries in some context, whatever diagnostics are read.
Fairness ==
    /\ WF_pressureVars(Handler)
    /\ \A c \in Contexts : WF_pressureVars(InBoundary(c))
    /\ SF_pressureVars(\E c \in Contexts : Boundary(c))

PressureSpec == PressureInit /\ [][PressureNext]_pressureVars /\ Fairness

-----------------------------------------------------------------------------
(* Properties                                                              *)

\* The shapes of the observer's atomics, the handler and the samples.
PressureTypeOK ==
    /\ osPressure \in OSLevels
    /\ pendingPressurePeak \in Levels
    /\ handler \in [pc : {"idle", "load", "exchange"}, peak : Levels,
                    current : Levels]
    /\ state \in Levels
    /\ ctx \in [Contexts -> [pc : {"idle", "sampling", "take", "apply", "evict"},
                             purpose : {"none", "boundary", "recheck", "diagnose"},
                             os : OSLevels, level : Levels, relief : BOOLEAN]]
    /\ lastLevel \in [Contexts -> Levels]
    /\ events \in Nat
    /\ consumes \in Nat
    /\ everCritical \in BOOLEAN
    /\ oom \in BOOLEAN

\* One event provokes at most one forced pass: boundaries take a peak no more
\* often than events latched one, though the published level and the latched
\* peak are read apart from each other.
OnePassPerEvent ==
    consumes + (IF pendingPressurePeak = Idle THEN 0 ELSE 1)
             + (IF handler.pc = "idle" THEN 0 ELSE 1) <= events

\* GL_OUT_OF_MEMORY is raised only if pressure has really been critical: the
\* hysteresis machine never climbs to Critical out of samples of several
\* contexts none of which saw it, even when they apply stale levels.
OutOfMemoryJustified ==
    oom \/ state = Critical => everCritical

\* Contexts react to what has happened only: to each event with one pass, and
\* with an error only to critical pressure.
ReactionJustified == OnePassPerEvent /\ OutOfMemoryJustified

\* The machine settles: from any state it can be in, a second sample of the
\* same inputs, by whatever context, changes nothing.  Contexts that agree on
\* the pressure therefore never make each other's passes flap.
Settles ==
    \A os \in OSLevels, ratio \in Ratios :
        LET once == NextState(state, os, ratio)
        IN  NextState(once, os, ratio) = once

\* The machine is monotone: more pressure, from the OS or in the ratio, never
\* leads to a lower level than less pressure would have.
Monotone ==
    \A os1, os2 \in OSLevels : \A r1, r2 \in Ratios \ {NoRatio} :
        os1 <= os2 /\ r1 <= r2
            => NextState(state, os1, r1) <= NextState(state, os2, r2)

\* The hysteresis is sound in both respects.
HysteresisSound == Settles /\ Monotone

\* No event is lost: whatever the interleaving of the handler's loop with the
\* contexts' exchanges, a warning or critical event is followed by a pass at
\* its level or above, in some context, even if the pressure ends before any
\* boundary.
EventAnswered ==
    \A peak \in {Soft, Critical} :
        (handler.pc # "idle" /\ handler.peak = peak)
            ~> \E c \in Contexts : ctx[c].pc = "evict" /\ ctx[c].level >= peak

=============================================================================
