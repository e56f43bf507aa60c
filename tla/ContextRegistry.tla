-------------------------- MODULE ContextRegistry --------------------------
(***************************************************************************)
(* The lifecycle of contexts (runtime/AppGLRuntime.cpp): contexts register *)
(* when they are constructed and unregister when they are destroyed, a     *)
(* thread makes one current through a thread-local pointer, and any thread *)
(* may ask for diagnostics, which walk some context's objects under the    *)
(* mutex of the registry.  Threads hold raw pointers: a context's address  *)
(* is free for the next one as soon as its destructor ends.                *)
(*                                                                         *)
(* What the application owes: it destroys a context once.  That it has not *)
(* done so while the context was current to another thread, the history    *)
(* variable disturbed remembers.                                           *)
(***************************************************************************)
EXTENDS Naturals, FiniteSets

CONSTANTS
    Threads, NoThread,
    Addresses,          \* addresses a GLContext can have
    NoContext           \* the null pointer

ASSUME NoThreadAssumption == NoThread \notin Threads
ASSUME NoContextAssumption == NoContext \notin Addresses

VARIABLES
    memory,             \* what is at each address
    liveContexts,       \* liveContexts_
    diagnosticContext,  \* diagnosticContext_
    inventoryValid,     \* lastKnownInventory_.valid
    contextMutex,       \* holder of contextMutex_
    current,            \* gCurrentContext of each thread
    at,                 \* where each thread is in its call
    subject,            \* the context its call is about
    everLive,           \* some context was ever registered
    disturbed           \* some context was destroyed while current elsewhere

registryVars == <<memory, liveContexts, diagnosticContext, inventoryValid,
                  contextMutex, current, at, subject, everLive, disturbed>>

RegistryInit ==
    /\ memory = [c \in Addresses |-> "free"]
    /\ liveContexts = {}
    /\ diagnosticContext = NoContext
    /\ inventoryValid = FALSE
    /\ contextMutex = NoThread
    /\ current = [t \in Threads |-> NoContext]
    /\ at = [t \in Threads |-> "idle"]
    /\ subject = [t \in Threads |-> NoContext]
    /\ everLive = FALSE
    /\ disturbed = FALSE

Goto(t, place, c) ==
    /\ at' = [at EXCEPT ![t] = place]
    /\ subject' = [subject EXCEPT ![t] = c]

-----------------------------------------------------------------------------
\* new GLContext: the implementation is built, then the context registers.
Construct(t) ==
    /\ at[t] = "idle"
    /\ \E c \in Addresses :
          /\ memory[c] = "free"
          /\ memory' = [memory EXCEPT ![c] = "built"]
          /\ Goto(t, "register", c)
    /\ UNCHANGED <<liveContexts, diagnosticContext, inventoryValid, contextMutex,
                   current, everLive, disturbed>>

\* registerContext.
Register(t) ==
    LET c == subject[t]
    IN  /\ at[t] = "register"
        /\ contextMutex = NoThread
        /\ liveContexts' = liveContexts \cup {c}
        /\ diagnosticContext' = c
        /\ memory' = [memory EXCEPT ![c] = "live"]
        /\ everLive' = TRUE
        /\ Goto(t, "idle", NoContext)
        /\ UNCHANGED <<inventoryValid, contextMutex, current, disturbed>>

\* makeCurrent, before and under the mutex.
MakeCurrent(t) ==
    /\ at[t] = "idle"
    /\ \E c \in {d \in Addresses : memory[d] = "live"} \cup {NoContext} :
          /\ current' = [current EXCEPT ![t] = c]
          /\ Goto(t, "note", c)
    /\ UNCHANGED <<memory, liveContexts, diagnosticContext, inventoryValid,
                   contextMutex, everLive, disturbed>>

\* *liveContexts_.begin(), or null.
AnyOf(live) == IF live = {} THEN {NoContext} ELSE live

NoteCurrent(t) ==
    LET c == subject[t]
    IN  /\ at[t] = "note"
        /\ contextMutex = NoThread
        /\ \/ c \in liveContexts /\ diagnosticContext' = c
           \/ c = NoContext /\ diagnosticContext' \in AnyOf(liveContexts)
           \/ c \notin liveContexts \cup {NoContext} /\ UNCHANGED diagnosticContext
        /\ Goto(t, "idle", NoContext)
        /\ UNCHANGED <<memory, liveContexts, inventoryValid, contextMutex, current,
                       everLive, disturbed>>

-----------------------------------------------------------------------------
MayDestroy(c) == memory[c] = "live"

\* unregisterContext: the final inventory, the registry, the thread's own
\* pointer.  What another thread holds current is out of its reach.
CaptureInventory == inventoryValid' = TRUE

ClearCurrent(t, c) ==
    current' = [current EXCEPT ![t] = IF @ = c THEN NoContext ELSE @]

Unregister(t) ==
    /\ at[t] = "idle"
    /\ contextMutex = NoThread
    /\ \E c \in Addresses :
          /\ MayDestroy(c)
          /\ CaptureInventory
          /\ liveContexts' = liveContexts \ {c}
          /\ diagnosticContext' \in
                IF diagnosticContext = c THEN AnyOf(liveContexts \ {c})
                ELSE {diagnosticContext}
          /\ ClearCurrent(t, c)
          /\ disturbed' = (disturbed \/ \E u \in Threads \ {t} : current[u] = c)
          /\ memory' = [memory EXCEPT ![c] = "dying"]
          /\ Goto(t, "free", c)
    /\ UNCHANGED <<contextMutex, everLive>>

\* The rest of the destructor, without the mutex.
Free(t) ==
    /\ at[t] = "free"
    /\ memory' = [memory EXCEPT ![subject[t]] = "free"]
    /\ Goto(t, "idle", NoContext)
    /\ UNCHANGED <<liveContexts, diagnosticContext, inventoryValid, contextMutex,
                   current, everLive, disturbed>>

-----------------------------------------------------------------------------
\* diagnosticContextLocked.
DiagnosticContextFor_Unchecked(t) ==
    IF current[t] # NoContext THEN current[t] ELSE diagnosticContext

DiagnosticContextFor(t) ==
    IF current[t] \in liveContexts THEN current[t]
    ELSE IF diagnosticContext \in liveContexts THEN diagnosticContext
    ELSE NoContext

\* writeDiagnosticsJSON and writeLiveDiagnosticsJSON: the mutex is held from the
\* choice of the context to the end of the walk.
StartWalk_ReleasesMutex(t) ==
    /\ at[t] = "idle"
    /\ contextMutex = NoThread
    /\ Goto(t, "walk", DiagnosticContextFor(t))
    /\ UNCHANGED <<memory, liveContexts, diagnosticContext, inventoryValid,
                   contextMutex, current, everLive, disturbed>>

StartWalk(t) ==
    /\ at[t] = "idle"
    /\ contextMutex = NoThread
    /\ contextMutex' = t
    /\ Goto(t, "walk", DiagnosticContextFor(t))
    /\ UNCHANGED <<memory, liveContexts, diagnosticContext, inventoryValid, current,
                   everLive, disturbed>>

EndWalk(t) ==
    /\ at[t] = "walk"
    /\ contextMutex' = NoThread
    /\ Goto(t, "idle", NoContext)
    /\ UNCHANGED <<memory, liveContexts, diagnosticContext, inventoryValid, current,
                   everLive, disturbed>>

RegistryNext ==
    \E t \in Threads :
        \/ Construct(t) \/ Register(t)
        \/ MakeCurrent(t) \/ NoteCurrent(t)
        \/ Unregister(t) \/ Free(t)
        \/ StartWalk(t) \/ EndWalk(t)

RegistrySpec == RegistryInit /\ [][RegistryNext]_registryVars

-----------------------------------------------------------------------------
(* Properties                                                              *)

Memory == {"free", "built", "live", "dying"}
Places == {"idle", "register", "note", "free", "walk"}

\* The types; a context is registered exactly while it is neither under
\* construction nor being destroyed, and each of those is one thread's business.
RegistryTypeOK ==
    /\ memory \in [Addresses -> Memory]
    /\ liveContexts = {c \in Addresses : memory[c] = "live"}
    /\ diagnosticContext \in Addresses \cup {NoContext}
    /\ inventoryValid \in BOOLEAN
    /\ contextMutex \in Threads \cup {NoThread}
    /\ current \in [Threads -> Addresses \cup {NoContext}]
    /\ at \in [Threads -> Places]
    /\ subject \in [Threads -> Addresses \cup {NoContext}]
    /\ everLive \in BOOLEAN
    /\ disturbed \in BOOLEAN
    /\ \A t \in Threads :
          /\ at[t] = "walk" <=> contextMutex = t
          /\ at[t] = "register" => subject[t] \in Addresses /\ memory[subject[t]] = "built"
          /\ at[t] = "free" => subject[t] \in Addresses /\ memory[subject[t]] = "dying"
          /\ \A u \in Threads \ {t} :
                at[t] \in {"register", "free"} /\ at[u] \in {"register", "free"}
                   => subject[t] # subject[u]

\* The context that diagnostics walk stays whole until the walk ends, whoever
\* destroys contexts meanwhile and whatever the walking thread holds current.
WalkedContextAlive ==
    \A t \in Threads :
        at[t] = "walk" /\ subject[t] # NoContext => memory[subject[t]] = "live"

\* Diagnostics are about a live context whenever there is one, although threads
\* make contexts current that others destroy meanwhile.
DiagnosticContextLive ==
    diagnosticContext \in AnyOf(liveContexts)

\* A walk that finds no context has an inventory to report, unless no context
\* ever existed.
PostMortemAvailable ==
    \A t \in Threads :
        at[t] = "walk" /\ subject[t] = NoContext /\ everLive => inventoryValid

\* A diagnostics walk always has something to report that exists: a context that
\* stays whole to its end, or an inventory taken from the last one.
WalkSound == WalkedContextAlive /\ PostMortemAvailable

\* A thread's current context exists, as long as the application has destroyed
\* none that was current to another thread.
CurrentAlive ==
    ~disturbed =>
        \A t \in Threads : current[t] # NoContext => memory[current[t]] = "live"

\* What the runtime remembers of a context outlives no context: neither the
\* registry's choice nor a thread's.
RememberedAlive == DiagnosticContextLive /\ CurrentAlive

\* No address of a context that the runtime keeps, in a walk, in the registry
\* or in a thread, is used after the context is gone.
RegistrySound == WalkSound /\ RememberedAlive

=============================================================================
