-------------------------- MODULE ProgramLifetime --------------------------
\* How long a shader, a program and the things derived from them live.
\*
\* Both kinds of object are named from one pool, lowest free name first, so
\* a name is used again as soon as its object is erased.  glDelete* only
\* flags an object that is still used: a shader lives on while programs
\* attach it, which a counter in the shader records, a program while it is
\* current or while a program pipeline refers to it, which is recomputed from
\* the pipelines whenever a reference goes away.  A call that takes the last
\* reference away has to erase the program, and with it the flagged shaders
\* that only it attached.
\*
\* The calls come from the thread of the context, one at a time.  A call that
\* fails its validation changes nothing and is not an action; so is every
\* call that switches programs while transform feedback is active.
EXTENDS Naturals, FiniteSets, Functions

CONSTANTS
    MaxName,        \* bound: names of shaders and programs are 1 .. MaxName
    Pipelines,      \* names of program pipelines
    Stages,         \* the shader stages of the instance, Vertex among them
    Vertex,
    LosesStages     \* whether a relink may drop a stage the program is
                    \* staged for

ASSUME LifetimeAssumption ==
    /\ MaxName \in Nat \ {0}
    /\ Vertex \in Stages
    /\ Stages \cap {"activeShaderProgram"} = {}
    /\ LosesStages \in BOOLEAN

VARIABLES
    shaders,        \* ObjectTable: name -> GLShaderObject
    programs,       \* ObjectTable: name -> GLProgramObject
    current,        \* the current program, or 0
    pipelines,      \* ObjectTable: name -> the programs a pipeline refers to
    bound,          \* currentProgramPipeline: {} or one name
    resolved        \* the programs samplerResolveCache has an entry for

vars == <<shaders, programs, current, pipelines, bound, resolved>>

Names == 1 .. MaxName

\* The references of a pipeline: one program per stage, and the one that
\* glUniform addresses.
Fields == Stages \cup {"activeShaderProgram"}

GLShaderObject ==
    [stage : Stages, deleteRequested : BOOLEAN, attachmentCount : Nat]

\* An executable with no stage is no executable: the program is not linked.
GLProgramObject ==
    [deleteRequested : BOOLEAN, attachedShaders : SUBSET Names,
     linkedStageBits : SUBSET Stages]

NewShader(stage) ==
    [stage |-> stage, deleteRequested |-> FALSE, attachmentCount |-> 0]

NewProgram ==
    [deleteRequested |-> FALSE, attachedShaders |-> {}, linkedStageBits |-> {}]

Linked(p) == p \in DOMAIN programs /\ programs[p].linkedStageBits # {}

Put(table, name, object) ==
    [n \in DOMAIN table \cup {name} |->
        IF n = name THEN object ELSE table[n]]

\* reserveSharedShaderProgramName: the lowest name free in both tables.
Unreserved_OwnTable == Names \ DOMAIN shaders

Unreserved == Names \ (DOMAIN shaders \cup DOMAIN programs)

Lowest(S, n) == n \in S /\ \A m \in S : n <= m

Init ==
    /\ shaders = <<>>
    /\ programs = <<>>
    /\ current = 0
    /\ pipelines = <<>>
    /\ bound = {}
    /\ resolved = {}

-----------------------------------------------------------------------------
\* programPipelineReferencesProgram, over the pipelines pipes.
Referenced_ByStages(pipes, p) ==
    \E q \in DOMAIN pipes : \E f \in Stages : pipes[q][f] = p

Referenced(pipes, p) ==
    \E q \in DOMAIN pipes : \E f \in Fields : pipes[q][f] = p

\* finalizeDeletedProgramIfUnused for each of the programs S, once the
\* references are cur and pipes: those of them it erases.
Finalized(S, cur, pipes) ==
    {p \in S \cap DOMAIN programs :
        /\ programs[p].deleteRequested
        /\ p # cur
        /\ ~Referenced(pipes, p)}

\* finalizeProgramDeletion for each of the programs E: what is left of the
\* count of shader s, and the shaders that are left.
CountWithout(s, E) ==
    LET lost == Cardinality({p \in E : s \in programs[p].attachedShaders})
    IN  IF shaders[s].attachmentCount > lost
        THEN shaders[s].attachmentCount - lost ELSE 0

ShadersWithout_Uncounted(E) == shaders

ShadersWithout(E) ==
    [s \in {t \in DOMAIN shaders :
                \/ ~shaders[t].deleteRequested
                \/ CountWithout(t, E) > 0
                \/ \A p \in E : t \notin programs[p].attachedShaders} |->
        [shaders[s] EXCEPT !.attachmentCount = CountWithout(s, E)]]

Erase(E) ==
    /\ programs' = Restrict(programs, DOMAIN programs \ E)
    /\ shaders' = ShadersWithout(E)
    /\ resolved' = resolved \ E

-----------------------------------------------------------------------------
\* Shader and program objects.

CreateShader(stage) ==
    /\ \E n \in Names :
        /\ Lowest(Unreserved, n)
        /\ shaders' = Put(shaders, n, NewShader(stage))
    /\ UNCHANGED <<programs, current, pipelines, bound, resolved>>

CreateProgram ==
    /\ \E n \in Names :
        /\ Lowest(Unreserved, n)
        /\ programs' = Put(programs, n, NewProgram)
    /\ UNCHANGED <<shaders, current, pipelines, bound, resolved>>

\* glCreateShaderProgramv: the shader is created first and deleted before the
\* call returns, so the program has the second free name.  The program is
\* returned also when the shader does not compile or the link fails.
CreateShaderProgram(stage, ok) ==
    /\ \E s, n \in Names :
        /\ Lowest(Unreserved, s)
        /\ Lowest(Unreserved \ {s}, n)
        /\ programs' = Put(programs, n,
                [NewProgram EXCEPT !.linkedStageBits = IF ok THEN {stage} ELSE {}])
    /\ UNCHANGED <<shaders, current, pipelines, bound, resolved>>

DeleteShader(s) ==
    /\ s \in DOMAIN shaders
    /\ shaders' = IF shaders[s].attachmentCount = 0
                  THEN Restrict(shaders, DOMAIN shaders \ {s})
                  ELSE [shaders EXCEPT ![s].deleteRequested = TRUE]
    /\ UNCHANGED <<programs, current, pipelines, bound, resolved>>

\* A program in use is flagged, any other is erased at once.
DeleteProgram(p) ==
    /\ p \in DOMAIN programs
    /\ IF p = current \/ Referenced(pipelines, p)
       THEN /\ programs' = [programs EXCEPT ![p].deleteRequested = TRUE]
            /\ UNCHANGED <<shaders, resolved>>
       ELSE Erase({p})
    /\ UNCHANGED <<current, pipelines, bound>>

\* Flagged objects can still be attached, linked and used by name.
AttachShader(p, s) ==
    /\ p \in DOMAIN programs /\ s \in DOMAIN shaders
    /\ s \notin programs[p].attachedShaders
    /\ programs' = [programs EXCEPT ![p].attachedShaders = @ \cup {s}]
    /\ shaders' = [shaders EXCEPT ![s].attachmentCount = @ + 1]
    /\ UNCHANGED <<current, pipelines, bound, resolved>>

DetachShader(p, s) ==
    /\ p \in DOMAIN programs
    /\ s \in programs[p].attachedShaders
    /\ programs' = [programs EXCEPT ![p].attachedShaders = @ \ {s}]
    /\ LET left == CountWithout(s, {p})
       IN  shaders' = IF shaders[s].deleteRequested /\ left = 0
                      THEN Restrict(shaders, DOMAIN shaders \ {s})
                      ELSE [shaders EXCEPT ![s].attachmentCount = left]
    /\ UNCHANGED <<current, pipelines, bound, resolved>>

\* The stages program p is staged for, in any pipeline.
StagedFor(p) ==
    {f \in Stages : \E q \in DOMAIN pipelines : pipelines[q][f] = p}

\* glLinkProgram.  A relink that fails leaves a program that is current or
\* staged unlinked; only one with an ARB_geometry_shader4 directive keeps its
\* previous executable, and then nothing changes here.
LinkProgram(p) ==
    /\ p \in DOMAIN programs
    /\ LET bits == {shaders[s].stage : s \in programs[p].attachedShaders}
       IN  \/ /\ bits # {}
              /\ LosesStages \/ StagedFor(p) \subseteq bits
              /\ programs' = [programs EXCEPT ![p].linkedStageBits = bits]
           \/ programs' = [programs EXCEPT ![p].linkedStageBits = {}]
    /\ UNCHANGED <<shaders, current, pipelines, bound, resolved>>

-----------------------------------------------------------------------------
\* What uses programs.

UseProgram(p) ==
    /\ p = 0 \/ Linked(p)
    /\ current' = p
    /\ Erase(Finalized({current}, p, pipelines))
    /\ UNCHANGED <<pipelines, bound>>

\* glGenProgramPipelines, glCreateProgramPipelines.
CreatePipeline(q) ==
    /\ q \notin DOMAIN pipelines
    /\ pipelines' = Put(pipelines, q, [f \in Fields |-> 0])
    /\ UNCHANGED <<shaders, programs, current, bound, resolved>>

DeletePipeline_Unfinalized(q) ==
    /\ q \in DOMAIN pipelines
    /\ bound' = bound \ {q}
    /\ pipelines' = Restrict(pipelines, DOMAIN pipelines \ {q})
    /\ UNCHANGED <<shaders, programs, current, resolved>>

DeletePipeline(q) ==
    /\ q \in DOMAIN pipelines
    /\ bound' = bound \ {q}
    /\ pipelines' = Restrict(pipelines, DOMAIN pipelines \ {q})
    /\ Erase(Finalized({pipelines[q][f] : f \in Fields}, current, pipelines'))
    /\ UNCHANGED current

BindPipeline(binding) ==
    /\ binding \subseteq DOMAIN pipelines
    /\ bound' = binding
    /\ UNCHANGED <<shaders, programs, current, pipelines, resolved>>

\* glUseProgramStages: a stage the program has no executable for is emptied.
\* Every program of the model is separable: one that is not is used less.
\* A program that is put in its own place is not among the replaced ones.
UseProgramStages(q, S, p) ==
    LET bits == IF p = 0 THEN {} ELSE programs[p].linkedStageBits
    IN  /\ q \in DOMAIN pipelines
        /\ p = 0 \/ Linked(p)
        /\ pipelines' = [pipelines EXCEPT ![q] =
                [f \in Fields |-> IF f \notin S THEN @[f]
                                  ELSE IF f \in bits THEN p ELSE 0]]
        /\ Erase(Finalized({pipelines[q][f] : f \in S} \ {p}, current, pipelines'))
        /\ UNCHANGED <<current, bound>>

ActiveShaderProgram(q, p) ==
    /\ q \in DOMAIN pipelines
    /\ p = 0 \/ Linked(p)
    /\ pipelines' = [pipelines EXCEPT ![q].activeShaderProgram = p]
    /\ Erase(Finalized({pipelines[q].activeShaderProgram} \ {p}, current, pipelines'))
    /\ UNCHANGED <<current, bound>>

\* resolveDrawProgram, resolveSamplerBindings: a draw resolves the samplers of
\* the current program, or of the one in the vertex stage of the pipeline,
\* and keeps the result under the name of the program.
Draw ==
    \E p \in Names :
        /\ Linked(p)
        /\ \/ p = current
           \/ current = 0 /\ \E q \in bound : pipelines[q][Vertex] = p
        /\ resolved' = resolved \cup {p}
        /\ UNCHANGED <<shaders, programs, current, pipelines, bound>>

Next ==
    \/ \E stage \in Stages :
        CreateShader(stage) \/ \E ok \in BOOLEAN : CreateShaderProgram(stage, ok)
    \/ CreateProgram
    \/ \E n \in Names : DeleteShader(n) \/ DeleteProgram(n) \/ LinkProgram(n)
    \/ \E p, s \in Names : AttachShader(p, s) \/ DetachShader(p, s)
    \/ \E p \in Names \cup {0} : UseProgram(p)
    \/ \E q \in Pipelines : CreatePipeline(q) \/ DeletePipeline(q)
    \/ \E b \in {{}} \cup {{q} : q \in Pipelines} : BindPipeline(b)
    \/ \E q \in Pipelines, S \in SUBSET Stages \ {{}}, p \in Names \cup {0} :
        UseProgramStages(q, S, p)
    \/ \E q \in Pipelines, p \in Names \cup {0} : ActiveShaderProgram(q, p)
    \/ Draw

Spec == Init /\ [][Next]_vars

-----------------------------------------------------------------------------
\* Types; and a name denotes a shader or a program, never both
\* (reserveSharedShaderProgramName).
TypeOK ==
    /\ DOMAIN shaders \cap DOMAIN programs = {}
    /\ DOMAIN shaders \subseteq Names
    /\ \A s \in DOMAIN shaders : shaders[s] \in GLShaderObject
    /\ DOMAIN programs \subseteq Names
    /\ \A p \in DOMAIN programs : programs[p] \in GLProgramObject
    /\ current \in Names \cup {0}
    /\ DOMAIN pipelines \subseteq Pipelines
    /\ \A q \in DOMAIN pipelines : pipelines[q] \in [Fields -> Names \cup {0}]
    /\ bound \subseteq Pipelines
    /\ resolved \subseteq Names

Attaching(s) == {p \in DOMAIN programs : s \in programs[p].attachedShaders}

\* The count that keeps a deleted shader resident is the number of programs
\* that attach it, however attachments, deletions and the deletions of the
\* programs themselves were ordered.
CountsExact ==
    \A s \in DOMAIN shaders :
        shaders[s].attachmentCount = Cardinality(Attaching(s))

\* What is current, staged, bound, attached or cached exists.  An erased name
\* is given to the next object, so a reference to one would soon denote an
\* object it was never given to ("no stale entry on name reuse").
NothingDangles ==
    /\ current \in DOMAIN programs \cup {0}
    /\ \A q \in DOMAIN pipelines : \A f \in Fields :
        pipelines[q][f] \in DOMAIN programs \cup {0}
    /\ bound \subseteq DOMAIN pipelines
    /\ \A p \in DOMAIN programs :
        programs[p].attachedShaders \subseteq DOMAIN shaders
    /\ resolved \subseteq DOMAIN programs

\* An object whose deletion was requested is there only because something
\* uses it: "The actual erase happens when the currently-bound program
\* changes, or when the last program pipeline reference is replaced/deleted".
NothingLeaks ==
    /\ \A p \in DOMAIN programs :
        programs[p].deleteRequested => p = current \/ Referenced(pipelines, p)
    /\ \A s \in DOMAIN shaders :
        shaders[s].deleteRequested => Attaching(s) # {}

=============================================================================
