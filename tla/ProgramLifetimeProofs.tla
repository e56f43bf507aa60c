----------------------- MODULE ProgramLifetimeProofs -----------------------
\* Proofs about ProgramLifetime, for any number of names, stages and
\* pipelines.
EXTENDS ProgramLifetime, FiniteSetTheorems, TLAPS

\* A program that is linked has an executable for every stage it is staged
\* for, as long as no relink drops one: so a stage that is emptied is never
\* emptied of the program that is put there.
StagesKept ==
    \A q \in DOMAIN pipelines : \A f \in Stages :
        Linked(pipelines[q][f]) => f \in programs[pipelines[q][f]].linkedStageBits

IInv == TypeOK /\ CountsExact /\ NothingDangles

LInv == StagesKept /\ NothingLeaks

-----------------------------------------------------------------------------
\* The initial state.
LEMMA InitIInv == Init => IInv /\ LInv
<1> SUFFICES ASSUME Init PROVE IInv /\ LInv
  OBVIOUS
<1>1. /\ DOMAIN shaders = {} /\ DOMAIN programs = {} /\ DOMAIN pipelines = {}
      /\ current = 0 /\ bound = {} /\ resolved = {}
  BY DEF Init
<1> QED
  BY <1>1 DEF IInv, TypeOK, CountsExact, NothingDangles, LInv, StagesKept,
     NothingLeaks

\* What attaches a shader is a finite set of programs.
LEMMA AttachingFinite ==
    ASSUME IInv, NEW s
    PROVE  IsFiniteSet(Attaching(s))
<1>1. IsFiniteSet(1 .. MaxName)
  BY FS_Interval, LifetimeAssumption
<1>2. Attaching(s) \in SUBSET (1 .. MaxName)
  BY DEF IInv, TypeOK, Attaching, Names
<1> QED
  BY <1>1, <1>2, FS_Subset

\* The count is left at the number of programs that still attach the shader.
LEMMA CountLeft ==
    ASSUME IInv, NEW E, E \subseteq DOMAIN programs, NEW s \in DOMAIN shaders
    PROVE  /\ IsFiniteSet(Attaching(s) \ E)
           /\ CountWithout(s, E) = Cardinality(Attaching(s) \ E)
           /\ CountWithout(s, E) \in Nat
           /\ CountWithout(s, E) = 0 <=> Attaching(s) \ E = {}
<1> DEFINE A == Attaching(s)
<1>1. IsFiniteSet(A)
  BY AttachingFinite
<1>2. /\ IsFiniteSet(A \ E)
      /\ Cardinality(A \ E) = Cardinality(A) - Cardinality(A \cap E)
  BY <1>1, FS_Difference
<1>3. Cardinality(A) \in Nat /\ Cardinality(A \ E) \in Nat
      /\ Cardinality(A \cap E) \in Nat
  BY <1>1, <1>2, FS_CardinalityType, FS_Intersection
<1>4. {p \in E : s \in programs[p].attachedShaders} = A \cap E
  BY DEF Attaching
<1>5. shaders[s].attachmentCount = Cardinality(A)
  BY DEF IInv, CountsExact
<1>6. CountWithout(s, E) =
        IF Cardinality(A) > Cardinality(A \cap E)
        THEN Cardinality(A) - Cardinality(A \cap E) ELSE 0
  BY <1>4, <1>5 DEF CountWithout
<1>7. CountWithout(s, E) = Cardinality(A \ E)
  <2> HIDE DEF A
  <2> QED
    BY <1>2, <1>3, <1>6
<1> QED
  BY <1>2, <1>3, <1>7, FS_EmptySet

\* Erasing programs that nothing refers to keeps the invariant.
LEMMA ErasePreserves ==
    ASSUME IInv, NEW E, E \subseteq DOMAIN programs, Erase(E),
           current' \in (DOMAIN programs \ E) \cup {0},
           DOMAIN pipelines' \subseteq Pipelines,
           \A q \in DOMAIN pipelines' :
              /\ pipelines'[q] \in [Fields -> Names \cup {0}]
              /\ \A f \in Fields : pipelines'[q][f] \in (DOMAIN programs \ E) \cup {0},
           bound' \subseteq DOMAIN pipelines'
    PROVE  IInv'
<1>1. /\ DOMAIN programs' = DOMAIN programs \ E
      /\ \A p \in DOMAIN programs' : programs'[p] = programs[p]
      /\ resolved' = resolved \ E
  BY DEF Erase, Restrict
<1>0. \A s \in DOMAIN shaders :
        /\ CountWithout(s, E) = Cardinality(Attaching(s) \ E)
        /\ CountWithout(s, E) \in Nat
        /\ CountWithout(s, E) = 0 <=> Attaching(s) \ E = {}
  BY CountLeft
<1>2. /\ DOMAIN shaders' \subseteq DOMAIN shaders
      /\ \A s \in DOMAIN shaders :
            s \in DOMAIN shaders' \/ ~(CountWithout(s, E) > 0)
  BY DEF Erase, ShadersWithout
<1>8. \A s \in DOMAIN shaders' :
         /\ shaders'[s] \in GLShaderObject
         /\ shaders'[s].attachmentCount = CountWithout(s, E)
  <2> SUFFICES ASSUME NEW s \in DOMAIN shaders'
               PROVE  /\ shaders'[s] \in GLShaderObject
                      /\ shaders'[s].attachmentCount = CountWithout(s, E)
    OBVIOUS
  <2>1. shaders[s] \in GLShaderObject
    BY <1>2 DEF IInv, TypeOK
  <2>2. CountWithout(s, E) \in Nat
    BY <1>0, <1>2
  <2>3. shaders'[s] = [shaders[s] EXCEPT !.attachmentCount = CountWithout(s, E)]
    BY DEF Erase, ShadersWithout
  <2> DEFINE n == CountWithout(s, E)
  <2> HIDE DEF n
  <2>4. n \in Nat /\ shaders'[s] = [shaders[s] EXCEPT !.attachmentCount = n]
    BY <2>2, <2>3 DEF n
  <2>5. shaders'[s] \in GLShaderObject /\ shaders'[s].attachmentCount = n
    BY <2>1, <2>4 DEF GLShaderObject
  <2> QED
    BY <2>5 DEF n
<1>3. \A s : Attaching(s)' = Attaching(s) \ E
  BY <1>1 DEF Attaching
<1>4. TypeOK'
  BY <1>1, <1>2, <1>8 DEF IInv, TypeOK
<1>5. CountsExact'
  BY <1>0, <1>2, <1>3, <1>8 DEF CountsExact
<1>6. \A p \in DOMAIN programs' : programs'[p].attachedShaders \subseteq DOMAIN shaders'
  <2> SUFFICES ASSUME NEW p \in DOMAIN programs', NEW s \in programs'[p].attachedShaders
               PROVE  s \in DOMAIN shaders'
    OBVIOUS
  <2>1. s \in DOMAIN shaders /\ p \in Attaching(s) \ E
    BY <1>1 DEF IInv, NothingDangles, Attaching
  <2> QED
    <3>1. Attaching(s) \ E # {}
      BY <2>1
    <3>2. CountWithout(s, E) \in Nat /\ CountWithout(s, E) # 0
      BY <1>0, <2>1, <3>1
    <3>3. CountWithout(s, E) > 0
      BY <3>2
    <3> QED
      BY <1>2, <2>1, <3>3
<1>7. NothingDangles'
  BY <1>1, <1>6 DEF IInv, NothingDangles
<1> QED
  BY <1>4, <1>5, <1>7 DEF IInv

\* A call that changes neither which shaders programs attach nor what exists,
\* apart from a new program, keeps the invariant.
LEMMA ProgramsPreserve ==
    ASSUME IInv, UNCHANGED <<shaders, current, pipelines, bound, resolved>>,
           DOMAIN programs \subseteq DOMAIN programs',
           DOMAIN programs' \subseteq Names \ DOMAIN shaders,
           \A p \in DOMAIN programs' :
              /\ programs'[p] \in GLProgramObject
              /\ programs'[p].attachedShaders =
                    IF p \in DOMAIN programs THEN programs[p].attachedShaders ELSE {}
    PROVE  IInv'
<1>1. TypeOK'
  BY DEF IInv, TypeOK
<1>2. \A s : Attaching(s)' = Attaching(s)
  BY DEF Attaching
<1>3. CountsExact'
  BY <1>2 DEF IInv, CountsExact
<1>4. NothingDangles'
  BY DEF IInv, NothingDangles
<1> QED
  BY <1>1, <1>3, <1>4 DEF IInv

\* What Finalized names may be erased.
LEMMA FinalizedUnused ==
    ASSUME NEW S, NEW cur, NEW pipes
    PROVE  /\ Finalized(S, cur, pipes) \subseteq DOMAIN programs
           /\ cur \notin Finalized(S, cur, pipes)
           /\ \A q \in DOMAIN pipes : \A f \in Fields :
                 pipes[q][f] \notin Finalized(S, cur, pipes)
<1> QED
  BY DEF Finalized, Referenced

\* The invariant is inductive.
LEMMA NextIInv == IInv /\ [Next]_vars => IInv'
<1> SUFFICES ASSUME IInv, [Next]_vars PROVE IInv'
  OBVIOUS
<1>1. ASSUME NEW stage \in Stages, CreateShader(stage) PROVE IInv'
  <2>1. PICK n \in Names : /\ n \notin DOMAIN shaders \cup DOMAIN programs
                           /\ shaders' = Put(shaders, n, NewShader(stage))
    BY <1>1 DEF CreateShader, Lowest, Unreserved
  <2>2. /\ DOMAIN shaders' = DOMAIN shaders \cup {n}
        /\ shaders'[n] = NewShader(stage)
        /\ \A s \in DOMAIN shaders : shaders'[s] = shaders[s]
    BY <2>1 DEF Put
  <2>3. NewShader(stage) \in GLShaderObject /\ NewShader(stage).attachmentCount = 0
    BY DEF NewShader, GLShaderObject
  <2>4. TypeOK'
    BY <1>1, <2>1, <2>2, <2>3 DEF CreateShader, IInv, TypeOK
  <2>5. \A s : Attaching(s)' = Attaching(s)
    BY <1>1 DEF CreateShader, Attaching
  <2>6. Attaching(n) = {}
    BY <2>1 DEF IInv, NothingDangles, Attaching
  <2>7. CountsExact'
    BY <2>2, <2>3, <2>5, <2>6, FS_EmptySet DEF IInv, CountsExact
  <2>8. NothingDangles'
    BY <1>1, <2>2 DEF CreateShader, IInv, NothingDangles
  <2> QED
    BY <2>4, <2>7, <2>8 DEF IInv
<1>2. ASSUME CreateProgram PROVE IInv'
  <2>1. NewProgram \in GLProgramObject /\ NewProgram.attachedShaders = {}
    BY DEF NewProgram, GLProgramObject
  <2> QED
    BY <1>2, <2>1, ProgramsPreserve
    DEF CreateProgram, Lowest, Unreserved, Put, IInv, TypeOK
<1>3. ASSUME NEW stage \in Stages, NEW ok \in BOOLEAN, CreateShaderProgram(stage, ok)
      PROVE  IInv'
  <2> DEFINE P == [NewProgram EXCEPT !.linkedStageBits = IF ok THEN {stage} ELSE {}]
  <2>1. P \in GLProgramObject /\ P.attachedShaders = {}
    BY DEF NewProgram, GLProgramObject
  <2>2. PICK n \in Unreserved : programs' = Put(programs, n, P)
    BY <1>3 DEF CreateShaderProgram, Lowest
  <2> HIDE DEF P
  <2>3. /\ DOMAIN programs' = DOMAIN programs \cup {n}
        /\ \A r \in DOMAIN programs :
              programs'[r] = programs[r] /\ programs[r] \in GLProgramObject
        /\ n \in Names \ (DOMAIN programs \cup DOMAIN shaders)
        /\ programs'[n] = P
    BY <2>2 DEF Unreserved, Put, IInv, TypeOK
  <2>4. UNCHANGED <<shaders, current, pipelines, bound, resolved>>
    BY <1>3 DEF CreateShaderProgram
  <2> QED
    BY <2>1, <2>3, <2>4, ProgramsPreserve DEF IInv, TypeOK
<1>4. ASSUME NEW n \in Names, DeleteShader(n) PROVE IInv'
  <2>1. \A s : Attaching(s)' = Attaching(s)
    BY <1>4 DEF DeleteShader, Attaching
  <2>2. /\ DOMAIN shaders' \subseteq DOMAIN shaders
        /\ DOMAIN shaders \ DOMAIN shaders' \subseteq
              {s \in DOMAIN shaders : shaders[s].attachmentCount = 0}
        /\ \A s \in DOMAIN shaders' :
              /\ shaders'[s] \in GLShaderObject
              /\ shaders'[s].attachmentCount = shaders[s].attachmentCount
    BY <1>4 DEF DeleteShader, Restrict, IInv, TypeOK, GLShaderObject
  <2>3. TypeOK' /\ CountsExact'
    BY <1>4, <2>1, <2>2 DEF DeleteShader, IInv, TypeOK, CountsExact
  <2>4. \A s \in DOMAIN shaders \ DOMAIN shaders' : Attaching(s) = {}
    BY <2>2, AttachingFinite, FS_EmptySet DEF IInv, CountsExact
  <2>5. NothingDangles'
    BY <1>4, <2>4 DEF DeleteShader, IInv, NothingDangles, Attaching
  <2> QED
    BY <2>3, <2>5 DEF IInv
<1>5. ASSUME NEW n \in Names, DeleteProgram(n) PROVE IInv'
  <2>1. CASE n = current \/ Referenced(pipelines, n)
    <3>1. /\ DOMAIN programs' = DOMAIN programs
          /\ \A r \in DOMAIN programs :
                /\ programs'[r] \in GLProgramObject
                /\ programs'[r].attachedShaders = programs[r].attachedShaders
      <4>1. programs' = [programs EXCEPT ![n].deleteRequested = TRUE]
        BY <1>5, <2>1 DEF DeleteProgram
      <4> QED
        BY <4>1 DEF IInv, TypeOK, GLProgramObject
    <3>2. UNCHANGED <<shaders, current, pipelines, bound, resolved>>
      BY <1>5, <2>1 DEF DeleteProgram
    <3> QED
      BY <3>1, <3>2, ProgramsPreserve DEF IInv, TypeOK
  <2>2. CASE ~(n = current \/ Referenced(pipelines, n))
    <3>1. {n} \subseteq DOMAIN programs /\ Erase({n})
          /\ UNCHANGED <<current, pipelines, bound>>
      BY <1>5, <2>2 DEF DeleteProgram
    <3>2. \A q \in DOMAIN pipelines : \A f \in Fields : pipelines[q][f] # n
      BY <2>2 DEF Referenced
    <3> QED
      BY <2>2, <3>1, <3>2, ErasePreserves DEF IInv, TypeOK, NothingDangles
  <2> QED
    BY <2>1, <2>2
<1>6. ASSUME NEW n \in Names, LinkProgram(n) PROVE IInv'
  <2>1. PICK bits \in SUBSET Stages :
           programs' = [programs EXCEPT ![n].linkedStageBits = bits]
    <3>1. \A s \in DOMAIN shaders : shaders[s].stage \in Stages
      BY DEF IInv, TypeOK, GLShaderObject
    <3>2. n \in DOMAIN programs /\ programs[n].attachedShaders \subseteq DOMAIN shaders
      BY <1>6 DEF LinkProgram, IInv, NothingDangles
    <3>3. {shaders[s].stage : s \in programs[n].attachedShaders} \in SUBSET Stages
      BY <3>1, <3>2
    <3>4. {} \in SUBSET Stages
      OBVIOUS
    <3> QED
      BY <1>6, <3>3, <3>4 DEF LinkProgram
  <2> QED
    BY <1>6, <2>1, ProgramsPreserve DEF LinkProgram, IInv, TypeOK, GLProgramObject
<1>7. ASSUME NEW p \in Names, NEW s \in Names, AttachShader(p, s) PROVE IInv'
  <2>1. /\ DOMAIN programs' = DOMAIN programs
        /\ \A r \in DOMAIN programs :
              /\ programs'[r] \in GLProgramObject
              /\ programs'[r].attachedShaders =
                    programs[r].attachedShaders \cup (IF r = p THEN {s} ELSE {})
    BY <1>7 DEF AttachShader, IInv, TypeOK, GLProgramObject
  <2>2. /\ DOMAIN shaders' = DOMAIN shaders
        /\ \A t \in DOMAIN shaders :
              /\ shaders'[t] \in GLShaderObject
              /\ shaders'[t].attachmentCount =
                    shaders[t].attachmentCount + (IF t = s THEN 1 ELSE 0)
    BY <1>7 DEF AttachShader, IInv, TypeOK, GLShaderObject
  <2>3. UNCHANGED <<current, pipelines, bound, resolved>> /\ s \in DOMAIN shaders
    BY <1>7 DEF AttachShader
  <2>7. TypeOK'
    BY <2>1, <2>2, <2>3 DEF IInv, TypeOK
  <2>8. NothingDangles'
    BY <2>1, <2>2, <2>3 DEF IInv, NothingDangles
  <2>4. /\ Attaching(s)' = Attaching(s) \cup {p}
        /\ p \notin Attaching(s)
        /\ \A t : t # s => Attaching(t)' = Attaching(t)
    BY <1>7, <2>1 DEF AttachShader, Attaching
  <2>5. Cardinality(Attaching(s)') = Cardinality(Attaching(s)) + 1
    BY <2>4, AttachingFinite, FS_AddElement
  <2>6. CountsExact'
    <3> SUFFICES ASSUME NEW t \in DOMAIN shaders'
                 PROVE  shaders'[t].attachmentCount = Cardinality(Attaching(t)')
      BY DEF CountsExact
    <3>1. /\ shaders[t].attachmentCount = Cardinality(Attaching(t))
          /\ Cardinality(Attaching(t)) \in Nat
      BY <2>2, AttachingFinite, FS_CardinalityType DEF IInv, CountsExact
    <3>2. shaders'[t].attachmentCount =
             Cardinality(Attaching(t)) + (IF t = s THEN 1 ELSE 0)
      BY <2>2, <3>1
    <3>3. CASE t = s
      BY <2>5, <3>2, <3>3
    <3>4. CASE t # s
      BY <2>4, <3>1, <3>2, <3>4
    <3> QED
      BY <3>3, <3>4
  <2> QED
    BY <2>6, <2>7, <2>8 DEF IInv
<1>8. ASSUME NEW p \in Names, NEW s \in Names, DetachShader(p, s) PROVE IInv'
  <2>1. /\ DOMAIN programs' = DOMAIN programs
        /\ \A r \in DOMAIN programs :
              /\ programs'[r] \in GLProgramObject
              /\ programs'[r].attachedShaders =
                    programs[r].attachedShaders \ (IF r = p THEN {s} ELSE {})
    BY <1>8 DEF DetachShader, IInv, TypeOK, GLProgramObject
  <2> DEFINE left == CountWithout(s, {p})
  <2>2. /\ p \in DOMAIN programs /\ s \in DOMAIN shaders
        /\ left = Cardinality(Attaching(s) \ {p})
        /\ left \in Nat
        /\ left = 0 <=> Attaching(s) \ {p} = {}
    BY <1>8, CountLeft DEF DetachShader, IInv, NothingDangles
  <2>3. shaders' = IF shaders[s].deleteRequested /\ left = 0
                   THEN Restrict(shaders, DOMAIN shaders \ {s})
                   ELSE [shaders EXCEPT ![s].attachmentCount = left]
    BY <1>8 DEF DetachShader
  <2> HIDE DEF left
  <2>4. /\ DOMAIN shaders' \subseteq DOMAIN shaders
        /\ \A t \in DOMAIN shaders : t \notin DOMAIN shaders' => t = s /\ left = 0
        /\ \A t \in DOMAIN shaders' :
              /\ shaders'[t] \in GLShaderObject
              /\ shaders'[t].attachmentCount =
                    IF t = s THEN left ELSE shaders[t].attachmentCount
    BY <2>2, <2>3 DEF Restrict, IInv, TypeOK, GLShaderObject
  <2>5. /\ Attaching(s)' = Attaching(s) \ {p}
        /\ \A t : t # s => Attaching(t)' = Attaching(t)
    BY <1>8, <2>1 DEF DetachShader, Attaching
  <2>6. TypeOK' /\ CountsExact'
    BY <1>8, <2>1, <2>2, <2>4, <2>5 DEF DetachShader, IInv, TypeOK, CountsExact
  <2>7. \A r \in DOMAIN programs' : programs'[r].attachedShaders \subseteq DOMAIN shaders'
    BY <2>1, <2>2, <2>4, <2>5 DEF IInv, NothingDangles, Attaching
  <2> QED
    BY <1>8, <2>1, <2>6, <2>7 DEF DetachShader, IInv, NothingDangles
<1>9. ASSUME NEW p \in Names \cup {0}, UseProgram(p) PROVE IInv'
  <2>1. p \in DOMAIN programs \cup {0}
    BY <1>9 DEF UseProgram, Linked
  <2> QED
    BY <1>9, <2>1, ErasePreserves, FinalizedUnused
    DEF UseProgram, IInv, TypeOK, NothingDangles
<1>10. ASSUME NEW q \in Pipelines, CreatePipeline(q) PROVE IInv'
  <2>1. \A s : Attaching(s)' = Attaching(s)
    BY <1>10 DEF CreatePipeline, Attaching
  <2> QED
    BY <1>10, <2>1 DEF CreatePipeline, Put, IInv, TypeOK, CountsExact, NothingDangles
<1>11. ASSUME NEW q \in Pipelines, DeletePipeline(q) PROVE IInv'
  BY <1>11, ErasePreserves, FinalizedUnused
  DEF DeletePipeline, Restrict, IInv, TypeOK, NothingDangles
<1>12. ASSUME NEW b, BindPipeline(b) PROVE IInv'
  <2>1. \A s : Attaching(s)' = Attaching(s)
    BY <1>12 DEF BindPipeline, Attaching
  <2> QED
    BY <1>12, <2>1 DEF BindPipeline, IInv, TypeOK, CountsExact, NothingDangles
<1>13. ASSUME NEW q \in Pipelines, NEW S \in SUBSET Stages,
              NEW p \in Names \cup {0}, UseProgramStages(q, S, p)
       PROVE  IInv'
  <2>1. p \in DOMAIN programs \cup {0}
    BY <1>13 DEF UseProgramStages, Linked
  <2>2. /\ DOMAIN pipelines' = DOMAIN pipelines
        /\ \A r \in DOMAIN pipelines :
              /\ pipelines'[r] \in [Fields -> Names \cup {0}]
              /\ \A f \in Fields : pipelines'[r][f] \in DOMAIN programs \cup {0}
    BY <1>13, <2>1 DEF UseProgramStages, IInv, TypeOK, NothingDangles
  <2> DEFINE E == Finalized({pipelines[q][f] : f \in S} \ {p}, current, pipelines')
  <2>3. Erase(E) /\ UNCHANGED <<current, bound>>
    BY <1>13 DEF UseProgramStages
  <2>4. /\ E \subseteq DOMAIN programs
        /\ current \notin E
        /\ \A r \in DOMAIN pipelines' : \A f \in Fields : pipelines'[r][f] \notin E
    BY FinalizedUnused
  <2> HIDE DEF E
  <2> QED
    BY <2>2, <2>3, <2>4, ErasePreserves DEF IInv, TypeOK, NothingDangles
<1>14. ASSUME NEW q \in Pipelines, NEW p \in Names \cup {0}, ActiveShaderProgram(q, p)
       PROVE  IInv'
  <2>1. p \in DOMAIN programs \cup {0}
    BY <1>14 DEF ActiveShaderProgram, Linked
  <2>2. /\ DOMAIN pipelines' = DOMAIN pipelines
        /\ \A r \in DOMAIN pipelines :
              /\ pipelines'[r] \in [Fields -> Names \cup {0}]
              /\ \A f \in Fields : pipelines'[r][f] \in DOMAIN programs \cup {0}
    BY <1>14, <2>1 DEF ActiveShaderProgram, IInv, TypeOK, NothingDangles
  <2> DEFINE E == Finalized({pipelines[q].activeShaderProgram} \ {p}, current, pipelines')
  <2>3. Erase(E) /\ UNCHANGED <<current, bound>>
    BY <1>14 DEF ActiveShaderProgram
  <2>4. /\ E \subseteq DOMAIN programs
        /\ current \notin E
        /\ \A r \in DOMAIN pipelines' : \A f \in Fields : pipelines'[r][f] \notin E
    BY FinalizedUnused
  <2> HIDE DEF E
  <2> QED
    BY <2>2, <2>3, <2>4, ErasePreserves DEF IInv, TypeOK, NothingDangles
<1>15. ASSUME Draw PROVE IInv'
  <2>1. \A s : Attaching(s)' = Attaching(s)
    BY <1>15 DEF Draw, Attaching
  <2> QED
    BY <1>15, <2>1 DEF Draw, Linked, IInv, TypeOK, CountsExact, NothingDangles
<1>16. CASE UNCHANGED vars
  <2>1. \A s : Attaching(s)' = Attaching(s)
    BY <1>16 DEF vars, Attaching
  <2> QED
    BY <1>16, <2>1 DEF vars, IInv, TypeOK, CountsExact, NothingDangles
<1> QED
  BY <1>1, <1>2, <1>3, <1>4, <1>5, <1>6, <1>7, <1>8, <1>9, <1>10, <1>11, <1>12,
     <1>13, <1>14, <1>15, <1>16 DEF Next

-----------------------------------------------------------------------------
\* Erasing programs leaves no flagged object behind that nothing uses, if the
\* programs that stay are used.
LEMMA EraseLeaks ==
    ASSUME IInv, NothingLeaks, NEW E, E \subseteq DOMAIN programs, Erase(E),
           \A p \in DOMAIN programs \ E : programs[p].deleteRequested =>
              p = current' \/ Referenced(pipelines', p)
    PROVE  NothingLeaks'
<1>1. /\ DOMAIN programs' = DOMAIN programs \ E
      /\ \A p \in DOMAIN programs' : programs'[p] = programs[p]
  BY DEF Erase, Restrict
<1>2. \A s : Attaching(s)' = Attaching(s) \ E
  BY <1>1 DEF Attaching
<1>3. ASSUME NEW s \in DOMAIN shaders', shaders'[s].deleteRequested
      PROVE  Attaching(s)' # {}
  <2>1. /\ s \in DOMAIN shaders
        /\ \/ ~shaders[s].deleteRequested
           \/ CountWithout(s, E) > 0
           \/ \A p \in E : s \notin programs[p].attachedShaders
    BY DEF Erase, ShadersWithout
  <2>2. shaders[s].deleteRequested
    <3>1. shaders[s] \in GLShaderObject
      BY <2>1 DEF IInv, TypeOK
    <3> DEFINE n == CountWithout(s, E)
    <3>2. shaders'[s] = [shaders[s] EXCEPT !.attachmentCount = n]
      BY DEF Erase, ShadersWithout
    <3> HIDE DEF n
    <3> QED
      BY <1>3, <3>1, <3>2 DEF GLShaderObject
  <2>3. CASE CountWithout(s, E) > 0
    <3>1. CountWithout(s, E) # 0
      BY <2>3
    <3> QED
      BY <1>2, <2>1, <3>1, CountLeft
  <2>4. CASE \A p \in E : s \notin programs[p].attachedShaders
    BY <1>2, <2>1, <2>2, <2>4 DEF NothingLeaks, Attaching
  <2> QED
    BY <2>1, <2>2, <2>3, <2>4
<1> QED
  BY <1>1, <1>3 DEF NothingLeaks

\* Unless a relink drops a stage, nothing leaks.
LEMMA NextLInv ==
    ASSUME IInv, LInv, [Next]_vars, ~LosesStages
    PROVE  LInv'
<1> USE DEF LInv
<1>0. 0 \notin DOMAIN programs
  BY DEF IInv, TypeOK, Names
<1>1. ASSUME NEW stage \in Stages, CreateShader(stage) PROVE LInv'
  <2>1. PICK n \in Names : shaders' = Put(shaders, n, NewShader(stage))
    BY <1>1 DEF CreateShader
  <2>2. \A s \in DOMAIN shaders' : shaders'[s].deleteRequested =>
           s \in DOMAIN shaders /\ shaders[s].deleteRequested
    BY <2>1 DEF Put, NewShader
  <2> QED
    BY <1>1, <2>2 DEF CreateShader, StagesKept, Linked, NothingLeaks, Attaching, Referenced
<1>2. ASSUME UNCHANGED <<shaders, current, pipelines>>,
             NEW n \in Names \ DOMAIN programs, NEW P, ~P.deleteRequested,
             P.attachedShaders = {}, programs' = Put(programs, n, P)
      PROVE  LInv'
  <2>1. /\ DOMAIN programs' = DOMAIN programs \cup {n}
        /\ programs'[n] = P
        /\ \A r \in DOMAIN programs : programs'[r] = programs[r]
    BY <1>2 DEF Put
  <2>2. StagesKept'
    BY <1>2, <2>1 DEF IInv, NothingDangles, StagesKept, Linked, Fields, Names
  <2>3. NothingLeaks'
    BY <1>2, <2>1 DEF NothingLeaks, Attaching, Referenced
  <2> QED
    BY <2>2, <2>3
<1>3. ASSUME CreateProgram PROVE LInv'
  <2>1. ~NewProgram.deleteRequested /\ NewProgram.attachedShaders = {}
    BY DEF NewProgram
  <2>2. PICK n \in Names \ DOMAIN programs : programs' = Put(programs, n, NewProgram)
    BY <1>3 DEF CreateProgram, Lowest, Unreserved
  <2>3. UNCHANGED <<shaders, current, pipelines>>
    BY <1>3 DEF CreateProgram
  <2> HIDE DEF LInv
  <2> QED
    BY <1>2, <2>1, <2>2, <2>3
<1>4. ASSUME NEW stage \in Stages, NEW ok \in BOOLEAN, CreateShaderProgram(stage, ok)
      PROVE  LInv'
  <2> DEFINE P == [NewProgram EXCEPT !.linkedStageBits = IF ok THEN {stage} ELSE {}]
  <2>1. ~P.deleteRequested /\ P.attachedShaders = {}
    BY DEF NewProgram
  <2>2. PICK n \in Names \ DOMAIN programs : programs' = Put(programs, n, P)
    BY <1>4 DEF CreateShaderProgram, Lowest, Unreserved
  <2>3. UNCHANGED <<shaders, current, pipelines>>
    BY <1>4 DEF CreateShaderProgram
  <2> HIDE DEF LInv, P
  <2> QED
    BY <1>2, <2>1, <2>2, <2>3
<1>5. ASSUME NEW n \in Names, DeleteShader(n) PROVE LInv'
  <2>1. /\ n \in DOMAIN shaders
        /\ UNCHANGED <<programs, current, pipelines>>
        /\ shaders' = IF shaders[n].attachmentCount = 0
                      THEN Restrict(shaders, DOMAIN shaders \ {n})
                      ELSE [shaders EXCEPT ![n].deleteRequested = TRUE]
    BY <1>5 DEF DeleteShader
  <2>2. shaders[n].attachmentCount # 0 => Attaching(n) # {}
    BY <2>1, FS_EmptySet DEF IInv, CountsExact
  <2>3. \A s \in DOMAIN shaders' :
           /\ s \in DOMAIN shaders
           /\ s = n => shaders[n].attachmentCount # 0
           /\ s # n => shaders'[s] = shaders[s]
    BY <2>1 DEF Restrict
  <2>4. \A s : Attaching(s)' = Attaching(s)
    BY <2>1 DEF Attaching
  <2>5. StagesKept'
    BY <2>1 DEF StagesKept, Linked
  <2>6. \A r \in DOMAIN programs' :
           programs'[r].deleteRequested => r = current' \/ Referenced(pipelines', r)
    BY <2>1 DEF NothingLeaks
  <2>7. \A s \in DOMAIN shaders' : shaders'[s].deleteRequested => Attaching(s)' # {}
    BY <2>2, <2>3, <2>4 DEF NothingLeaks
  <2> QED
    BY <2>5, <2>6, <2>7 DEF NothingLeaks
<1>6. ASSUME NEW n \in Names, DeleteProgram(n) PROVE LInv'
  <2>1. CASE n = current \/ Referenced(pipelines, n)
    <3>1. /\ n \in DOMAIN programs
          /\ programs' = [programs EXCEPT ![n].deleteRequested = TRUE]
          /\ UNCHANGED <<shaders, current, pipelines>>
      BY <1>6, <2>1 DEF DeleteProgram
    <3>2. /\ DOMAIN programs' = DOMAIN programs
          /\ \A r \in DOMAIN programs :
                /\ programs'[r].linkedStageBits = programs[r].linkedStageBits
                /\ programs'[r].attachedShaders = programs[r].attachedShaders
                /\ r # n => programs'[r] = programs[r]
      BY <3>1 DEF IInv, TypeOK, GLProgramObject
    <3>3. StagesKept'
      BY <3>1, <3>2 DEF StagesKept, Linked
    <3>4. \A s : Attaching(s)' = Attaching(s)
      BY <3>2 DEF Attaching
    <3>5. NothingLeaks'
      BY <2>1, <3>1, <3>2, <3>4 DEF NothingLeaks, Referenced
    <3> QED
      BY <3>3, <3>5
  <2>2. CASE ~(n = current \/ Referenced(pipelines, n))
    <3>1. {n} \subseteq DOMAIN programs /\ Erase({n})
          /\ UNCHANGED <<current, pipelines, bound>>
      BY <1>6, <2>2 DEF DeleteProgram
    <3>2. NothingLeaks'
      BY <3>1, EraseLeaks DEF NothingLeaks
    <3>3. StagesKept'
      BY <3>1 DEF Erase, Restrict, StagesKept, Linked
    <3> QED
      BY <3>2, <3>3
  <2> QED
    BY <2>1, <2>2
<1>7. ASSUME NEW n \in Names, LinkProgram(n) PROVE LInv'
  <2>1. PICK bits :
           /\ bits = {} \/ StagedFor(n) \subseteq bits
           /\ programs' = [programs EXCEPT ![n].linkedStageBits = bits]
    BY <1>7 DEF LinkProgram
  <2>2. /\ n \in DOMAIN programs
        /\ UNCHANGED <<shaders, current, pipelines>>
    BY <1>7 DEF LinkProgram
  <2>3. /\ DOMAIN programs' = DOMAIN programs
        /\ \A r \in DOMAIN programs :
              /\ programs'[r].linkedStageBits =
                    IF r = n THEN bits ELSE programs[r].linkedStageBits
              /\ programs'[r].attachedShaders = programs[r].attachedShaders
              /\ programs'[r].deleteRequested = programs[r].deleteRequested
    BY <2>1, <2>2 DEF IInv, TypeOK, GLProgramObject
  <2>4. StagesKept'
    BY <2>1, <2>2, <2>3 DEF StagesKept, Linked, StagedFor
  <2>5. \A s : Attaching(s)' = Attaching(s)
    BY <2>3 DEF Attaching
  <2>6. NothingLeaks'
    BY <2>2, <2>3, <2>5 DEF NothingLeaks, Referenced
  <2> QED
    BY <2>4, <2>6
<1>8. ASSUME NEW p \in Names, NEW s \in Names, AttachShader(p, s) \/ DetachShader(p, s)
      PROVE  LInv'
  <2>1. /\ UNCHANGED <<current, pipelines>>
        /\ p \in DOMAIN programs
        /\ \/ programs' = [programs EXCEPT ![p].attachedShaders = @ \cup {s}]
           \/ programs' = [programs EXCEPT ![p].attachedShaders = @ \ {s}]
    BY <1>8 DEF AttachShader, DetachShader
  <2>2. /\ DOMAIN programs' = DOMAIN programs
        /\ \A r \in DOMAIN programs :
              /\ programs'[r].linkedStageBits = programs[r].linkedStageBits
              /\ programs'[r].deleteRequested = programs[r].deleteRequested
    BY <2>1 DEF IInv, TypeOK, GLProgramObject
  <2>3. StagesKept'
    BY <2>1, <2>2 DEF StagesKept, Linked
  <2>4. \A t \in DOMAIN shaders' : shaders'[t].deleteRequested => Attaching(t)' # {}
    <3>1. CASE AttachShader(p, s)
      <4>1. \A t \in DOMAIN shaders' :
               /\ t \in DOMAIN shaders
               /\ shaders'[t].deleteRequested = shaders[t].deleteRequested
        BY <3>1 DEF AttachShader, IInv, TypeOK, GLShaderObject
      <4>2. \A t : Attaching(t) \subseteq Attaching(t)'
        <5>1. \A r \in DOMAIN programs :
                 programs[r].attachedShaders \subseteq programs'[r].attachedShaders
          BY <3>1 DEF AttachShader, IInv, TypeOK, GLProgramObject
        <5> QED
          BY <2>2, <5>1 DEF Attaching
      <4> QED
        BY <4>1, <4>2 DEF NothingLeaks
    <3>2. CASE DetachShader(p, s)
      <4> DEFINE left == CountWithout(s, {p})
      <4>1. /\ s \in DOMAIN shaders
            /\ left = 0 <=> Attaching(s) \ {p} = {}
        BY <2>1, <3>2, CountLeft DEF DetachShader, IInv, NothingDangles
      <4>2. shaders' = IF shaders[s].deleteRequested /\ left = 0
                       THEN Restrict(shaders, DOMAIN shaders \ {s})
                       ELSE [shaders EXCEPT ![s].attachmentCount = left]
        BY <3>2 DEF DetachShader
      <4> HIDE DEF left
      <4>3. \A t \in DOMAIN shaders' :
               /\ t \in DOMAIN shaders
               /\ shaders'[t].deleteRequested = shaders[t].deleteRequested
               /\ t = s => ~(shaders[s].deleteRequested /\ left = 0)
        BY <4>1, <4>2 DEF Restrict, IInv, TypeOK, GLShaderObject
      <4>4. \A t : Attaching(t)' = Attaching(t) \ (IF t = s THEN {p} ELSE {})
        <5>1. \A r \in DOMAIN programs :
                 programs'[r].attachedShaders =
                    programs[r].attachedShaders \ (IF r = p THEN {s} ELSE {})
          BY <3>2 DEF DetachShader, IInv, TypeOK, GLProgramObject
        <5> QED
          BY <2>2, <5>1 DEF Attaching
      <4> QED
        BY <4>1, <4>3, <4>4 DEF NothingLeaks
    <3> QED
      BY <1>8, <3>1, <3>2
  <2>5. NothingLeaks'
    BY <2>1, <2>2, <2>4 DEF NothingLeaks, Referenced
  <2> QED
    BY <2>3, <2>5
<1>9. ASSUME NEW p \in Names \cup {0}, UseProgram(p) PROVE LInv'
  <2> DEFINE E == Finalized({current}, p, pipelines)
  <2>1. current' = p /\ Erase(E) /\ UNCHANGED <<pipelines, bound>>
    BY <1>9 DEF UseProgram
  <2>2. E \subseteq DOMAIN programs
    BY FinalizedUnused
  <2>3. \A r \in DOMAIN programs \ E : programs[r].deleteRequested =>
           r = current' \/ Referenced(pipelines', r)
    BY <2>1 DEF NothingLeaks, Finalized
  <2> HIDE DEF E
  <2>4. StagesKept'
    BY <2>1 DEF Erase, Restrict, StagesKept, Linked
  <2> QED
    BY <2>1, <2>2, <2>3, <2>4, EraseLeaks
<1>10. ASSUME NEW q \in Pipelines, CreatePipeline(q) PROVE LInv'
  <2>1. /\ UNCHANGED <<shaders, programs, current>>
        /\ DOMAIN pipelines' = DOMAIN pipelines \cup {q}
        /\ q \notin DOMAIN pipelines
        /\ \A f \in Fields : pipelines'[q][f] = 0
        /\ \A r \in DOMAIN pipelines : pipelines'[r] = pipelines[r]
    BY <1>10 DEF CreatePipeline, Put
  <2>2. StagesKept'
    BY <1>0, <2>1 DEF StagesKept, Linked, Fields
  <2>3. NothingLeaks'
    BY <2>1 DEF NothingLeaks, Attaching, Referenced
  <2> QED
    BY <2>2, <2>3
<1>11. ASSUME NEW q \in Pipelines, DeletePipeline(q) PROVE LInv'
  <2> DEFINE E == Finalized({pipelines[q][f] : f \in Fields}, current, pipelines')
  <2>1. /\ pipelines' = Restrict(pipelines, DOMAIN pipelines \ {q})
        /\ Erase(E) /\ UNCHANGED current
    BY <1>11 DEF DeletePipeline
  <2>2. E \subseteq DOMAIN programs
    BY FinalizedUnused
  <2>3. \A r \in DOMAIN programs \ E : programs[r].deleteRequested =>
           r = current' \/ Referenced(pipelines', r)
    BY <2>1 DEF NothingLeaks, Finalized, Referenced, Restrict
  <2> HIDE DEF E
  <2>4. StagesKept'
    BY <2>1 DEF Erase, Restrict, StagesKept, Linked
  <2> QED
    BY <2>1, <2>2, <2>3, <2>4, EraseLeaks
<1>12. ASSUME NEW q \in Pipelines, NEW S \in SUBSET Stages,
              NEW p \in Names \cup {0}, UseProgramStages(q, S, p)
       PROVE  LInv'
  <2> DEFINE E == Finalized({pipelines[q][f] : f \in S} \ {p}, current, pipelines')
             bits == IF p = 0 THEN {} ELSE programs[p].linkedStageBits
  <2>1. /\ q \in DOMAIN pipelines
        /\ p = 0 \/ Linked(p)
        /\ pipelines' = [pipelines EXCEPT ![q] =
                [f \in Fields |-> IF f \notin S THEN @[f]
                                  ELSE IF f \in bits THEN p ELSE 0]]
        /\ Erase(E) /\ UNCHANGED <<current, bound>>
    BY <1>12 DEF UseProgramStages
  <2>2. E \subseteq DOMAIN programs
    BY FinalizedUnused
  <2>3. /\ DOMAIN pipelines' = DOMAIN pipelines
        /\ \A r \in DOMAIN pipelines : r # q => pipelines'[r] = pipelines[r]
        /\ \A f \in Fields : pipelines'[q][f] =
              IF f \notin S THEN pipelines[q][f]
              ELSE IF f \in bits THEN p ELSE 0
    BY <2>1
  <2>4. p # 0 => \A f \in S : pipelines[q][f] = p => f \in bits
    BY <2>1 DEF StagesKept
  <2>5. \A r \in DOMAIN programs \ E : programs[r].deleteRequested =>
           r = current' \/ Referenced(pipelines', r)
    <3> SUFFICES ASSUME NEW r \in DOMAIN programs \ E, programs[r].deleteRequested,
                        r # current, ~Referenced(pipelines', r)
                 PROVE  FALSE
      BY <2>1
    <3>1. PICK u \in DOMAIN pipelines, f \in Fields : pipelines[u][f] = r
      BY DEF NothingLeaks, Referenced
    <3>2. pipelines'[u][f] # r
      BY <2>3 DEF Referenced
    <3>3. u = q /\ f \in S
      BY <2>3, <3>1, <3>2
    <3>4. r # p
      BY <1>0, <2>3, <2>4, <3>1, <3>2, <3>3
    <3> QED
      BY <3>1, <3>3, <3>4 DEF Finalized
  <2> HIDE DEF E
  <2>6. StagesKept'
    BY <1>0, <2>1, <2>3 DEF Erase, Restrict, StagesKept, Linked, Fields
  <2> QED
    BY <2>1, <2>2, <2>5, <2>6, EraseLeaks
<1>13. ASSUME NEW q \in Pipelines, NEW p \in Names \cup {0}, ActiveShaderProgram(q, p)
       PROVE  LInv'
  <2> DEFINE E == Finalized({pipelines[q].activeShaderProgram} \ {p}, current, pipelines')
  <2>1. /\ q \in DOMAIN pipelines
        /\ pipelines' = [pipelines EXCEPT ![q].activeShaderProgram = p]
        /\ Erase(E) /\ UNCHANGED <<current, bound>>
    BY <1>13 DEF ActiveShaderProgram
  <2>2. E \subseteq DOMAIN programs
    BY FinalizedUnused
  <2>3. /\ DOMAIN pipelines' = DOMAIN pipelines
        /\ \A r \in DOMAIN pipelines : r # q => pipelines'[r] = pipelines[r]
        /\ \A f \in Fields : pipelines'[q][f] =
              IF f = "activeShaderProgram" THEN p ELSE pipelines[q][f]
    BY <2>1 DEF IInv, TypeOK
  <2>4. \A r \in DOMAIN programs \ E : programs[r].deleteRequested =>
           r = current' \/ Referenced(pipelines', r)
    BY <2>1, <2>3 DEF NothingLeaks, Finalized, Referenced
  <2> HIDE DEF E
  <2>5. \A f \in Stages : f \in Fields /\ f # "activeShaderProgram"
    BY LifetimeAssumption DEF Fields
  <2>6. \A r \in DOMAIN pipelines' : r \in DOMAIN pipelines /\
           \A f \in Stages : pipelines'[r][f] = pipelines[r][f]
    BY <2>1, <2>3, <2>5
  <2>7. \A r \in DOMAIN programs' : r \in DOMAIN programs /\ programs'[r] = programs[r]
    BY <2>1 DEF Erase, Restrict
  <2>8. StagesKept'
    BY <2>6, <2>7 DEF StagesKept, Linked
  <2> QED
    BY <2>1, <2>2, <2>4, <2>8, EraseLeaks
<1>14. CASE UNCHANGED <<shaders, programs, current, pipelines>>
  BY <1>14 DEF StagesKept, Linked, NothingLeaks, Attaching, Referenced
<1> QED
  BY <1>1, <1>3, <1>4, <1>5, <1>6, <1>7, <1>8, <1>9, <1>10, <1>11, <1>12, <1>13,
     <1>14 DEF Next, BindPipeline, Draw, vars

-----------------------------------------------------------------------------
\* Objects have their types and a name denotes one of them, whatever calls
\* are made.
THEOREM TypeCorrect == Spec => []TypeOK
<1>1. IInv => TypeOK
  BY DEF IInv
<1> QED
  BY InitIInv, NextIInv, <1>1, PTL DEF Spec

\* A shader's attachment count is the number of programs that attach it.
THEOREM AttachmentsCounted == Spec => []CountsExact
<1>1. IInv => CountsExact
  BY DEF IInv
<1> QED
  BY InitIInv, NextIInv, <1>1, PTL DEF Spec

\* No binding, stage, attachment or cached resolution outlives its object.
THEOREM ReferencesHold == Spec => []NothingDangles
<1>1. IInv => NothingDangles
  BY DEF IInv
<1> QED
  BY InitIInv, NextIInv, <1>1, PTL DEF Spec

\* Deleted objects go with their last use, if no relink drops a stage.
THEOREM DeletionsFinish == Spec => [](~LosesStages => NothingLeaks)
<1> DEFINE KInv == IInv /\ (~LosesStages => LInv)
<1>1. Init => KInv
  BY InitIInv
<1>2. KInv /\ [Next]_vars => KInv'
  BY NextIInv, NextLInv
<1>3. KInv => (~LosesStages => NothingLeaks)
  BY DEF LInv
<1> QED
  BY <1>1, <1>2, <1>3, PTL DEF Spec

=============================================================================
