CONSTANTS
    vs = vs
    fs = fs
    q1 = q1
    MaxName = 3
    Pipelines = {q1}
    Stages = {vs, fs}
    Vertex = vs
    LosesStages = TRUE
SPECIFICATION Spec
INVARIANTS NothingLeaks
CHECK_DEADLOCK FALSE
