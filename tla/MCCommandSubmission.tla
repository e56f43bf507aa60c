------------------------ MODULE MCCommandSubmission ------------------------
\* Two lease variables (the current one and a standalone one) for the
\* submission model.
EXTENDS CommandSubmission

CONSTANTS current, standalone, o1, o2

MCSlots == {current, standalone}
MCOneObject == {o1}
MCTwoObjects == {o1, o2}

=============================================================================
