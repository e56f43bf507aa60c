------------------------- MODULE MCProgramLifetime -------------------------
\* Three names for the shaders of two stages and their programs, one pipeline.
EXTENDS ProgramLifetime

CONSTANTS vs, fs, q1

=============================================================================
