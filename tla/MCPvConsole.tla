---------------------------- MODULE MCPvConsole ----------------------------
\* Small instances of PvConsole: rings of 4 and 2 bytes, indices that wrap
\* after 16 and start at the last value, so that the first message wraps both
\* an index and a ring.
EXTENDS PvConsoleStream
=============================================================================
