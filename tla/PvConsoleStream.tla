-------------------------- MODULE PvConsoleStream --------------------------
\* The PV console of console.c implements the console of ConsoleStream.
EXTENDS PvConsole

Console == INSTANCE ConsoleStream WITH
    Lengths  <- MsgLens,
    writing  <- pc \in {"some", "publish", "kick", "space", "drain"},
    panicked <- crashed,
    shown    <- log,
    read     <- got

\* pv_console_write() and pv_console_read_some(), with their rings, indices that
\* wrap, partial transfers and waits, do what ConsoleStream promises: a message is
\* shown whole and in its turn, each byte once, before its write returns, and it
\* does return in the end unless a panic interrupts it; a panic's own message
\* ends what is shown; what is typed is read once and in order.
ImplementsStream == Console!FairSpec
=============================================================================
