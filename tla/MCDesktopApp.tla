----------------------------- MODULE MCDesktopApp -----------------------------
\* Two desktop processes, the first with its window, and two tokens.
EXTENDS DesktopApp

CONSTANTS d1, d2, tA, tB
=============================================================================
