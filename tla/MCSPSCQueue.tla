---- MODULE MCSPSCQueue ----
\* SPSCQueue with two item values, a ring of two cells and five pushes: two full
\* laps and a half, so every cell is reused while both cached cursors are stale.
EXTENDS SPSCQueue

CONSTANTS a, b
MCItem == {a, b}
====
