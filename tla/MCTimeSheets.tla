--------------------------- MODULE MCTimeSheets ---------------------------
EXTENDS TimeSheets
CONSTANTS h1, h2
===========================================================================
