----------------------------- MODULE MCCalendarWalk -----------------------------
(***************************************************************************)
(* A walk over seventy-five years: the siege of the anchor, leap days, and *)
(* the century year that has none.                                         *)
(***************************************************************************)
EXTENDS CalendarWalk

MCStart == Date(2026, 6, 1)

\* The last days of long months, a leap day, the end of a year.
MCAnchors ==
    {Date(2026, 7, 31), Date(2026, 12, 31), Date(2027, 1, 29), Date(2027, 1, 30),
     Date(2028, 2, 29), Date(2026, 6, 15)}
================================================================================
