----------------------------- MODULE MCLogFile -----------------------------
\* LogFile for TLC: logs of four half hours, two UTC hours and both halves of
\* each, in any order and any number of times, up to MaxWritten lines.  The
\* zone goes from +11 to +10:30 after the first hour, as that of Lord Howe
\* Island does at the end of its summer time: local time is whole hours from
\* UTC at first and then is not, and half an hour comes twice.
EXTENDS LogFile

MCOffset == [hour \in 1 .. 2 |-> IF hour = 1 THEN 22 ELSE 21]
MCLogs   == [id : {1}, time : 2..5]
=============================================================================
