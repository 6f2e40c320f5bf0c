------------------------------ MODULE Formats ------------------------------
(* What the API reads and writes of tasks in one answer: the CSV export and  *)
(* import, the pages of a list, and the calendar feed with the due dates of  *)
(* recurring tasks.  A behaviour is one of the three.                        *)
EXTENDS ImportExport, Listing, Calendar

FormatsInit ==
    \/ ImportInit /\ ListOff /\ CalendarOff
    \/ ImportOff /\ ListInit /\ CalendarOff
    \/ ImportOff /\ ListOff /\ CalendarInit

FormatsNext ==
    \/ ImportNext /\ UNCHANGED <<listVars, calendarVars>>
    \/ ListNext /\ UNCHANGED <<importVars, calendarVars>>
    \/ CalendarNext /\ UNCHANGED <<importVars, listVars>>

FormatsSpec == FormatsInit /\ [][FormatsNext]_<<importVars, listVars, calendarVars>>
=============================================================================
