\* Two tasks, two processes, one change or fault.
SPECIFICATION FairReminders
CONSTANTS
    Tasks = {t1, t2}
    Processes = {p1, p2}
    NoTask = NoTask
    MaxEvents = 1
INVARIANTS RemindersTypeOK ReminderSafety
PROPERTY DueIsMarked
CHECK_DEADLOCK FALSE
