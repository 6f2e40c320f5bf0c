----------------------------- MODULE Reminders -----------------------------
(* Due-date reminders from the hourly job to the inbox: reminders.job.ts,    *)
(* email.service.ts, email.worker.ts, and how server.ts and redis.ts start   *)
(* and stop the processes that run them.                                     *)
(*                                                                           *)
(* Every process runs one reminder worker and one email worker, if it        *)
(* reached Redis when it booted.  A run of the job is split at its find, and *)
(* for each task at queue.add and updateOne.  Time is the due date's: later  *)
(* than the look-ahead, within it, or past.  SMTP is configured; without     *)
(* Redis the job does not run, so it never sends directly.                   *)
(*                                                                           *)
(* No name is shared with Webhooks, the other kind of job: Jobs_proofs       *)
(* extends both.                                                             *)
EXTENDS Naturals, FiniteSets

CONSTANTS
    Tasks,
    Processes,      \* server processes
    NoTask,
    MaxEvents       \* bound: changes of the tasks by their owners, processes that
                    \* die, calls that throw, and boots without Redis

ASSUME RemindersAssumption ==
    /\ NoTask \notin Tasks
    /\ MaxEvents \in Nat

VARIABLES
    task,           \* the Task collection, as far as checkReminders reads it
    proc,           \* the processes
    hourly,         \* the repeatable job waits to be taken
    run,            \* the run of each process's reminder worker
    mails,          \* jobs of the email queue, by task: waiting, or being sent
    inbox,          \* mails the SMTP server accepted, by task
    events,         \* changes by the owners and faults so far
    moved,          \* history: tasks changed since a run found them
    again,          \* history: tasks that a fault or an overlap mails once more
    dropped         \* history: tasks whose mail the SMTP server refused

reminderVars == <<task, proc, hourly, run, mails, inbox, events, moved, again, dropped>>
queues == <<hourly, mails, inbox>>
excuses == <<moved, again, dropped>>

-----------------------------------------------------------------------------
Task == [open : BOOLEAN, due : {"later", "soon", "past"}, owner : BOOLEAN, reminderSent : BOOLEAN]
Process == [up : BOOLEAN, redis : BOOLEAN]
Run == [pc : {"idle", "send", "mark"}, due : SUBSET Tasks, task : Tasks \cup {NoTask}]
NoRun == [pc |-> "idle", due |-> {}, task |-> NoTask]

RunAt(p, pc) == run[p].pc = pc
Works(p)     == proc[p].up /\ proc[p].redis
Eligible(t)  == task[t].open /\ task[t].due = "soon" /\ ~task[t].reminderSent
Counted      == events < MaxEvents /\ events' = events + 1

RemindersInit ==
    /\ task = [t \in Tasks |-> [open |-> TRUE, due |-> "soon", owner |-> TRUE, reminderSent |-> FALSE]]
    /\ proc = [p \in Processes |-> [up |-> FALSE, redis |-> FALSE]]
    /\ hourly = FALSE /\ run = [p \in Processes |-> NoRun]
    /\ mails = [t \in Tasks |-> 0]
    /\ inbox = [t \in Tasks |-> 0]
    /\ events = 0
    /\ moved = [p \in Processes |-> {}] /\ again = {} /\ dropped = {}

-----------------------------------------------------------------------------
(* boot: workers start only if initRedis reached Redis, once and for all *)
Boot(p) ==
    /\ ~proc[p].up
    /\ \E redis \in BOOLEAN :
         /\ proc' = [proc EXCEPT ![p] = [up |-> TRUE, redis |-> redis]]
         /\ IF redis THEN UNCHANGED events ELSE Counted
    /\ UNCHANGED <<task, queues, run, excuses>>

(* The process dies or is shut down: its workers are not closed, and the     *)
(* queue hands their jobs out again.  A mail it was sending may have been    *)
(* accepted.                                                                 *)
Die(p) ==
    /\ proc[p].up /\ Counted
    /\ proc' = [proc EXCEPT ![p] = [up |-> FALSE, redis |-> FALSE]]
    /\ hourly' = (hourly \/ ~RunAt(p, "idle"))
    /\ run' = [run EXCEPT ![p] = NoRun]
    /\ \E sent \in {{}} \cup {{t} : t \in {u \in Tasks : Works(p) /\ mails[u] > 0}} :
         /\ inbox' = [t \in Tasks |-> inbox[t] + (IF t \in sent THEN 1 ELSE 0)]
         /\ again' = again \cup ({run[p].task} \ {NoTask}) \cup sent
    /\ moved' = [moved EXCEPT ![p] = {}]
    /\ UNCHANGED <<task, mails, dropped>>

(* REMINDER_CRON: one job, whatever the number of processes *)
Hour ==
    /\ ~hourly /\ \E p \in Processes : Works(p)
    /\ hourly' = TRUE
    /\ UNCHANGED <<task, proc, run, mails, inbox, events, excuses>>

Found == {t \in Tasks : Eligible(t) /\ task[t].owner}
Held(p) == UNION {run[q].due : q \in Processes \ {p}}

(* Seeded fault: the query does not ask for reminderSent. *)
Find_Flagged(p) ==
    LET found == {t \in Tasks : task[t].open /\ task[t].due = "soon" /\ task[t].owner} IN
    /\ RunAt(p, "idle") /\ Works(p) /\ hourly
    /\ hourly' = FALSE
    /\ run' = [run EXCEPT ![p] = [NoRun EXCEPT !.pc = IF found = {} THEN "idle" ELSE "send", !.due = found]]
    /\ again' = again \cup (found \cap Held(p))
    /\ UNCHANGED <<task, proc, mails, inbox, events, moved, dropped>>

(* Seeded fault: the job is started without asking for Redis. *)
Find_Deaf(p) ==
    /\ RunAt(p, "idle") /\ proc[p].up /\ hourly
    /\ hourly' = FALSE
    /\ run' = [run EXCEPT ![p] = [NoRun EXCEPT !.pc = IF Found = {} THEN "idle" ELSE "send", !.due = Found]]
    /\ again' = again \cup (Found \cap Held(p))
    /\ UNCHANGED <<task, proc, mails, inbox, events, moved, dropped>>

(* Seeded fault: a task without an address ends the run. *)
Find_Return(p) ==
    LET found == IF \E t \in Tasks : Eligible(t) /\ ~task[t].owner THEN {} ELSE Found IN
    /\ RunAt(p, "idle") /\ Works(p) /\ hourly
    /\ hourly' = FALSE
    /\ run' = [run EXCEPT ![p] = [NoRun EXCEPT !.pc = IF found = {} THEN "idle" ELSE "send", !.due = found]]
    /\ again' = again \cup (found \cap Held(p))
    /\ UNCHANGED <<task, proc, mails, inbox, events, moved, dropped>>

(* checkReminders: the find; tasks without an owner's address are skipped *)
Find(p) ==
    /\ RunAt(p, "idle") /\ Works(p) /\ hourly
    /\ hourly' = FALSE
    /\ run' = [run EXCEPT ![p] = [NoRun EXCEPT !.pc = IF Found = {} THEN "idle" ELSE "send", !.due = Found]]
    /\ again' = again \cup (Found \cap Held(p))
    /\ UNCHANGED <<task, proc, mails, inbox, events, moved, dropped>>

(* sendMail: queue.add *)
Send(p, t) ==
    /\ RunAt(p, "send") /\ t \in run[p].due
    /\ mails' = [mails EXCEPT ![t] = @ + 1]
    /\ run' = [run EXCEPT ![p].pc = "mark", ![p].task = t]
    /\ UNCHANGED <<task, proc, hourly, inbox, events, excuses>>

After(left) == IF left = {} THEN NoRun ELSE [pc |-> "send", due |-> left, task |-> NoTask]

(* Seeded fault: the flag is set for every task of the run at once. *)
Mark_All(p) ==
    /\ RunAt(p, "mark")
    /\ task' = [t \in Tasks |-> IF t \in run[p].due THEN [task[t] EXCEPT !.reminderSent = TRUE] ELSE task[t]]
    /\ run' = [run EXCEPT ![p] = After(run[p].due \ {run[p].task})]
    /\ moved' = [moved EXCEPT ![p] = @ \cap run'[p].due]
    /\ UNCHANGED <<proc, queues, events, again, dropped>>

(* Task.updateOne, and on to the next task *)
Mark(p) ==
    /\ RunAt(p, "mark")
    /\ task' = [task EXCEPT ![run[p].task].reminderSent = TRUE]
    /\ run' = [run EXCEPT ![p] = After(run[p].due \ {run[p].task})]
    /\ moved' = [moved EXCEPT ![p] = @ \cap run'[p].due]
    /\ UNCHANGED <<proc, queues, events, again, dropped>>

(* Either command throws: the run ends, and the job is not tried again. *)
RunThrows(p) ==
    /\ ~RunAt(p, "idle") /\ Counted
    /\ run' = [run EXCEPT ![p] = NoRun]
    /\ again' = again \cup ({run[p].task} \ {NoTask})
    /\ moved' = [moved EXCEPT ![p] = {}]
    /\ UNCHANGED <<task, proc, queues, dropped>>

-----------------------------------------------------------------------------
(* The email worker takes a mail and sendDirect returns ... *)
Deliver(p, t) ==
    /\ Works(p) /\ mails[t] > 0
    /\ mails' = [mails EXCEPT ![t] = @ - 1]
    /\ inbox' = [inbox EXCEPT ![t] = @ + 1]
    /\ UNCHANGED <<task, proc, hourly, run, events, excuses>>

(* ... or throws: a mail has one attempt *)
SmtpThrows(p, t) ==
    /\ Works(p) /\ mails[t] > 0 /\ Counted
    /\ mails' = [mails EXCEPT ![t] = @ - 1]
    /\ dropped' = dropped \cup {t}
    /\ UNCHANGED <<task, proc, hourly, run, inbox, moved, again>>

(* The owner completes, trashes or reopens the task, gives it another due    *)
(* date, or the account goes; reminderSent is never reset.                   *)
Edit(t) ==
    /\ Counted
    /\ \/ task' = [task EXCEPT ![t].open = ~@]
       \/ task' = [task EXCEPT ![t].due = "later"]
       \/ task' = [task EXCEPT ![t].owner = FALSE]
    /\ moved' = [p \in Processes |-> IF t \in run[p].due THEN moved[p] \cup {t} ELSE moved[p]]
    /\ UNCHANGED <<proc, queues, run, again, dropped>>

(* Time goes on. *)
Pass(t) ==
    /\ task[t].due # "past"
    /\ task' = [task EXCEPT ![t].due = IF @ = "later" THEN "soon" ELSE "past"]
    /\ moved' = [p \in Processes |-> IF t \in run[p].due THEN moved[p] \cup {t} ELSE moved[p]]
    /\ UNCHANGED <<proc, queues, run, events, again, dropped>>

Work(p) == Boot(p) \/ Find(p) \/ Mark(p) \/ \E t \in Tasks : Send(p, t)

RemindersNext ==
    \/ Hour
    \/ \E p \in Processes : \/ Work(p) \/ Die(p) \/ RunThrows(p)
                            \/ \E t \in Tasks : Deliver(p, t) \/ SmtpThrows(p, t)
    \/ \E t \in Tasks : Edit(t) \/ Pass(t)

RemindersSpec == RemindersInit /\ [][RemindersNext]_reminderVars

(* The platform restarts a process that ended, cron fires every hour, and    *)
(* workers go on with what they have taken.                                  *)
FairReminders ==
    /\ RemindersSpec /\ WF_reminderVars(Hour)
    /\ \A p \in Processes : /\ WF_reminderVars(Work(p))
                            /\ WF_reminderVars(\E t \in Tasks : Deliver(p, t))

-----------------------------------------------------------------------------
(* Tasks, queues and runs keep their shape; only a process that reached      *)
(* Redis works.                                                              *)
RemindersTypeOK ==
    /\ task \in [Tasks -> Task] /\ proc \in [Processes -> Process]
    /\ hourly \in BOOLEAN /\ run \in [Processes -> Run]
    /\ mails \in [Tasks -> Nat] /\ inbox \in [Tasks -> Nat]
    /\ events \in Nat
    /\ moved \in [Processes -> SUBSET Tasks] /\ again \subseteq Tasks /\ dropped \subseteq Tasks
    /\ \A p \in Processes : /\ ~RunAt(p, "idle") => Works(p)
                            /\ RunAt(p, "mark") => run[p].task \in run[p].due

(* A task is marked only if a mail for it reached the inbox or is on its way *)
(* there, or SMTP refused it: a run that stops half-way forgets no task.     *)
MarkedIsMailed ==
    \A t \in Tasks : task[t].reminderSent =>
        inbox[t] > 0 \/ mails[t] > 0 \/ t \in dropped

(* Nobody is reminded of a task twice, unless two runs held it at the same   *)
(* time or a run or an email worker ended between a mail and its record.     *)
OneReminder == \A t \in Tasks \ again : inbox[t] <= 1

(* A run mails for open, due and unmarked tasks only, except for those that  *)
(* changed after it had found them.                                          *)
MailsWhatIsDue ==
    \A p \in Processes : \A t \in run[p].due \ moved[p] : Eligible(t) \/ t \in again

(* What a run may mail and mark, whichever runs and workers die. *)
ReminderSafety == MarkedIsMailed /\ OneReminder /\ MailsWhatIsDue

(* A task that stays due is marked in the end, whatever dies on the way, as  *)
(* long as some process has reached Redis.                                   *)
Deaf == \A p \in Processes : proc[p].up /\ ~proc[p].redis
DueIsMarked == \A t \in Tasks : Eligible(t) /\ task[t].owner ~> ~(Eligible(t) /\ task[t].owner) \/ Deaf
=============================================================================
