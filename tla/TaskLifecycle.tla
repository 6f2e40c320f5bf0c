--------------------------- MODULE TaskLifecycle ---------------------------
(* The tasks of one account: updateTask with its recurrence, the trash and   *)
(* the bulk operations of tasks.service.ts, and the cleanup job of           *)
(* trash_cleanup.job.ts, around the Task collection.                         *)
(*                                                                           *)
(* A PUT is split at its round trips: the findOne, the findOneAndUpdate and  *)
(* the Task.create of the next occurrence.  The other handlers are a single  *)
(* command.  Pending and in_progress are one status here, "open".  Fields    *)
(* that no guard reads (title, description, priority, tags, due date) are    *)
(* left out, and with them bulkSetPriority.                                  *)
EXTENDS Naturals, FiniteSets

CONSTANTS
    Tasks,          \* task ids; an id is never given out twice
    Requests,       \* PUTs in flight, by the owner or by an editor
    NoTask,
    Bodies,         \* what a PUT may change, out of Update
    MaxCreates,     \* bound: tasks that are not successors of others
    MaxUpdates,     \* bound: PUTs
    MaxFailures     \* bound: handlers that die, and commands that throw

ASSUME TaskAssumption ==
    /\ NoTask \notin Tasks
    /\ Bodies \subseteq [status : {"same", "open", "completed"},
                         recurs : {"same", "yes", "no"}]
    /\ MaxCreates \in Nat /\ MaxUpdates \in Nat /\ MaxFailures \in Nat

VARIABLES
    task,           \* the Task collection
    req,            \* local state of each updateTask
    updates, failures,  \* PUTs and faults so far
    origin,         \* history: which completion of which task a task was made by
    completions,    \* history: how often a task was completed
    owing,          \* history: completions of recurring tasks without a successor
    raced,          \* history: handlers whose task was written after their read
    excused         \* history: completions by such handlers, or by ones that died

vars == <<task, req, updates, failures, origin, completions, owing, raced, excused>>
history == <<origin, completions, owing, raced, excused>>

-----------------------------------------------------------------------------
(* "expired": in the trash for longer than the retention period *)
Recurs  == {"yes", "no"}
Task    == [st : {"absent", "live", "trash", "purged"},
            status : {"open", "completed"}, recurs : Recurs, expired : BOOLEAN]
Update  == [status : {"same", "open", "completed"}, recurs : {"same"} \cup Recurs]
Request == [pc : {"idle", "write", "spawn"}, task : Tasks \cup {NoTask},
            updates : Update, status : {"open", "completed"}, recurs : Recurs,
            nth : Nat]
Origin  == [parent : Tasks \cup {NoTask}, nth : Nat]

NoUpdate == [status |-> "same", recurs |-> "same"]
Idle == [pc |-> "idle", task |-> NoTask, updates |-> NoUpdate, status |-> "open",
         recurs |-> "no", nth |-> 0]

Purged == [st |-> "purged", status |-> "open", recurs |-> "no", expired |-> FALSE]

At(r, pc) == req[r].pc = pc
Live(t)   == task[t].st = "live"
InTrash(t) == task[t].st = "trash"

(* Handlers that have read one of the tasks in S and not yet written it. *)
Readers(S) == {q \in Requests : At(q, "write") /\ req[q].task \in S}

Init ==
    /\ task = [t \in Tasks |-> [st |-> "absent", status |-> "open",
                                recurs |-> "no", expired |-> FALSE]]
    /\ req = [r \in Requests |-> Idle]
    /\ updates = 0 /\ failures = 0
    /\ origin = [t \in Tasks |-> [parent |-> NoTask, nth |-> 0]]
    /\ completions = [t \in Tasks |-> 0]
    /\ owing = {} /\ raced = {} /\ excused = {}

-----------------------------------------------------------------------------
(* createTask, and each row that importTasks inserts *)
createTask(t, recurs) ==
    /\ task[t].st = "absent"
    /\ Cardinality({s \in Tasks : task[s].st # "absent" /\ origin[s].parent = NoTask})
         < MaxCreates
    /\ task' = [task EXCEPT ![t].st = "live", ![t].recurs = recurs]
    /\ UNCHANGED <<req, updates, failures, history>>

-----------------------------------------------------------------------------
(* updateTask: the findOne *)
FindExisting(r, t, u) ==
    /\ At(r, "idle") /\ Live(t)
    /\ updates < MaxUpdates /\ updates' = updates + 1
    /\ req' = [req EXCEPT ![r] = [pc |-> "write", task |-> t, updates |-> u,
                                  status |-> task[t].status,
                                  recurs |-> task[t].recurs, nth |-> 0]]
    /\ UNCHANGED <<task, failures, history>>

Completing(r) == req[r].updates.status = "completed"

(* Seeded fault: the filter does not look at the status. *)
Matches_AnyStatus(r) == task[req[r].task].st = "live"

(* Seeded fault: the filter does not look at deletedAt. *)
Matches_InTrash(r) ==
    LET t == task[req[r].task] IN
    t.st \in {"live", "trash"} /\ (Completing(r) => t.status # "completed")

(* The filter of the findOneAndUpdate *)
Matches(r) ==
    LET t == task[req[r].task] IN
    t.st = "live" /\ (Completing(r) => t.status # "completed")

Updated(doc, u) ==
    [doc EXCEPT !.status = IF u.status = "same" THEN @ ELSE u.status,
                !.recurs = IF u.recurs = "same" THEN @ ELSE u.recurs]

(* Seeded fault: the status of the updated document is looked at. *)
Spawns_Updated(r) ==
    LET updated == Updated(task[req[r].task], req[r].updates) IN
    Completing(r) /\ updated.status # "completed" /\ updated.recurs = "yes"

(* Whether to create a successor is decided by what the findOne returned. *)
Spawns(r) == Completing(r) /\ req[r].status # "completed" /\ req[r].recurs = "yes"

(* The findOneAndUpdate matches. *)
FindOneAndUpdate(r) ==
    LET t == req[r].task
        nth == completions[t] + 1
        completes == Completing(r) /\ task[t].status # "completed"
    IN
    /\ At(r, "write") /\ Matches(r)
    /\ task' = [task EXCEPT ![t] = Updated(@, req[r].updates)]
    /\ \/ Spawns(r) /\ req' = [req EXCEPT ![r].pc = "spawn", ![r].nth = nth]
       \/ ~Spawns(r) /\ req' = [req EXCEPT ![r] = Idle]
    /\ completions' = IF completes THEN [completions EXCEPT ![t] = nth] ELSE completions
    /\ owing' = IF completes /\ task[t].recurs = "yes" THEN owing \cup {<<t, nth>>} ELSE owing
    /\ excused' = IF completes /\ r \in raced THEN excused \cup {<<t, nth>>} ELSE excused
    /\ raced' = (raced \cup Readers({t})) \ {r}
    /\ UNCHANGED <<updates, failures, origin>>

(* ... or it does not: the handler answers with the task as it is, or 404    *)
NoMatch(r) ==
    /\ At(r, "write") /\ ~Matches(r)
    /\ req' = [req EXCEPT ![r] = Idle]
    /\ raced' = raced \ {r}
    /\ UNCHANGED <<task, updates, failures, origin, completions, owing, excused>>

(* The Task.create of the next occurrence, from the document that the        *)
(* findOne returned                                                          *)
Spawn(r, child) ==
    /\ At(r, "spawn") /\ task[child].st = "absent"
    /\ task' = [task EXCEPT ![child].st = "live", ![child].recurs = req[r].recurs]
    /\ origin' = [origin EXCEPT ![child] = [parent |-> req[r].task, nth |-> req[r].nth]]
    /\ owing' = owing \ {<<req[r].task, req[r].nth>>}
    /\ req' = [req EXCEPT ![r] = Idle]
    /\ UNCHANGED <<updates, failures, completions, raced, excused>>

(* The process dies, or a command throws. *)
Fail(r) ==
    /\ ~At(r, "idle")
    /\ failures < MaxFailures /\ failures' = failures + 1
    /\ req' = [req EXCEPT ![r] = Idle]
    /\ excused' = IF At(r, "spawn") THEN excused \cup {<<req[r].task, req[r].nth>>}
                  ELSE excused
    /\ raced' = raced \ {r}
    /\ UNCHANGED <<task, updates, origin, completions, owing>>

-----------------------------------------------------------------------------
(* The trash and the bulk operations.  S: those of the requested ids that    *)
(* the filter of the command matches.                                        *)
softDeleteTasks(S) ==
    /\ \A t \in S : Live(t)
    /\ task' = [t \in Tasks |-> IF t \in S THEN [task[t] EXCEPT !.st = "trash"]
                                ELSE task[t]]
    /\ UNCHANGED <<req, updates, failures, history>>

restoreTasks(S) ==
    /\ \A t \in S : InTrash(t)
    /\ task' = [t \in Tasks |->
                  IF t \in S THEN [task[t] EXCEPT !.st = "live", !.expired = FALSE]
                  ELSE task[t]]
    /\ UNCHANGED <<req, updates, failures, history>>

Purge(S) ==
    /\ task' = [t \in Tasks |-> IF t \in S THEN Purged ELSE task[t]]
    /\ UNCHANGED <<req, updates, failures, history>>

purgeTasks(S) == (\A t \in S : InTrash(t)) /\ Purge(S)
emptyTrash == Purge({t \in Tasks : InTrash(t)})

(* deletedAt falls behind the cutoff of the job, and the job runs. *)
RetentionEnds(t) ==
    /\ InTrash(t)
    /\ task' = [task EXCEPT ![t].expired = TRUE]
    /\ UNCHANGED <<req, updates, failures, history>>

runTrashCleanup == Purge({t \in Tasks : InTrash(t) /\ task[t].expired})

(* Without a successor, deliberately *)
bulkCompleteTasks(S) ==
    /\ \A t \in S : Live(t) /\ task[t].status # "completed"
    /\ task' = [t \in Tasks |-> IF t \in S THEN [task[t] EXCEPT !.status = "completed"]
                                ELSE task[t]]
    /\ completions' = [t \in Tasks |-> IF t \in S THEN completions[t] + 1
                                       ELSE completions[t]]
    /\ raced' = raced \cup Readers(S)
    /\ UNCHANGED <<req, updates, failures, origin, owing, excused>>

-----------------------------------------------------------------------------
Next ==
    \/ \E t \in Tasks :
         \/ \E recurs \in Recurs : createTask(t, recurs)
         \/ RetentionEnds(t)
    \/ \E r \in Requests :
         \/ FindOneAndUpdate(r) \/ NoMatch(r) \/ Fail(r)
         \/ \E t \in Tasks, u \in Bodies : FindExisting(r, t, u)
         \/ \E child \in Tasks : Spawn(r, child)
    \/ \E S \in SUBSET Tasks :
         softDeleteTasks(S) \/ restoreTasks(S) \/ purgeTasks(S) \/ bulkCompleteTasks(S)
    \/ emptyTrash \/ runTrashCleanup

Spec == Init /\ [][Next]_vars

-----------------------------------------------------------------------------
(* Every variable keeps its shape; only what is in the trash ages there.     *)
TypeOK ==
    /\ task \in [Tasks -> Task]
    /\ req \in [Requests -> Request]
    /\ updates \in Nat /\ failures \in Nat
    /\ origin \in [Tasks -> Origin]
    /\ completions \in [Tasks -> Nat]
    /\ owing \subseteq Tasks \X Nat /\ excused \subseteq Tasks \X Nat
    /\ raced \subseteq Requests
    /\ \A r \in Requests : ~At(r, "idle") => req[r].task \in Tasks
    /\ \A t \in Tasks : task[t].expired => InTrash(t)

(* updateTask: completing a task has at most one successor, whatever else    *)
(* completes, reopens, trashes or restores it meanwhile; a task with several *)
(* successors was completed that often.                                      *)
SpawnOncePerCompletion ==
    \A c, d \in Tasks :
        LET p == origin[c].parent IN
        p # NoTask =>
            /\ origin[c].nth \in 1..completions[p]
            /\ origin[d] = origin[c] => d = c

(* updateTask: a completed recurring task stays without a successor only if  *)
(* its handler was overtaken by another write between its findOne and its    *)
(* findOneAndUpdate, or died; else the handler is about to create it.        *)
LostSpawnNeedsRace ==
    \A p \in owing \ excused :
        \E r \in Requests : At(r, "spawn") /\ p = <<req[r].task, req[r].nth>>

(* updateTask: one completion, one successor, and none only after a race. *)
SpawnSafety == SpawnOncePerCompletion /\ LostSpawnNeedsRace

(* The trash, against handlers that read a task before it was trashed: what  *)
(* is in the trash comes out as it went in, what is live leaves only through *)
(* the trash, and what is purged stays so.                                   *)
TrashIsFrozen ==
    [][\A t \in Tasks :
         /\ InTrash(t) => \/ task'[t] = Purged
                          \/ /\ task'[t].st \in {"live", "trash"}
                             /\ task'[t].status = task[t].status
                             /\ task'[t].recurs = task[t].recurs
         /\ Live(t) => task'[t].st \in {"live", "trash"}
         /\ task[t].st = "purged" => task'[t] = task[t]]_vars
=============================================================================
