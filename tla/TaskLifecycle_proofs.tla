------------------------ MODULE TaskLifecycle_proofs ------------------------
(* Proofs about the tasks of an account, for any number of tasks, PUTs and   *)
(* faults and any bodies of the PUTs.                                        *)
EXTENDS TaskLifecycle, TLAPS

(* A handler that is about to create a successor claims a completion: nobody *)
(* else does, and no successor was made by it.                               *)
ClaimsOK ==
    \A r \in Requests : At(r, "spawn") =>
        /\ req[r].nth \in 1..completions[req[r].task]
        /\ \A q \in Requests :
             (At(q, "spawn") /\ req[q].task = req[r].task /\ req[q].nth = req[r].nth)
                 => q = r
        /\ \A c \in Tasks :
             ~(origin[c].parent = req[r].task /\ origin[c].nth = req[r].nth)

(* SpawnOncePerCompletion, field by field *)
OriginsOK ==
    \A c \in Tasks : origin[c].parent # NoTask =>
        /\ origin[c].nth \in 1..completions[origin[c].parent]
        /\ \A d \in Tasks :
             (origin[d].parent = origin[c].parent /\ origin[d].nth = origin[c].nth)
                 => d = c

(* What a handler has read is what it will update, unless somebody wrote it. *)
Fresh(r) ==
    \/ task[req[r].task].st = "purged"
    \/ /\ task[req[r].task].status = req[r].status
       /\ task[req[r].task].recurs = req[r].recurs

ReadOK ==
    \A r \in Requests : At(r, "write") =>
        /\ task[req[r].task].st # "absent"
        /\ r \notin raced => Fresh(r)

IInv == TypeOK /\ ClaimsOK /\ OriginsOK /\ ReadOK /\ LostSpawnNeedsRace

LEMMA InitInv == Init => IInv
<1> SUFFICES ASSUME Init PROVE IInv
  OBVIOUS
<1>1. TypeOK
  BY DEF Init, TypeOK, Task, Recurs, Request, Update, Origin, Idle, NoUpdate, At, InTrash
<1>2. ClaimsOK /\ ReadOK
  BY DEF Init, ClaimsOK, ReadOK, At, Idle
<1>3. OriginsOK /\ LostSpawnNeedsRace
  BY DEF Init, OriginsOK, LostSpawnNeedsRace
<1>. QED
  BY <1>1, <1>2, <1>3 DEF IInv

-----------------------------------------------------------------------------
(* A step that changes tasks only, outside updateTask: it leaves the status  *)
(* and the recurrence of every task alone that it does not remove.           *)
Kept ==
    \A t \in Tasks : task[t].st # "absent" =>
        /\ task'[t].st # "absent"
        /\ \/ task'[t].st = "purged"
           \/ /\ task[t].st # "purged"
              /\ task'[t].status = task[t].status /\ task'[t].recurs = task[t].recurs

Aged == \A t \in Tasks : task'[t].expired => task'[t].st = "trash"

(* TrashIsFrozen, of one step *)
Frozen ==
    \A t \in Tasks :
      /\ InTrash(t) => \/ task'[t] = Purged
                       \/ /\ task'[t].st \in {"live", "trash"}
                          /\ task'[t].status = task[t].status
                          /\ task'[t].recurs = task[t].recurs
      /\ Live(t) => task'[t].st \in {"live", "trash"}
      /\ task[t].st = "purged" => task'[t] = task[t]

LEMMA CreateKeeps ==
    ASSUME TypeOK, NEW t \in Tasks, NEW recurs \in Recurs, createTask(t, recurs)
    PROVE  task' \in [Tasks -> Task] /\ Kept /\ Aged /\ Frozen
<1> DEFINE d(m) == [m EXCEPT !.st = "live", !.recurs = recurs]
<1>1. ASSUME NEW m \in Task
      PROVE  d(m) \in Task /\ (d(m).expired = m.expired)
  BY DEF Task
<1>2. task' = [task EXCEPT ![t] = d(task[t])]
  BY DEF createTask
<1>3. task[t] \in Task /\ task[t].st = "absent" /\ task[t].expired = FALSE
  BY DEF TypeOK, createTask, InTrash, Task
<1> HIDE DEF d
<1>4. task' \in [Tasks -> Task] /\ task'[t].expired = FALSE
  BY <1>1, <1>2, <1>3 DEF TypeOK
<1>5. \A s \in Tasks : s # t => task'[s] = task[s]
  BY <1>2 DEF TypeOK
<1>6. Kept
  BY <1>3, <1>5 DEF Kept
<1>7. Aged
  BY <1>4, <1>5 DEF Aged, TypeOK, InTrash
<1>8. ASSUME NEW s \in Tasks, task[s].st # "absent"
      PROVE  task'[s] = task[s]
  BY <1>3, <1>5, <1>8
<1>9. Frozen
  BY <1>8 DEF Frozen, InTrash, Live
<1>. QED
  BY <1>4, <1>6, <1>7, <1>9

LEMMA SoftDeleteKeeps ==
    ASSUME TypeOK, NEW S \in SUBSET Tasks, softDeleteTasks(S)
    PROVE  task' \in [Tasks -> Task] /\ Kept /\ Aged /\ Frozen
<1> DEFINE d(m) == [m EXCEPT !.st = "trash"]
<1>1. ASSUME NEW m \in Task
      PROVE  d(m) \in Task /\ d(m).st = "trash" /\ d(m).status = m.status
             /\ d(m).recurs = m.recurs
  BY DEF Task
<1>2. task' = [t \in Tasks |-> IF t \in S THEN d(task[t]) ELSE task[t]]
  BY DEF softDeleteTasks
<1>3. \A t \in S : task[t].st = "live"
  BY DEF softDeleteTasks, Live
<1> HIDE DEF d
<1>4. \A t \in Tasks : task[t] \in Task
  BY DEF TypeOK
<1>5. task' \in [Tasks -> Task]
  BY <1>1, <1>2, <1>4
<1>6. Kept /\ Aged /\ Frozen
  BY <1>1, <1>2, <1>3, <1>4 DEF Kept, Aged, Frozen, TypeOK, InTrash, Live
<1>. QED
  BY <1>5, <1>6

LEMMA RestoreKeeps ==
    ASSUME TypeOK, NEW S \in SUBSET Tasks, restoreTasks(S)
    PROVE  task' \in [Tasks -> Task] /\ Kept /\ Aged /\ Frozen
<1> DEFINE d(m) == [m EXCEPT !.st = "live", !.expired = FALSE]
<1>1. ASSUME NEW m \in Task
      PROVE  d(m) \in Task /\ d(m).st = "live" /\ d(m).status = m.status
             /\ d(m).recurs = m.recurs /\ d(m).expired = FALSE
  BY DEF Task
<1>2. task' = [t \in Tasks |-> IF t \in S THEN d(task[t]) ELSE task[t]]
  BY DEF restoreTasks
<1>3. \A t \in S : task[t].st = "trash"
  BY DEF restoreTasks, InTrash
<1> HIDE DEF d
<1>4. \A t \in Tasks : task[t] \in Task
  BY DEF TypeOK
<1>5. task' \in [Tasks -> Task]
  BY <1>1, <1>2, <1>4
<1>6. Kept /\ Aged /\ Frozen
  BY <1>1, <1>2, <1>3, <1>4 DEF Kept, Aged, Frozen, TypeOK, InTrash, Live
<1>. QED
  BY <1>5, <1>6

LEMMA PurgeKeeps ==
    ASSUME TypeOK, NEW S \in SUBSET Tasks, \A t \in S : InTrash(t), Purge(S)
    PROVE  task' \in [Tasks -> Task] /\ Kept /\ Aged /\ Frozen
<1>1. Purged \in Task /\ Purged.st = "purged" /\ Purged.expired = FALSE
  BY DEF Purged, Task, Recurs
<1>2. task' = [t \in Tasks |-> IF t \in S THEN Purged ELSE task[t]]
  BY DEF Purge
<1>3. \A t \in Tasks : task[t] \in Task
  BY DEF TypeOK
<1>4. task' \in [Tasks -> Task]
  BY <1>1, <1>2, <1>3
<1>5. Kept /\ Aged
  BY <1>1, <1>2 DEF Kept, Aged, TypeOK, InTrash
<1>6. Frozen
  BY <1>2 DEF Frozen, InTrash, Live
<1>. QED
  BY <1>4, <1>5, <1>6

LEMMA RetentionKeeps ==
    ASSUME TypeOK, NEW t \in Tasks, RetentionEnds(t)
    PROVE  task' \in [Tasks -> Task] /\ Kept /\ Aged /\ Frozen
<1> DEFINE d(m) == [m EXCEPT !.expired = TRUE]
<1>1. ASSUME NEW m \in Task
      PROVE  d(m) \in Task /\ d(m).st = m.st /\ d(m).status = m.status
             /\ d(m).recurs = m.recurs
  BY DEF Task
<1>2. task' = [task EXCEPT ![t] = d(task[t])]
  BY DEF RetentionEnds
<1>3. task[t] \in Task /\ task[t].st = "trash"
  BY DEF TypeOK, RetentionEnds, InTrash
<1> HIDE DEF d
<1>4. task' \in [Tasks -> Task]
  BY <1>1, <1>2, <1>3 DEF TypeOK
<1>5. \A s \in Tasks : s # t => task'[s] = task[s]
  BY <1>2 DEF TypeOK
<1>6. /\ task'[t].st = "trash" /\ task'[t].status = task[t].status
      /\ task'[t].recurs = task[t].recurs
  BY <1>1, <1>2, <1>3 DEF TypeOK
<1>7. Kept /\ Aged /\ Frozen
  BY <1>3, <1>5, <1>6 DEF Kept, Aged, Frozen, TypeOK, InTrash, Live
<1>. QED
  BY <1>4, <1>7

(* None of these touches anything but the tasks. *)
LEMMA TasksOnly ==
    ASSUME IInv, UNCHANGED <<req, updates, failures, history>>,
           task' \in [Tasks -> Task], Kept, Aged
    PROVE  IInv'
<1>1. TypeOK'
  BY DEF IInv, TypeOK, Aged, InTrash, At, history
<1>2. ClaimsOK' /\ OriginsOK' /\ LostSpawnNeedsRace'
  BY DEF IInv, ClaimsOK, OriginsOK, LostSpawnNeedsRace, At, history
<1>3. ReadOK'
  <2>1. req' = req /\ raced' = raced
    BY DEF history
  <2>2. ASSUME NEW r \in Requests, req[r].pc = "write"
        PROVE  /\ task'[req[r].task].st # "absent"
               /\ r \notin raced => \/ task'[req[r].task].st = "purged"
                                   \/ /\ task'[req[r].task].status = req[r].status
                                      /\ task'[req[r].task].recurs = req[r].recurs
    <3>1. /\ req[r].task \in Tasks /\ task[req[r].task].st # "absent"
          /\ (r \notin raced => Fresh(r))
      BY <2>2 DEF IInv, TypeOK, ReadOK, At
    <3>. QED
      BY <3>1 DEF Kept, Fresh
  <2>. QED
    BY <2>1, <2>2 DEF ReadOK, Fresh, At
<1>. QED
  BY <1>1, <1>2, <1>3 DEF IInv

-----------------------------------------------------------------------------
(* A handler of updateTask moves on. *)
LEMMA ReqEffect ==
    ASSUME TypeOK, NEW r \in Requests, NEW d \in Request,
           req' = [req EXCEPT ![r] = d]
    PROVE  /\ req' \in [Requests -> Request] /\ req'[r] = d
           /\ \A q \in Requests : q # r => req'[q] = req[q]
BY DEF TypeOK

LEMMA IdleType == Idle \in Request /\ Idle.pc = "idle"
BY DEF Idle, Request, NoUpdate, Update, Recurs

LEMMA IdleEffect ==
    ASSUME TypeOK, NEW r \in Requests, req' = [req EXCEPT ![r] = Idle]
    PROVE  /\ req' \in [Requests -> Request] /\ req'[r].pc = "idle"
           /\ \A q \in Requests : req'[q].pc # "idle" => q # r /\ req'[q] = req[q]
BY ReqEffect, IdleType

LEMMA FindExistingInv ==
    ASSUME IInv, NEW r \in Requests, NEW t \in Tasks, NEW u \in Bodies,
           FindExisting(r, t, u)
    PROVE  IInv'
<1> DEFINE d == [pc |-> "write", task |-> t, updates |-> u, status |-> task[t].status,
                 recurs |-> task[t].recurs, nth |-> 0]
<1>1. TypeOK /\ task[t] \in Task /\ task[t].st = "live"
  BY DEF IInv, TypeOK, FindExisting, Live
<1>2. u \in Update
  BY TaskAssumption DEF Update, Recurs
<1>3. d \in Request /\ d.pc = "write" /\ d.task = t /\ d.status = task[t].status
      /\ d.recurs = task[t].recurs
  BY <1>1, <1>2 DEF Request, Task
<1>4. /\ req' = [req EXCEPT ![r] = d]
      /\ UNCHANGED <<task, failures, origin, completions, owing, raced, excused>>
      /\ updates' = updates + 1 /\ req[r].pc = "idle"
  BY DEF FindExisting, history, At
<1> HIDE DEF d
<1>5. /\ req' \in [Requests -> Request] /\ req'[r] = d
      /\ \A q \in Requests : q # r => req'[q] = req[q]
  BY <1>1, <1>3, <1>4, ReqEffect
<1>6. TypeOK'
  BY <1>1, <1>3, <1>4, <1>5 DEF TypeOK, At, InTrash
<1>7. ClaimsOK'
  <2>1. \A q \in Requests : req'[q].pc = "spawn" => q # r /\ req'[q] = req[q]
    BY <1>3, <1>5
  <2>. QED
    BY <1>4, <2>1 DEF IInv, ClaimsOK, At
<1>8. OriginsOK'
  BY <1>4 DEF IInv, OriginsOK
<1>9. ReadOK'
  BY <1>1, <1>3, <1>4, <1>5 DEF IInv, ReadOK, Fresh, At
<1>10. LostSpawnNeedsRace'
  <2>1. \A q \in Requests : req[q].pc = "spawn" => q # r /\ req'[q] = req[q]
    BY <1>4, <1>5
  <2>. QED
    BY <1>4, <2>1 DEF IInv, LostSpawnNeedsRace, At
<1>. QED
  BY <1>6, <1>7, <1>8, <1>9, <1>10 DEF IInv

LEMMA NoMatchInv ==
    ASSUME IInv, NEW r \in Requests, NoMatch(r)
    PROVE  IInv'
<1>1. /\ UNCHANGED <<task, updates, failures, origin, completions, owing, excused>>
      /\ raced' = raced \ {r} /\ req' = [req EXCEPT ![r] = Idle]
      /\ req[r].pc = "write" /\ TypeOK
  BY DEF NoMatch, At, IInv
<1>2. /\ req' \in [Requests -> Request] /\ req'[r].pc = "idle"
      /\ \A q \in Requests : req'[q].pc # "idle" => q # r /\ req'[q] = req[q]
  BY <1>1, IdleEffect
<1>3. \A q \in Requests : q # r => req'[q] = req[q]
  BY <1>1 DEF TypeOK
<1>4. TypeOK'
  BY <1>1, <1>2 DEF TypeOK, At, InTrash
<1>5. ClaimsOK'
  BY <1>1, <1>2 DEF IInv, ClaimsOK, At
<1>6. OriginsOK'
  BY <1>1 DEF IInv, OriginsOK
<1>7. ReadOK'
  BY <1>1, <1>2 DEF IInv, ReadOK, Fresh, At
<1>8. LostSpawnNeedsRace'
  BY <1>1, <1>3 DEF IInv, LostSpawnNeedsRace, At
<1>. QED
  BY <1>4, <1>5, <1>6, <1>7, <1>8 DEF IInv

LEMMA FailInv ==
    ASSUME IInv, NEW r \in Requests, Fail(r)
    PROVE  IInv'
<1> DEFINE p == <<req[r].task, req[r].nth>>
<1>1. /\ UNCHANGED <<task, updates, origin, completions, owing>>
      /\ failures' = failures + 1
      /\ excused' = IF req[r].pc = "spawn" THEN excused \cup {p} ELSE excused
      /\ raced' = raced \ {r} /\ req' = [req EXCEPT ![r] = Idle] /\ TypeOK
  BY DEF Fail, At, IInv
<1>2. /\ req' \in [Requests -> Request] /\ req'[r].pc = "idle"
      /\ \A q \in Requests : req'[q].pc # "idle" => q # r /\ req'[q] = req[q]
  BY <1>1, IdleEffect
<1>3. \A q \in Requests : q # r => req'[q] = req[q]
  BY <1>1 DEF TypeOK
<1>4. req[r].pc = "spawn" => p \in Tasks \X Nat
  BY <1>1 DEF TypeOK, At, Request
<1>5. TypeOK'
  BY <1>1, <1>2, <1>4 DEF TypeOK, At, InTrash
<1>6. ClaimsOK'
  BY <1>1, <1>2 DEF IInv, ClaimsOK, At
<1>7. OriginsOK'
  BY <1>1 DEF IInv, OriginsOK
<1>8. ReadOK'
  BY <1>1, <1>2 DEF IInv, ReadOK, Fresh, At
<1>9. LostSpawnNeedsRace'
  BY <1>1, <1>3 DEF IInv, LostSpawnNeedsRace, At
<1>. QED
  BY <1>5, <1>6, <1>7, <1>8, <1>9 DEF IInv

(* The successor takes the claim of its handler over. *)
LEMMA SpawnInv ==
    ASSUME IInv, NEW r \in Requests, NEW child \in Tasks, Spawn(r, child)
    PROVE  IInv' /\ Frozen
<1> DEFINE p == req[r].task
           n == req[r].nth
           d(m) == [m EXCEPT !.st = "live", !.recurs = req[r].recurs]
           o == [parent |-> p, nth |-> n]
<1>1. /\ UNCHANGED <<updates, failures, completions, raced, excused>>
      /\ task' = [task EXCEPT ![child] = d(task[child])]
      /\ origin' = [origin EXCEPT ![child] = o]
      /\ owing' = owing \ {<<p, n>>} /\ req' = [req EXCEPT ![r] = Idle]
      /\ req[r].pc = "spawn" /\ task[child].st = "absent" /\ TypeOK
  BY DEF Spawn, At, IInv
<1>2. /\ req' \in [Requests -> Request] /\ req'[r].pc = "idle"
      /\ \A q \in Requests : req'[q].pc # "idle" => q # r /\ req'[q] = req[q]
  BY <1>1, IdleEffect
<1>3. \A q \in Requests : q # r => req'[q] = req[q]
  BY <1>1 DEF TypeOK
<1>4. p \in Tasks /\ n \in Nat /\ req[r].recurs \in Recurs
  BY <1>1 DEF TypeOK, At, Request
<1>5. ASSUME NEW m \in Task
      PROVE  d(m) \in Task /\ d(m).st = "live" /\ (d(m).expired = m.expired)
  BY <1>4 DEF Task
<1>6. task[child] \in Task /\ task[child].expired = FALSE
  BY <1>1 DEF TypeOK, InTrash, Task
<1> HIDE DEF d
<1>7. /\ task' \in [Tasks -> Task] /\ task'[child].expired = FALSE
      /\ task'[child].st = "live"
      /\ \A s \in Tasks : s # child => task'[s] = task[s]
  BY <1>1, <1>5, <1>6 DEF TypeOK
<1>8. o \in Origin
  BY <1>4 DEF Origin
<1>9. /\ origin' \in [Tasks -> Origin]
      /\ origin'[child].parent = p /\ origin'[child].nth = n
      /\ \A s \in Tasks : s # child => origin'[s] = origin[s]
  BY <1>1, <1>8 DEF TypeOK
<1> HIDE DEF o
<1>10. TypeOK'
  BY <1>1, <1>2, <1>7, <1>9 DEF TypeOK, At, InTrash
<1>11. /\ n \in 1..completions[p]
       /\ \A q \in Requests :
            (req[q].pc = "spawn" /\ req[q].task = p /\ req[q].nth = n) => q = r
       /\ \A c \in Tasks : ~(origin[c].parent = p /\ origin[c].nth = n)
  BY <1>1 DEF IInv, ClaimsOK, At
<1>12. ClaimsOK'
  BY <1>1, <1>2, <1>9, <1>11 DEF IInv, ClaimsOK, At
<1>13. OriginsOK'
  BY <1>1, <1>9, <1>11 DEF IInv, OriginsOK
<1>14. ReadOK'
  <2>1. ASSUME NEW q \in Requests, req[q].pc = "write"
        PROVE  req[q].task \in Tasks /\ req[q].task # child
    BY <1>1, <2>1 DEF IInv, TypeOK, ReadOK, At
  <2>. QED
    BY <1>1, <1>2, <1>7, <2>1 DEF IInv, ReadOK, Fresh, At
<1>15. LostSpawnNeedsRace'
  BY <1>1, <1>3 DEF IInv, LostSpawnNeedsRace, At
<1>16. Frozen
  BY <1>1, <1>7 DEF Frozen, InTrash, Live
<1>. QED
  BY <1>10, <1>12, <1>13, <1>14, <1>15, <1>16 DEF IInv

LEMMA UpdatedEffect ==
    ASSUME NEW doc \in Task, NEW u \in Update
    PROVE  /\ Updated(doc, u) \in Task /\ Updated(doc, u).st = doc.st
           /\ (Updated(doc, u).expired = doc.expired)
<1> DEFINE x == IF u.status = "same" THEN doc.status ELSE u.status
           y == IF u.recurs = "same" THEN doc.recurs ELSE u.recurs
           d == [doc EXCEPT !.status = x, !.recurs = y]
<1>1. x \in {"open", "completed"} /\ y \in Recurs
  BY DEF Task, Update
<1>2. Updated(doc, u) = d
  BY DEF Updated
<1> HIDE DEF x, y
<1>3. d \in Task /\ d.st = doc.st /\ (d.expired = doc.expired)
  BY <1>1 DEF Task
<1>. QED
  BY <1>2, <1>3

(* A completion by updateTask is a new one: nobody claims it before, and the *)
(* handler does if what it read is still so.                                 *)
LEMMA UpdateInv ==
    ASSUME IInv, NEW r \in Requests, FindOneAndUpdate(r)
    PROVE  IInv' /\ Frozen
<1> DEFINE t == req[r].task
           nth == completions[t] + 1
           completes == Completing(r) /\ task[t].status # "completed"
           p == <<t, nth>>
           s == [req[r] EXCEPT !.pc = "spawn", !.nth = nth]
<1>1. /\ TypeOK /\ t \in Tasks /\ req[r] \in Request /\ task[t] \in Task
      /\ completions[t] \in Nat /\ req[r].updates \in Update
  BY DEF IInv, TypeOK, FindOneAndUpdate, At, Request
<1>2. nth \in Nat /\ nth > completions[t] /\ nth \in 1..nth
  BY <1>1
<1>3. /\ req[r].pc = "write" /\ task[t].st = "live"
      /\ Completing(r) => completes
      /\ task' = [task EXCEPT ![t] = Updated(task[t], req[r].updates)]
      /\ \/ Spawns(r) /\ req' = [req EXCEPT ![r] = s]
         \/ ~Spawns(r) /\ req' = [req EXCEPT ![r] = Idle]
      /\ completions' = IF completes THEN [completions EXCEPT ![t] = nth] ELSE completions
      /\ owing' = IF completes /\ task[t].recurs = "yes" THEN owing \cup {p} ELSE owing
      /\ excused' = IF completes /\ r \in raced THEN excused \cup {p} ELSE excused
      /\ raced' = (raced \cup Readers({t})) \ {r}
      /\ UNCHANGED <<updates, failures, origin>>
  BY DEF FindOneAndUpdate, Matches, At
<1>4. Spawns(r) => completes
  BY <1>3 DEF Spawns
<1>5. s \in Request /\ s.pc = "spawn" /\ s.nth = nth /\ s.task = t
  <2> HIDE DEF nth
  <2>. QED
    BY <1>1, <1>2 DEF Request
<1> HIDE DEF nth, completes, s
<1>6. /\ task' \in [Tasks -> Task] /\ task'[t].st = "live"
      /\ (task'[t].expired = task[t].expired)
      /\ \A c \in Tasks : c # t => task'[c] = task[c]
  BY <1>1, <1>3, UpdatedEffect DEF TypeOK
<1>7. /\ completions' \in [Tasks -> Nat]
      /\ \A c \in Tasks : completions[c] \in Nat /\ completions'[c] >= completions[c]
      /\ completes => completions'[t] = nth
  BY <1>1, <1>2, <1>3 DEF TypeOK
<1>8. /\ req' \in [Requests -> Request]
      /\ Spawns(r) => req'[r].pc = "spawn" /\ req'[r].nth = nth /\ req'[r].task = t
      /\ ~Spawns(r) => req'[r].pc = "idle"
      /\ \A q \in Requests : q # r => req'[q] = req[q]
  BY <1>1, <1>3, <1>5, IdleType DEF TypeOK
<1>9. p \in Tasks \X Nat
  BY <1>1, <1>2
<1>10. TypeOK'
  BY <1>1, <1>3, <1>6, <1>7, <1>8, <1>9 DEF TypeOK, At, InTrash, Readers
<1>11. OriginsOK'
  <2>1. \A c \in Tasks : origin[c].parent # NoTask =>
           origin[c].parent \in Tasks /\ origin[c].nth \in Nat
    BY <1>1 DEF TypeOK, Origin
  <2>. QED
    BY <1>3, <1>7, <2>1 DEF IInv, OriginsOK
<1>12. ClaimsOK'
  <2>1. ASSUME NEW q \in Requests, req'[q].pc = "spawn", q # r
        PROVE  /\ req'[q] = req[q] /\ req[q].task \in Tasks
               /\ req[q].nth \in 1..completions[req[q].task]
               /\ req[q].nth \in 1..completions'[req[q].task]
               /\ ~(req[q].task = t /\ req[q].nth = nth)
    <3>1. req'[q] = req[q] /\ req[q].task \in Tasks
          /\ req[q].nth \in 1..completions[req[q].task]
      BY <1>8, <2>1 DEF IInv, ClaimsOK, TypeOK, At
    <3>2. req[q].nth \in 1..completions'[req[q].task]
      BY <1>7, <3>1
    <3>3. req[q].task = t => req[q].nth # nth
      BY <1>1, <1>2, <3>1
    <3>. QED
      BY <3>1, <3>2, <3>3
  <2>2. ASSUME NEW c \in Tasks
        PROVE  ~(origin[c].parent = t /\ origin[c].nth = nth)
    <3>1. origin[c].parent = t => origin[c].nth \in 1..completions[t]
      BY <1>1, TaskAssumption DEF IInv, OriginsOK
    <3>. QED
      BY <1>1, <1>2, <3>1
  <2>3. CASE Spawns(r)
    <3>1. completions'[t] = nth
      BY <1>4, <1>7, <2>3
    <3>2. req'[r].pc = "spawn" /\ req'[r].nth = nth /\ req'[r].task = t
      BY <1>8, <2>3
    <3>3. ASSUME NEW q \in Requests, req'[q].pc = "spawn"
          PROVE  /\ req'[q].nth \in 1..completions'[req'[q].task]
                 /\ \A v \in Requests :
                      (/\ req'[v].pc = "spawn" /\ req'[v].task = req'[q].task
                       /\ req'[v].nth = req'[q].nth) => v = q
                 /\ \A c \in Tasks :
                      ~(origin'[c].parent = req'[q].task /\ origin'[c].nth = req'[q].nth)
      <4>1. CASE q = r
        BY <1>2, <1>3, <2>1, <2>2, <3>1, <3>2, <4>1
      <4>2. CASE q # r
        BY <1>3, <2>1, <3>2, <3>3, <4>2 DEF IInv, ClaimsOK, At
      <4>. QED
        BY <4>1, <4>2
    <3>. QED
      BY <3>3 DEF ClaimsOK, At
  <2>4. CASE ~Spawns(r)
    <3>1. \A q \in Requests : req'[q].pc = "spawn" => q # r
      BY <1>8, <2>4
    <3>. QED
      BY <1>3, <2>1, <3>1 DEF IInv, ClaimsOK, At
  <2>. QED
    BY <2>3, <2>4
<1>13. ReadOK'
  <2>1. ASSUME NEW q \in Requests, req'[q].pc = "write"
        PROVE  /\ q # r /\ req'[q] = req[q] /\ req[q].task \in Tasks
               /\ task[req[q].task].st # "absent"
               /\ q \notin raced => Fresh(q)
    <3>1. q # r
      BY <1>8, <2>1
    <3>. QED
      BY <1>8, <2>1, <3>1 DEF IInv, TypeOK, ReadOK, At
  <2>2. ASSUME NEW q \in Requests, req'[q].pc = "write", req[q].task = t
        PROVE  q \in raced'
    BY <1>3, <2>1, <2>2 DEF Readers, At
  <2>. QED
    BY <1>3, <1>6, <2>1, <2>2 DEF ReadOK, Fresh, At
<1>14. LostSpawnNeedsRace'
  <2> SUFFICES ASSUME NEW o \in owing' \ excused'
               PROVE  \E q \in Requests :
                         req'[q].pc = "spawn" /\ o = <<req'[q].task, req'[q].nth>>
    BY DEF LostSpawnNeedsRace, At
  <2>1. CASE o \in owing
    <3>1. PICK q \in Requests : req[q].pc = "spawn" /\ o = <<req[q].task, req[q].nth>>
      BY <1>3, <2>1 DEF IInv, LostSpawnNeedsRace, At
    <3>. QED
      BY <1>3, <1>8, <3>1
  <2>2. CASE o \notin owing
    <3>1. o = p /\ completes /\ task[t].recurs = "yes" /\ r \notin raced
      BY <1>3, <2>2
    <3>2. Spawns(r)
      BY <1>3, <3>1 DEF IInv, ReadOK, Fresh, At, Spawns, completes
    <3>. QED
      BY <1>8, <3>1, <3>2
  <2>. QED
    BY <2>1, <2>2
<1>15. Frozen
  BY <1>3, <1>6 DEF Frozen, InTrash, Live
<1>. QED
  BY <1>10, <1>11, <1>12, <1>13, <1>14, <1>15 DEF IInv

LEMMA BulkInv ==
    ASSUME IInv, NEW S \in SUBSET Tasks, bulkCompleteTasks(S)
    PROVE  IInv' /\ Frozen
<1> DEFINE d(m) == [m EXCEPT !.status = "completed"]
<1>1. /\ TypeOK /\ \A t \in S : task[t].st = "live"
      /\ task' = [t \in Tasks |-> IF t \in S THEN d(task[t]) ELSE task[t]]
      /\ completions' = [t \in Tasks |-> IF t \in S THEN completions[t] + 1
                                         ELSE completions[t]]
      /\ raced' = raced \cup Readers(S)
      /\ UNCHANGED <<req, updates, failures, origin, owing, excused>>
  BY DEF bulkCompleteTasks, Live, IInv
<1>2. ASSUME NEW m \in Task
      PROVE  d(m) \in Task /\ d(m).st = m.st /\ (d(m).expired = m.expired)
  BY DEF Task
<1>3. \A t \in Tasks : task[t] \in Task /\ completions[t] \in Nat
  BY <1>1 DEF TypeOK
<1> HIDE DEF d
<1>4. /\ task' \in [Tasks -> Task]
      /\ \A t \in Tasks : task'[t].st = task[t].st /\ (task'[t].expired = task[t].expired)
      /\ \A t \in Tasks : t \notin S => task'[t] = task[t]
  BY <1>1, <1>2, <1>3
<1>5. /\ completions' \in [Tasks -> Nat]
      /\ \A t \in Tasks : completions'[t] >= completions[t]
  BY <1>1, <1>3
<1>6. TypeOK'
  BY <1>1, <1>4, <1>5 DEF TypeOK, At, InTrash, Readers
<1>7. ClaimsOK'
  <2>1. ASSUME NEW r \in Requests, req[r].pc = "spawn"
        PROVE  req[r].nth \in 1..completions'[req[r].task]
    <3>1. req[r].task \in Tasks /\ req[r].nth \in 1..completions[req[r].task]
      BY <1>1, <2>1 DEF IInv, ClaimsOK, TypeOK, At
    <3>. QED
      BY <1>3, <1>5, <3>1
  <2>. QED
    BY <1>1, <2>1 DEF IInv, ClaimsOK, At
<1>8. OriginsOK'
  <2>1. \A c \in Tasks : origin[c].parent # NoTask => origin[c].parent \in Tasks
    BY <1>1 DEF TypeOK, Origin
  <2>. QED
    BY <1>1, <1>3, <1>5, <2>1 DEF IInv, OriginsOK
<1>9. ReadOK'
  <2>1. ASSUME NEW r \in Requests, req[r].pc = "write"
        PROVE  /\ req[r].task \in Tasks /\ task[req[r].task].st # "absent"
               /\ r \notin raced => Fresh(r)
               /\ req[r].task \in S => r \in raced'
    BY <1>1, <2>1 DEF IInv, TypeOK, ReadOK, Readers, At
  <2>. QED
    BY <1>1, <1>4, <2>1 DEF ReadOK, Fresh, At
<1>10. LostSpawnNeedsRace'
  BY <1>1 DEF IInv, LostSpawnNeedsRace, At
<1>11. Frozen
  BY <1>1, <1>4 DEF Frozen, InTrash, Live
<1>. QED
  BY <1>6, <1>7, <1>8, <1>9, <1>10, <1>11 DEF IInv

-----------------------------------------------------------------------------
LEMMA StepInv == IInv /\ [Next]_vars => IInv' /\ Frozen
<1> SUFFICES ASSUME IInv, [Next]_vars PROVE IInv' /\ Frozen
  OBVIOUS
<1>1. TypeOK
  BY DEF IInv
<1>2. ASSUME NEW t \in Tasks, NEW recurs \in Recurs, createTask(t, recurs)
      PROVE  IInv' /\ Frozen
  BY <1>1, <1>2, CreateKeeps, TasksOnly DEF createTask
<1>3. ASSUME NEW t \in Tasks, RetentionEnds(t)
      PROVE  IInv' /\ Frozen
  BY <1>1, <1>3, RetentionKeeps, TasksOnly DEF RetentionEnds
<1>4. ASSUME NEW r \in Requests, FindOneAndUpdate(r)
      PROVE  IInv' /\ Frozen
  BY <1>4, UpdateInv
<1>5. ASSUME NEW r \in Requests, NoMatch(r) \/ Fail(r)
      PROVE  IInv' /\ Frozen
  <2>1. UNCHANGED task
    BY <1>5 DEF NoMatch, Fail
  <2>. QED
    BY <1>1, <1>5, <2>1, NoMatchInv, FailInv DEF Frozen, InTrash, Live
<1>6. ASSUME NEW r \in Requests, NEW t \in Tasks, NEW u \in Bodies, FindExisting(r, t, u)
      PROVE  IInv' /\ Frozen
  <2>1. UNCHANGED task
    BY <1>6 DEF FindExisting
  <2>. QED
    BY <1>6, <2>1, FindExistingInv DEF Frozen, InTrash, Live
<1>7. ASSUME NEW r \in Requests, NEW child \in Tasks, Spawn(r, child)
      PROVE  IInv' /\ Frozen
  BY <1>7, SpawnInv
<1>8. ASSUME NEW S \in SUBSET Tasks, softDeleteTasks(S)
      PROVE  IInv' /\ Frozen
  BY <1>1, <1>8, SoftDeleteKeeps, TasksOnly DEF softDeleteTasks
<1>9. ASSUME NEW S \in SUBSET Tasks, restoreTasks(S)
      PROVE  IInv' /\ Frozen
  BY <1>1, <1>9, RestoreKeeps, TasksOnly DEF restoreTasks
<1>10. ASSUME NEW S \in SUBSET Tasks, \A t \in S : InTrash(t), Purge(S)
       PROVE  IInv' /\ Frozen
  BY <1>1, <1>10, PurgeKeeps, TasksOnly DEF Purge
<1>11. ASSUME NEW S \in SUBSET Tasks, bulkCompleteTasks(S)
       PROVE  IInv' /\ Frozen
  BY <1>11, BulkInv
<1>12. ASSUME emptyTrash \/ runTrashCleanup
       PROVE  IInv' /\ Frozen
  <2>1. CASE emptyTrash
    BY <1>10, <2>1 DEF emptyTrash
  <2>2. CASE runTrashCleanup
    BY <1>10, <2>2 DEF runTrashCleanup
  <2>. QED
    BY <1>12, <2>1, <2>2
<1>13. CASE UNCHANGED vars
  <2>1. IInv'
    BY <1>13 DEF vars, IInv, TypeOK, ClaimsOK, OriginsOK, ReadOK, LostSpawnNeedsRace,
                 Fresh, At, InTrash
  <2>2. Frozen
    BY <1>13 DEF vars, Frozen, InTrash, Live
  <2>. QED
    BY <2>1, <2>2
<1>14. CASE Next
  BY <1>2, <1>3, <1>4, <1>5, <1>6, <1>7, <1>8, <1>9, <1>10, <1>11, <1>12, <1>14
     DEF Next, purgeTasks
<1>. QED
  BY <1>13, <1>14

LEMMA Invariance == Spec => []IInv
BY InitInv, StepInv, PTL DEF Spec

(* The collection keeps its shape, and a task grows old only in the trash.   *)
THEOREM TypeCorrect == Spec => []TypeOK
<1>1. IInv => TypeOK
  BY DEF IInv
<1>. QED
  BY <1>1, Invariance, PTL

(* updateTask: one completion, one successor, whatever overlaps; only a      *)
(* stale read or a fault loses it.                                           *)
THEOREM SpawnsOnce == Spec => []SpawnSafety
<1>1. IInv => SpawnOncePerCompletion
  BY DEF IInv, TypeOK, OriginsOK, SpawnOncePerCompletion
<1>2. IInv => LostSpawnNeedsRace
  BY DEF IInv
<1>. QED
  BY <1>1, <1>2, Invariance, PTL DEF SpawnSafety

(* A handler that read a task before it was trashed does not change it       *)
(* there, and nothing but the trash removes a task.                          *)
THEOREM TrashKeeps == Spec => TrashIsFrozen
<1>1. IInv /\ [Next]_vars => Frozen
  BY StepInv
<1>2. Frozen => [\A t \in Tasks :
         /\ InTrash(t) => \/ task'[t] = Purged
                          \/ /\ task'[t].st \in {"live", "trash"}
                             /\ task'[t].status = task[t].status
                             /\ task'[t].recurs = task[t].recurs
         /\ Live(t) => task'[t].st \in {"live", "trash"}
         /\ task[t].st = "purged" => task'[t] = task[t]]_vars
  BY DEF Frozen
<1>. QED
  BY <1>1, <1>2, Invariance, PTL DEF Spec, TrashIsFrozen
=============================================================================
