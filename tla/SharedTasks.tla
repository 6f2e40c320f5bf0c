---------------------------- MODULE SharedTasks ----------------------------
(* One owner's task shared with members, and the owner's cached statistics:  *)
(* collab.service.ts, collab.controller.ts, and the handlers of              *)
(* tasks.controller.ts around the Redis key stats:<owner>.                   *)
(*                                                                           *)
(* Several requests are in flight.  A handler is split at every awaited      *)
(* round trip: the task and the share that loadTaskWithAccess reads, the     *)
(* write, the activity entry, the DEL, GET and SET of the cache.  A read by  *)
(* a handler that changes nothing is the access check and the answer.        *)
EXTENDS Naturals, FiniteSets, Functions

CONSTANTS
    Requests,       \* requests in flight
    Members,        \* accounts other than the owner's
    Owner,
    MaxChanges,     \* bound: changes of the board, shares granted and comments
    MaxFailures     \* bound: commands that throw, and processes that die

ASSUME SharedTasksAssumption ==
    /\ Owner \notin Members /\ IsFiniteSet(Members)
    /\ MaxChanges \in Nat /\ MaxFailures \in Nat

VARIABLES
    task,           \* the task: in the board, in the trash, deleted
    share,          \* the TaskShare collection, by member
    comments,       \* documents of the Comment collection
    trail,          \* entries of the Activity collection, by action
    ver,            \* changes made to what the statistics count
    cache,          \* the Redis key stats:<owner>
    req,            \* local state of each request
    failures,       \* faults so far
    lost,           \* history: entries a fault kept out of the trail
    acked,          \* history: latest change whose invalidation was answered
    excused         \* history: the cached value crossed a write, or a fault

vars == <<task, share, comments, trail, ver, cache, req, failures, lost, acked, excused>>
board == <<task, ver>>
collab == <<share, comments, trail>>
history == <<lost, acked, excused>>

-----------------------------------------------------------------------------
Users   == Members \cup {Owner}
Role    == {"none", "viewer", "editor"}
Kinds   == {"granted", "revoked", "commented"}
\* n counts the shares given to the member; it stands for the share's id
Share   == [role : Role, n : Nat]
Comment == Nat
Trail   == [Kinds -> Nat]
Cache   == [held : BOOLEAN, ver : Nat]
Ops     == {"idle", "grant", "revoke", "comment", "update", "look", "shares",
            "write", "stats"}
Request == [op : Ops, pc : {"idle", "share", "act", "log", "del", "compute", "set"},
            who : Users, to : Users, role : Role, n : Nat, val : Nat, late : BOOLEAN]

Idle == [op |-> "idle", pc |-> "idle", who |-> Owner, to |-> Owner,
         role |-> "none", n |-> 0, val |-> 0, late |-> FALSE]

At(r, pc)    == req[r].pc = pc
Doing(r, op) == req[r].op = op
Goto(r, pc)  == req' = [req EXCEPT ![r].pc = pc]
Done(r)      == req' = [req EXCEPT ![r] = Idle]

(* ROLE_RANK, and the least role the handlers ask for; commenting asks for a *)
(* viewer and then refuses viewers                                           *)
Rank(role) == CASE role = "none" -> 0 [] role = "viewer" -> 1 [] role = "editor" -> 2
MinRank(op) == CASE op \in {"grant", "revoke", "shares"} -> 3
                 [] op \in {"update", "comment"} -> 2
                 [] OTHER -> 1
RankOf(u) == IF u = Owner THEN 3 ELSE Rank(share[u].role)
Allowed(r) == task = "live" /\ RankOf(req[r].who) >= MinRank(req[r].op)

Room == ver + comments + SumFunction([m \in Members |-> share[m].n]) < MaxChanges

Init ==
    /\ task = "live"
    /\ share = [m \in Members |-> [role |-> "none", n |-> 0]]
    /\ comments = 0 /\ trail = [k \in Kinds |-> 0]
    /\ ver = 0 /\ cache = [held |-> FALSE, ver |-> 0]
    /\ req = [r \in Requests |-> Idle]
    /\ failures = 0
    /\ lost = [k \in Kinds |-> 0] /\ acked = 0 /\ excused = FALSE

-----------------------------------------------------------------------------
(* Seeded fault: the task is found in the trash as well. *)
LoadTask_Trash(r, u, q) ==
    /\ At(r, "idle")
    /\ task # "gone" /\ (u = Owner \/ MinRank(q.op) < 3)
    /\ req' = [req EXCEPT ![r] = [q EXCEPT !.who = u, !.pc = IF u = Owner THEN "act" ELSE "share"]]
    /\ UNCHANGED <<board, collab, cache, failures, history>>

(* loadTaskWithAccess: Task.findOne, which tells the owner.  A request that  *)
(* is refused here leaves nothing behind.                                    *)
LoadTask(r, u, q) ==
    /\ At(r, "idle")
    /\ task = "live" /\ (u = Owner \/ MinRank(q.op) < 3)
    /\ req' = [req EXCEPT ![r] = [q EXCEPT !.who = u, !.pc = IF u = Owner THEN "act" ELSE "share"]]
    /\ UNCHANGED <<board, collab, cache, failures, history>>

Asks(op) == [Idle EXCEPT !.op = op]
createShare(r, u, m, role) == LoadTask(r, u, [Asks("grant") EXCEPT !.to = m, !.role = role])
listShares(r, u)           == LoadTask(r, u, Asks("shares"))
revokeShare(r, u, m, n)    == LoadTask(r, u, [Asks("revoke") EXCEPT !.to = m, !.n = n])
listComments(r, u)         == LoadTask(r, u, Asks("look"))
getActivity(r, u)          == listComments(r, u)
addComment(r, u)           == LoadTask(r, u, Asks("comment"))
updateTask(r, u)           == LoadTask(r, u, Asks("update"))

(* Seeded fault: any share will do. *)
LoadShare_AnyRole(r) ==
    /\ At(r, "share")
    /\ IF share[req[r].who].role = "none" THEN Done(r) ELSE Goto(r, "act")
    /\ UNCHANGED <<board, collab, cache, failures, history>>

(* ... and TaskShare.findOne for everyone else; 404 *)
LoadShare(r) ==
    /\ At(r, "share")
    /\ IF Rank(share[req[r].who].role) < MinRank(req[r].op) THEN Done(r) ELSE Goto(r, "act")
    /\ UNCHANGED <<board, collab, cache, failures, history>>

-----------------------------------------------------------------------------
(* The request acts on what it has loaded. *)
Acting(r, op) == At(r, "act") /\ Doing(r, op)

Step(r, pc, hit) ==
    req' = [q \in Requests |-> IF q = r THEN [req[r] EXCEPT !.pc = pc]
                               ELSE [req[q] EXCEPT !.late = @ \/ q \in hit]]

(* createShare: the unique index on (task, user) refuses a second share *)
Grant(r) ==
    /\ Acting(r, "grant")
    /\ LET m == req[r].to IN
         \/ /\ Room /\ share[m].role = "none"
            /\ share' = [share EXCEPT ![m].role = req[r].role, ![m].n = @ + 1]
            /\ Goto(r, "log")
         \/ share[m].role # "none" /\ Done(r) /\ UNCHANGED share
    /\ UNCHANGED <<board, comments, trail, cache, failures, history>>

(* Seeded fault: a share that is gone is logged as revoked once more. *)
Revoke_LogsAlways(r) ==
    /\ Acting(r, "revoke")
    /\ LET m == req[r].to IN
         IF share[m].n = req[r].n
         THEN /\ share' = [share EXCEPT ![m].role = "none"]
              /\ Step(r, "log", {q \in Requests : At(q, "act") /\ req[q].who = m})
         ELSE Goto(r, "log") /\ UNCHANGED share
    /\ UNCHANGED <<board, comments, trail, cache, failures, history>>

(* revokeShare: findOneAndDelete by the share's id *)
Revoke(r) ==
    /\ Acting(r, "revoke")
    /\ LET m == req[r].to IN
         IF share[m].role # "none" /\ share[m].n = req[r].n
         THEN /\ share' = [share EXCEPT ![m].role = "none"]
              /\ Step(r, "log", {q \in Requests : At(q, "act") /\ req[q].who = m})
         ELSE Done(r) /\ UNCHANGED share
    /\ UNCHANGED <<board, comments, trail, cache, failures, history>>

(* addComment: the Comment is made whatever became of the task *)
AddComment(r) ==
    /\ Acting(r, "comment")
    /\ Room /\ comments' = comments + 1
    /\ Goto(r, "log")
    /\ UNCHANGED <<board, share, trail, cache, failures, history>>

(* recordActivity, once the change it tells of is made *)
KindOf == [grant |-> "granted", revoke |-> "revoked", comment |-> "commented"]
RecordActivity(r) ==
    /\ At(r, "log")
    /\ trail' = [trail EXCEPT ![KindOf[req[r].op]] = @ + 1]
    /\ Done(r)
    /\ UNCHANGED <<board, share, comments, cache, failures, history>>

(* listShares, listComments and getActivity read once more, and answer *)
Answer(r) ==
    /\ Acting(r, "look") \/ Acting(r, "shares")
    /\ Done(r)
    /\ UNCHANGED <<board, collab, cache, failures, history>>

(* updateTask of the service, by the owner's id: the statistics may change   *)
(* and their cache is left alone                                             *)
Update(r) ==
    /\ Acting(r, "update")
    /\ \/ task = "live" /\ Room /\ ver' = ver + 1
       \/ UNCHANGED ver
    /\ Done(r)
    /\ UNCHANGED <<task, collab, cache, failures, history>>

-----------------------------------------------------------------------------
(* The owner's changes of the board, each one command and then the DEL *)
Loaded == {q \in Requests : At(q, "share") \/ At(q, "act")}

Change(r, hit) ==
    /\ At(r, "idle")
    /\ Room /\ ver' = ver + 1
    /\ req' = [q \in Requests |->
                 IF q = r THEN [Idle EXCEPT !.op = "write", !.pc = "del", !.val = ver + 1]
                 ELSE [req[q] EXCEPT !.late = @ \/ q \in hit]]
    /\ UNCHANGED <<collab, cache, failures, history>>

createTask(r)  == Change(r, {}) /\ UNCHANGED task
importTasks(r) == createTask(r)
deleteTask(r)  == task = "live" /\ task' = "trash" /\ Change(r, Loaded)

(* bulkTasks: restoring and changing live tasks; "trash" is deleteTask *)
bulkTasks(r) == \/ task = "trash" /\ task' = "live" /\ Change(r, {})
                \/ Change(r, {}) /\ UNCHANGED task

(* bulkTasks with "purge", clearTrash and the retention job count nothing    *)
clearTrash == /\ task = "trash" /\ task' = "gone"
              /\ UNCHANGED <<ver, collab, cache, req, failures, history>>

(* Seeded fault: the key is looked up under another name and not deleted. *)
InvalidateStatsCache_OtherKey(r) ==
    /\ At(r, "del")
    /\ acked' = IF acked < req[r].val THEN req[r].val ELSE acked
    /\ Done(r)
    /\ UNCHANGED <<board, collab, cache, failures, lost, excused>>

(* invalidateStatsCache, and the answer to the owner *)
InvalidateStatsCache(r) ==
    /\ At(r, "del")
    /\ acked' = IF acked < req[r].val THEN req[r].val ELSE acked
    /\ cache' = [cache EXCEPT !.held = FALSE]
    /\ excused' = FALSE
    /\ Done(r)
    /\ UNCHANGED <<board, collab, failures, lost>>

(* getStats: a GET that finds nothing *)
getStats(r) ==
    /\ At(r, "idle") /\ ~cache.held
    /\ req' = [req EXCEPT ![r] = [Asks("stats") EXCEPT !.pc = "compute"]]
    /\ UNCHANGED <<board, collab, cache, failures, history>>

Compute(r) ==
    /\ At(r, "compute")
    /\ req' = [req EXCEPT ![r].pc = "set", ![r].val = ver]
    /\ UNCHANGED <<board, collab, cache, failures, history>>

SetCached(r) ==
    /\ At(r, "set")
    /\ cache' = [held |-> TRUE, ver |-> req[r].val]
    /\ excused' = (req[r].val < ver)
    /\ Done(r)
    /\ UNCHANGED <<board, collab, failures, lost, acked>>

(* Seeded fault: SET without EX. *)
Expire_Never == cache.held /\ UNCHANGED vars

(* EX STATS_CACHE_TTL *)
Expire ==
    /\ cache.held
    /\ cache' = [cache EXCEPT !.held = FALSE]
    /\ excused' = FALSE
    /\ UNCHANGED <<board, collab, req, failures, lost, acked>>

-----------------------------------------------------------------------------
(* A command throws or the process dies: the handler ends where it stands.   *)
(* A DEL that throws is swallowed and the owner is answered all the same.    *)
Fail(r) ==
    /\ ~At(r, "idle")
    /\ failures < MaxFailures /\ failures' = failures + 1
    /\ Done(r)
    /\ IF At(r, "log") THEN lost' = [lost EXCEPT ![KindOf[req[r].op]] = @ + 1]
       ELSE UNCHANGED lost
    /\ IF At(r, "del") THEN /\ excused' = (excused \/ cache.held)
                            /\ acked' = IF acked < req[r].val THEN req[r].val ELSE acked
       ELSE UNCHANGED <<excused, acked>>
    /\ UNCHANGED <<board, collab, cache>>

Arrival(r) ==
    \/ \E u \in Users : \/ \E m \in Members : \/ \E role \in {"viewer", "editor"} :
                                                   createShare(r, u, m, role)
                                              \/ \E n \in 1..share[m].n : revokeShare(r, u, m, n)
                        \/ listShares(r, u) \/ listComments(r, u) \/ getActivity(r, u)
                        \/ addComment(r, u) \/ updateTask(r, u)
    \/ getStats(r)
    \/ createTask(r) \/ importTasks(r) \/ deleteTask(r) \/ bulkTasks(r)

Continue(r) ==
    \/ LoadShare(r)
    \/ Grant(r) \/ Revoke(r) \/ AddComment(r) \/ RecordActivity(r)
    \/ Answer(r) \/ Update(r)
    \/ InvalidateStatsCache(r) \/ Compute(r) \/ SetCached(r)

Next == clearTrash \/ Expire \/ \E r \in Requests : Arrival(r) \/ Continue(r) \/ Fail(r)

Spec == Init /\ [][Next]_vars

(* Handlers are not abandoned by Node, and Redis expires keys. *)
FairSpec == Spec /\ WF_vars(Expire) /\ \A r \in Requests : WF_vars(Continue(r))

-----------------------------------------------------------------------------
(* Collections, key and requests keep their shape; the cache never runs      *)
(* ahead of the board, and an entry is only pending for what was done.       *)
TypeOK ==
    /\ task \in {"live", "trash", "gone"}
    /\ share \in [Members -> Share] /\ comments \in Comment /\ trail \in Trail
    /\ ver \in Nat /\ cache \in Cache /\ cache.ver <= ver /\ acked <= ver
    /\ req \in [Requests -> Request] /\ failures \in Nat
    /\ lost \in Trail /\ acked \in Nat /\ excused \in BOOLEAN
    /\ \A r \in Requests : /\ req[r].val <= ver
                           /\ At(r, "log") => req[r].op \in DOMAIN KindOf

(* A request that has passed loadTaskWithAccess may do what it is about to   *)
(* do, on a live task and with a sufficient share, unless the share was      *)
(* revoked or the task left the board after the request had read them: a     *)
(* revocation holds for every request that starts after it.                  *)
AccessIsCurrent == \A r \in Requests : At(r, "act") => Allowed(r) \/ req[r].late

(* The trail holds one entry for every share granted, share revoked and      *)
(* comment made, but for those a request has yet to write or a fault kept    *)
(* from being written; it has no entry for anything that was not done.       *)
Made == [granted   |-> SumFunction([m \in Members |-> share[m].n]),
         revoked   |-> SumFunction([m \in Members |->
                          IF share[m].role = "none" THEN share[m].n ELSE share[m].n - 1]),
         commented |-> comments]
Pending(k) == Cardinality({r \in Requests : At(r, "log") /\ KindOf[req[r].op] = k})
TrailAccounts == \A k \in Kinds : trail[k] + Pending(k) + lost[k] = Made[k]

(* Once create, delete, bulk or import has been answered, the cached         *)
(* statistics count the change, unless a computation that began before it    *)
(* was stored after it, or Redis failed.  (A PUT promises nothing.)          *)
AcknowledgedWritesShow == cache.held /\ cache.ver < acked => excused

(* Whatever went wrong, the cache is right again in the end. *)
CacheConverges == <>[](cache.held => cache.ver = ver)
=============================================================================
