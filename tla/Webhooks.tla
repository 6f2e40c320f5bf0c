------------------------------ MODULE Webhooks ------------------------------
(* Webhook deliveries of one account: webhooks.service.ts, the worker in     *)
(* webhooks.worker.ts and the handlers of webhooks.controller.ts, around the *)
(* Webhook collection and the BullMQ queue between them.                     *)
(*                                                                           *)
(* Every server process runs one worker, which performs one job at a time;   *)
(* several processes share the queue.  A job that waits for its back-off     *)
(* counts as waiting: it is taken at some later time.  A worker is split at  *)
(* every round trip: the POST, recordDeliverySuccess, and the read and the   *)
(* write of recordDeliveryFailure.                                           *)
EXTENDS Naturals, FiniteSets

CONSTANTS
    Hooks,          \* webhook ids; an id is never given out twice
    Jobs,           \* places of the queue
    Workers,        \* server processes
    Emitters,       \* handlers that are enqueueing deliveries
    NoHook, NoJob,
    Max,            \* WEBHOOK_MAX_CONSECUTIVE_FAILURES
    Tries,          \* opts.attempts of a delivery
    MaxUpdates,     \* bound: changes of a webhook by its owner
    MaxFailures     \* bound: workers that die, and commands that throw

ASSUME WebhooksAssumption ==
    /\ NoHook \notin Hooks /\ NoJob \notin Jobs
    /\ Max \in Nat \ {0} /\ Tries \in Nat \ {0}
    /\ MaxUpdates \in Nat /\ MaxFailures \in Nat

VARIABLES
    hook,           \* the Webhook collection
    job,            \* the queue
    worker,         \* local state of each worker
    emitter,        \* local state of enqueueDeliveries and pingWebhook
    updates, failures,  \* owner's changes and faults so far
    streak,         \* history: deliveries counted since the last success
    total,          \* history: failed deliveries of a hook, all told
    raced           \* history: hooks written between a read and its write

vars == <<hook, job, worker, emitter, updates, failures, streak, total, raced>>
history == <<streak, total, raced>>

-----------------------------------------------------------------------------
Webhook == [st : {"absent", "present", "deleted"}, active : BOOLEAN,
            consecutiveFailures : Nat]
Job     == [st : {"free", "waiting", "running"}, hook : Hooks \cup {NoHook}, left : Nat]
Worker  == [pc : {"idle", "post", "success", "count", "write"},
            job : Jobs \cup {NoJob}, hook : Hooks \cup {NoHook}, seen : Nat]
Emitter == [to : SUBSET Hooks, attempts : Nat]

NoWork  == [pc |-> "idle", job |-> NoJob, hook |-> NoHook, seen |-> 0]
FreeJob == [st |-> "free", hook |-> NoHook, left |-> 0]
Rest    == [to |-> {}, attempts |-> 0]

At(w, pc)  == worker[w].pc = pc
Present(h) == hook[h].st = "present"
Active(h)  == Present(h) /\ hook[h].active
Goto(w, pc) == worker' = [worker EXCEPT ![w].pc = pc]

(* The history counts stop at Max, like the counter they are compared with.  *)
UpTo(n) == IF n < Max THEN n + 1 ELSE Max

(* Workers, other than w, that have read h and not yet written it. *)
Holders(h, w) == {v \in Workers \ {w} : At(v, "write") /\ worker[v].hook = h}

Init ==
    /\ hook = [h \in Hooks |-> [st |-> "absent", active |-> TRUE,
                                consecutiveFailures |-> 0]]
    /\ job = [j \in Jobs |-> FreeJob]
    /\ worker = [w \in Workers |-> NoWork]
    /\ emitter = [e \in Emitters |-> Rest]
    /\ updates = 0 /\ failures = 0
    /\ streak = [h \in Hooks |-> 0]
    /\ total = [h \in Hooks |-> 0]
    /\ raced = {}

-----------------------------------------------------------------------------
(* The owner *)
createWebhook(h) ==
    /\ hook[h].st = "absent"
    /\ hook' = [hook EXCEPT ![h].st = "present"]
    /\ UNCHANGED <<job, worker, emitter, updates, failures, history>>

(* Seeded fault: the counter is not reset when the hook is re-armed. *)
updateWebhook_NoReset(h, active) ==
    /\ Present(h)
    /\ updates < MaxUpdates /\ updates' = updates + 1
    /\ hook' = [hook EXCEPT ![h].active = active]
    /\ UNCHANGED <<job, worker, emitter, failures, history>>

(* A PATCH with "active"; the other fields do not matter to the protocol.    *)
(* Re-arming resets the counter in the same command.                         *)
updateWebhook(h, active) ==
    /\ Present(h)
    /\ updates < MaxUpdates /\ updates' = updates + 1
    /\ \/ /\ active
          /\ hook' = [hook EXCEPT ![h].consecutiveFailures = 0, ![h].active = TRUE]
          /\ streak' = [streak EXCEPT ![h] = 0]
          /\ raced' = IF \E v \in Workers : At(v, "write") /\ worker[v].hook = h
                      THEN raced \cup {h} ELSE raced \ {h}
       \/ /\ ~active
          /\ hook' = [hook EXCEPT ![h].active = FALSE]
          /\ UNCHANGED <<streak, raced>>
    /\ UNCHANGED <<job, worker, emitter, failures, total>>

deleteWebhook(h) ==
    /\ Present(h)
    /\ hook' = [hook EXCEPT ![h].st = "deleted"]
    /\ UNCHANGED <<job, worker, emitter, updates, failures, history>>

-----------------------------------------------------------------------------
(* enqueueDeliveries: the find, which returns the active hooks that list the *)
(* event                                                                     *)
FindHooks(e, to) ==
    /\ emitter[e] = Rest
    /\ to # {} /\ \A h \in to : Active(h)
    /\ emitter' = [emitter EXCEPT ![e] = [to |-> to, attempts |-> Tries]]
    /\ UNCHANGED <<hook, job, worker, updates, failures, history>>

(* pingWebhook: the findOne; a disabled hook is pinged as well *)
FindPinged(e, h) ==
    /\ emitter[e] = Rest
    /\ Present(h)
    /\ emitter' = [emitter EXCEPT ![e] = [to |-> {h}, attempts |-> 1]]
    /\ UNCHANGED <<hook, job, worker, updates, failures, history>>

(* addBulk, or add of a ping: one job for each hook found *)
AddJobs(e) ==
    /\ emitter[e].to # {}
    /\ \E place \in [emitter[e].to -> {j \in Jobs : job[j].st = "free"}] :
         /\ \A g, h \in emitter[e].to : place[g] = place[h] => g = h
         /\ job' = [j \in Jobs |->
                      IF \E h \in emitter[e].to : place[h] = j
                      THEN [st |-> "waiting", left |-> emitter[e].attempts,
                            hook |-> CHOOSE h \in emitter[e].to : place[h] = j]
                      ELSE job[j]]
    /\ emitter' = [emitter EXCEPT ![e] = Rest]
    /\ UNCHANGED <<hook, worker, updates, failures, history>>

(* ... which throws when Redis fails; the error is swallowed *)
AddFails(e) ==
    /\ emitter[e].to # {}
    /\ failures < MaxFailures /\ failures' = failures + 1
    /\ emitter' = [emitter EXCEPT ![e] = Rest]
    /\ UNCHANGED <<hook, job, worker, updates, history>>

-----------------------------------------------------------------------------
(* A worker takes a job. *)
Take(w, j) ==
    /\ At(w, "idle") /\ job[j].st = "waiting"
    /\ job' = [job EXCEPT ![j].st = "running"]
    /\ worker' = [worker EXCEPT ![w] = [pc |-> "post", job |-> j,
                                        hook |-> job[j].hook, seen |-> 0]]
    /\ UNCHANGED <<hook, emitter, updates, failures, history>>

Blame(w) == total' = [total EXCEPT ![worker[w].hook] = UpTo(@)]

(* performDelivery: the POST of the job's own copy of url, secret and body.  *)
(* It does not look at the hook.  No answer within DELIVERY_TIMEOUT_MS is an *)
(* error like any other.                                                     *)
Post(w) ==
    /\ At(w, "post")
    /\ \/ Goto(w, "success") /\ UNCHANGED total
       \/ Goto(w, "count") /\ Blame(w)
    /\ UNCHANGED <<hook, job, emitter, updates, failures, streak, raced>>

Finish(w) == worker' = [worker EXCEPT ![w] = NoWork]
Remove(w) == job' = [job EXCEPT ![worker[w].job] = FreeJob]

(* A job whose performDelivery threw waits for its next attempt, if it has   *)
(* one left.                                                                 *)
Retry(w) ==
    LET j == worker[w].job IN
    \/ /\ job[j].left > 1
       /\ job' = [job EXCEPT ![j].st = "waiting", ![j].left = @ - 1]
    \/ /\ job[j].left <= 1
       /\ job' = [job EXCEPT ![j] = FreeJob]

(* Seeded fault: an accepted delivery leaves the counter as it is. *)
RecordSuccess_NoReset(w) ==
    /\ At(w, "success")
    /\ streak' = [streak EXCEPT ![worker[w].hook] = 0]
    /\ Finish(w) /\ Remove(w)
    /\ UNCHANGED <<hook, emitter, updates, failures, total, raced>>

(* recordDeliverySuccess: an updateOne that looks at nothing *)
RecordSuccess(w) ==
    /\ At(w, "success")
    /\ LET h == worker[w].hook IN
         \/ /\ Present(h)
            /\ hook' = [hook EXCEPT ![h].consecutiveFailures = 0]
            /\ streak' = [streak EXCEPT ![h] = 0]
            /\ raced' = IF Holders(h, w) # {} THEN raced \cup {h} ELSE raced \ {h}
         \/ ~Present(h) /\ UNCHANGED <<hook, streak, raced>>
    /\ Finish(w) /\ Remove(w)
    /\ UNCHANGED <<emitter, updates, failures, total>>

(* ... which throws inside the try: the delivery counts as failed *)
SuccessThrows(w) ==
    /\ At(w, "success")
    /\ failures < MaxFailures /\ failures' = failures + 1
    /\ Goto(w, "count") /\ Blame(w)
    /\ UNCHANGED <<hook, job, emitter, updates, streak, raced>>

(* recordDeliveryFailure: the findById.  A hook that is gone or disabled is  *)
(* not counted against.                                                      *)
ReadHook(w) ==
    /\ At(w, "count")
    /\ LET h == worker[w].hook IN
         \/ /\ Active(h)
            /\ worker' = [worker EXCEPT ![w].pc = "write",
                                        ![w].seen = hook[h].consecutiveFailures]
            /\ UNCHANGED job
         \/ ~Active(h) /\ Finish(w) /\ Retry(w)
    /\ UNCHANGED <<hook, emitter, updates, failures, history>>

(* Seeded fault: $inc with the new count where $set is meant. *)
WriteFailure_Inc(w) ==
    /\ At(w, "write")
    /\ LET h == worker[w].hook IN
         hook' = [hook EXCEPT
                    ![h].consecutiveFailures = @ + worker[w].seen + 1,
                    ![h].active = IF worker[w].seen + 1 >= Max THEN FALSE ELSE @]
    /\ Finish(w) /\ Retry(w)
    /\ UNCHANGED <<emitter, updates, failures, history>>

(* Seeded fault: the count is written only when it reaches the limit. *)
WriteFailure_NotSaved(w) ==
    /\ At(w, "write")
    /\ LET h == worker[w].hook IN
         hook' = IF worker[w].seen + 1 >= Max
                 THEN [hook EXCEPT ![h].consecutiveFailures = worker[w].seen + 1,
                                   ![h].active = FALSE]
                 ELSE hook
    /\ Finish(w) /\ Retry(w)
    /\ UNCHANGED <<emitter, updates, failures, history>>

(* ... and the updateOne, with the count taken from the earlier read *)
WriteFailure(w) ==
    /\ At(w, "write")
    /\ LET h == worker[w].hook
           n == worker[w].seen + 1
       IN \/ /\ Present(h)
             /\ hook' = [hook EXCEPT ![h].consecutiveFailures = n,
                                     ![h].active = IF n >= Max THEN FALSE ELSE @]
             /\ streak' = [streak EXCEPT ![h] = UpTo(@)]
             /\ raced' = IF Holders(h, w) # {} THEN raced \cup {h} ELSE raced
          \/ ~Present(h) /\ UNCHANGED <<hook, streak, raced>>
    /\ Finish(w) /\ Retry(w)
    /\ UNCHANGED <<emitter, updates, failures, total>>

(* ... either of which throws: the failure is not counted *)
CountThrows(w) ==
    /\ worker[w].pc \in {"count", "write"}
    /\ failures < MaxFailures /\ failures' = failures + 1
    /\ Finish(w) /\ Retry(w)
    /\ UNCHANGED <<hook, emitter, updates, history>>

(* The process dies: the queue gives the stalled job to another worker, as   *)
(* the same attempt.                                                         *)
Crash(w) ==
    /\ ~At(w, "idle")
    /\ failures < MaxFailures /\ failures' = failures + 1
    /\ Finish(w)
    /\ job' = [job EXCEPT ![worker[w].job].st = "waiting"]
    /\ UNCHANGED <<hook, emitter, updates, history>>

-----------------------------------------------------------------------------
Continue(w) == Post(w) \/ RecordSuccess(w) \/ ReadHook(w) \/ WriteFailure(w)

Next ==
    \/ \E h \in Hooks :
         \/ createWebhook(h) \/ deleteWebhook(h)
         \/ \E active \in BOOLEAN : updateWebhook(h, active)
    \/ \E e \in Emitters :
         \/ AddJobs(e) \/ AddFails(e)
         \/ \E to \in SUBSET Hooks : FindHooks(e, to)
         \/ \E h \in Hooks : FindPinged(e, h)
    \/ \E w \in Workers :
         \/ Continue(w)
         \/ SuccessThrows(w) \/ CountThrows(w) \/ Crash(w)
         \/ \E j \in Jobs : Take(w, j)

Spec == Init /\ [][Next]_vars

(* A worker that has started a delivery goes on with it; fetch is bounded by *)
(* its timeout.                                                              *)
FairSpec == Spec /\ \A w \in Workers : WF_vars(Continue(w))

-----------------------------------------------------------------------------
(* Every variable keeps its shape; a job is for a hook, with a limited       *)
(* number of attempts; a busy worker has a running job of its own.           *)
TypeOK ==
    /\ hook \in [Hooks -> Webhook]
    /\ job \in [Jobs -> Job]
    /\ worker \in [Workers -> Worker]
    /\ emitter \in [Emitters -> Emitter]
    /\ updates \in Nat /\ failures \in Nat
    /\ streak \in [Hooks -> 0..Max]
    /\ total \in [Hooks -> 0..Max]
    /\ raced \subseteq Hooks
    /\ \A j \in Jobs : job[j].st # "free" => job[j].hook \in Hooks
    /\ \A w \in Workers : At(w, "idle") => worker[w] = NoWork
    /\ \A w \in Workers : ~At(w, "idle") =>
         /\ worker[w].job \in Jobs /\ worker[w].hook \in Hooks
         /\ job[worker[w].job].st = "running"
         /\ \A v \in Workers \ {w} : worker[v].job # worker[w].job

(* recordDeliveryFailure and updateWebhook, with any number of workers and   *)
(* stale reads between them: a hook is never left active with a counter at   *)
(* the limit, which would be a breaker that can no longer open.              *)
ActiveBelowMax ==
    \A h \in Hooks :
        /\ hook[h].consecutiveFailures <= Max
        /\ hook[h].active => hook[h].consecutiveFailures < Max

(* The counter is the number of failures in a row unless something was       *)
(* written between the read and the write of recordDeliveryFailure: stale    *)
(* counts come from such overlaps and from nothing else, crashes and throws  *)
(* included, and the next success or re-arming clears them.                  *)
MiscountNeedsOverlap ==
    \A h \in Hooks :
        (Present(h) /\ h \notin raced) => hook[h].consecutiveFailures = streak[h]

(* The circuit breaker can always open, and counts right but for overlaps. *)
BreakerSafety == ActiveBelowMax /\ MiscountNeedsOverlap

(* Lost updates never add up: whatever overlaps, the counter never says more *)
(* than the deliveries that failed, so no hook is disabled with fewer than   *)
(* Max of them behind it.                                                    *)
NeverOvercounts ==
    \A h \in Hooks : hook[h].consecutiveFailures <= total[h]

(* Liveness: failures of a hook are counted again and again only if it also  *)
(* answers again and again; an endpoint that has stopped answering is        *)
(* disabled in the end, although workers overwrite each other's counts:      *)
(* every count rests on one that was lower by one, so the lowest count in    *)
(* the system keeps rising.                                                  *)
BreakerTrips ==
    \A h \in Hooks :
        []<>(\E w \in Workers : At(w, "write") /\ worker[w].hook = h)
            => []<>(\E w \in Workers : At(w, "success") /\ worker[w].hook = h)
=============================================================================
