---------------------------- MODULE Jobs_proofs ----------------------------
(* Proofs about the two kinds of jobs that BullMQ's workers run: deliveries  *)
(* of webhooks, with their circuit breaker (Webhooks), and the hourly        *)
(* reminders with their mails (Reminders).  The two share no state and no    *)
(* name.  Everything holds for any number of hooks, jobs, tasks, processes   *)
(* and faults and for any limit.                                             *)
EXTENDS Webhooks, Reminders, FiniteSetTheorems, TLAPS

-----------------------------------------------------------------------------
(* Webhooks: the circuit breaker *)
(* What a worker between its read and its write has seen. *)
SeenOK ==
    \A w \in Workers : At(w, "write") =>
        /\ worker[w].seen < Max
        /\ worker[w].hook \notin raced => worker[w].seen = streak[worker[w].hook]

(* MiscountNeedsOverlap, for hooks that are not there as well. *)
CountOK == \A h \in Hooks \ raced : hook[h].consecutiveFailures = streak[h]

IInv == TypeOK /\ ActiveBelowMax /\ SeenOK /\ CountOK

LEMMA InitInv == Init => IInv
BY WebhooksAssumption
   DEF Init, IInv, TypeOK, ActiveBelowMax, SeenOK, CountOK, Webhook, Job, Worker,
       Emitter, NoWork, FreeJob, Rest, At

(* The parts of the step relation that are about the queue. *)
LEMMA Queue ==
    ASSUME TypeOK, NEW w \in Workers, ~At(w, "idle"), Finish(w), Remove(w) \/ Retry(w)
    PROVE  /\ job' \in [Jobs -> Job]
           /\ worker' \in [Workers -> Worker]
           /\ worker'[w] = NoWork /\ NoWork.pc = "idle" /\ NoWork.job \notin Jobs
           /\ \A v \in Workers : v # w => worker'[v] = worker[v]
           /\ \A j \in Jobs : job'[j].st # "free" => job'[j].hook \in Hooks
           /\ \A v \in Workers : worker'[v].pc # "idle" =>
                v # w /\ worker'[v] = worker[v] /\ job'[worker[v].job] = job[worker[v].job]
<1>. DEFINE j == worker[w].job
<1>1. j \in Jobs /\ job[j] \in Job /\ job[j].hook \in Hooks
  BY DEF TypeOK, At
<1>2. \A v \in Workers : v # w => worker'[v] = worker[v]
  BY DEF Finish, TypeOK
<1>3. worker'[w] = NoWork
  BY DEF Finish, TypeOK
<1>4. worker' \in [Workers -> Worker]
  BY <1>2, <1>3, WebhooksAssumption DEF Finish, TypeOK, Worker, NoWork
<1>5. PICK d \in Job : /\ job' = [job EXCEPT ![j] = d]
                       /\ d.st # "free" => d.hook \in Hooks
  <2>1. CASE Remove(w)
    <3>. FreeJob \in Job
      BY DEF FreeJob, Job
    <3>. QED
      BY <2>1 DEF Remove, FreeJob
  <2>2. CASE /\ job[j].left > 1
             /\ job' = [job EXCEPT ![j].st = "waiting", ![j].left = @ - 1]
    <3>. DEFINE n == job[j].left - 1
                d(m) == [m EXCEPT !.st = "waiting", !.left = n]
    <3>1. job' = [job EXCEPT ![j] = d(job[j])]
      BY <2>2
    <3>2. n \in Nat
      BY <1>1, <2>2 DEF Job
    <3>. HIDE DEF n
    <3>3. ASSUME NEW m \in Job
          PROVE  d(m) \in Job /\ d(m).hook = m.hook
      BY <3>2 DEF Job
    <3>. HIDE DEF d
    <3>. QED
      BY <1>1, <3>1, <3>3
  <2>3. CASE job' = [job EXCEPT ![j] = FreeJob]
    <3>. FreeJob \in Job
      BY DEF FreeJob, Job
    <3>. QED
      BY <2>3 DEF FreeJob
  <2>. QED
    BY <2>1, <2>2, <2>3 DEF Retry
<1>6. job' \in [Jobs -> Job]
  BY <1>1, <1>5 DEF TypeOK
<1>7. \A i \in Jobs : i # j => job'[i] = job[i]
  BY <1>5 DEF TypeOK
<1>8. job'[j] = d
  BY <1>1, <1>5 DEF TypeOK
<1>9. \A i \in Jobs : job'[i].st # "free" => job'[i].hook \in Hooks
  BY <1>5, <1>7, <1>8 DEF TypeOK
<1>10. ASSUME NEW v \in Workers, worker'[v].pc # "idle"
       PROVE  v # w /\ worker'[v] = worker[v] /\ job'[worker[v].job] = job[worker[v].job]
  <2>1. v # w
    BY <1>3, <1>10 DEF NoWork
  <2>2. worker'[v] = worker[v] /\ ~At(v, "idle")
    BY <1>2, <1>10, <2>1 DEF At
  <2>3. worker[v].job \in Jobs /\ worker[v].job # j
    BY <2>1, <2>2 DEF TypeOK
  <2>. QED
    BY <1>7, <2>1, <2>2, <2>3
<1>11. NoWork.pc = "idle" /\ NoWork.job \notin Jobs
  BY WebhooksAssumption DEF NoWork
<1>. QED
  BY <1>2, <1>3, <1>4, <1>6, <1>9, <1>10, <1>11

(* A worker that moves on with the job it has. *)
LEMMA Moved ==
    ASSUME TypeOK, NEW w \in Workers, ~At(w, "idle"), NEW seen \in Nat,
           worker' = [worker EXCEPT ![w].pc = "write", ![w].seen = seen]
    PROVE  /\ worker' \in [Workers -> Worker]
           /\ worker'[w].pc = "write" /\ worker'[w].seen = seen
           /\ worker'[w].hook = worker[w].hook /\ worker'[w].job = worker[w].job
           /\ \A v \in Workers : v # w => worker'[v] = worker[v]
<1>1. worker' = [worker EXCEPT ![w] = [worker[w] EXCEPT !.pc = "write", !.seen = seen]]
  OBVIOUS
<1>2. ASSUME NEW m \in Worker
      PROVE  LET d == [m EXCEPT !.pc = "write", !.seen = seen] IN
             /\ d \in Worker /\ d.pc = "write" /\ d.seen = seen
             /\ d.hook = m.hook /\ d.job = m.job
  BY DEF Worker
<1>3. worker[w] \in Worker
  BY DEF TypeOK
<1>4. PICK d \in Worker :
        /\ worker' = [worker EXCEPT ![w] = d]
        /\ d.pc = "write" /\ d.seen = seen
        /\ d.hook = worker[w].hook /\ d.job = worker[w].job
  BY <1>1, <1>2, <1>3
<1>a. worker \in [Workers -> Worker]
  BY DEF TypeOK
<1>5. worker' \in [Workers -> Worker] /\ worker'[w] = d
  BY <1>4, <1>a
<1>6. \A v \in Workers : v # w => worker'[v] = worker[v]
  BY <1>4, <1>a
<1>. QED
  BY <1>4, <1>5, <1>6

LEMMA Went ==
    ASSUME TypeOK, NEW w \in Workers, ~At(w, "idle"), NEW pc,
           pc \in {"post", "success", "count", "write"}, Goto(w, pc)
    PROVE  /\ worker' \in [Workers -> Worker]
           /\ worker'[w].pc = pc
           /\ worker'[w].hook = worker[w].hook /\ worker'[w].job = worker[w].job
           /\ \A v \in Workers : v # w => worker'[v] = worker[v]
<1>. DEFINE d(m) == [m EXCEPT !.pc = pc]
<1>1. worker' = [worker EXCEPT ![w] = d(worker[w])]
  BY DEF Goto
<1>2. ASSUME NEW m \in Worker
      PROVE  /\ d(m) \in Worker /\ d(m).pc = pc
             /\ d(m).hook = m.hook /\ d(m).job = m.job
  BY DEF Worker
<1>3. worker[w] \in Worker
  BY DEF TypeOK
<1>. HIDE DEF d
<1>. QED
  BY <1>1, <1>2, <1>3 DEF TypeOK

(* A command that writes the counter and the switch of one hook. *)
LEMMA Written ==
    ASSUME TypeOK, NEW h \in Hooks, NEW n \in Nat, NEW b \in BOOLEAN,
           hook' = [hook EXCEPT ![h].consecutiveFailures = n, ![h].active = b]
    PROVE  /\ hook' \in [Hooks -> Webhook]
           /\ hook'[h].consecutiveFailures = n
           /\ (hook'[h].active = b)
           /\ \A g \in Hooks : g # h => hook'[g] = hook[g]
<1>1. hook' = [hook EXCEPT ![h] = [hook[h] EXCEPT !.consecutiveFailures = n, !.active = b]]
  OBVIOUS
<1>2. ASSUME NEW m \in Webhook
      PROVE  LET d == [m EXCEPT !.consecutiveFailures = n, !.active = b] IN
             d \in Webhook /\ d.consecutiveFailures = n /\ (d.active = b)
  BY DEF Webhook
<1>. hook \in [Hooks -> Webhook]
  BY DEF TypeOK
<1>3. hook[h] \in Webhook
  OBVIOUS
<1>4. PICK d \in Webhook :
        /\ hook' = [hook EXCEPT ![h] = d]
        /\ d.consecutiveFailures = n /\ (d.active = b)
  BY <1>1, <1>2, <1>3
<1>5. hook' \in [Hooks -> Webhook]
  BY <1>4, Zenon
<1>6. hook'[h] = d
  BY <1>4, Zenon
<1>7. \A g \in Hooks : g # h => hook'[g] = hook[g]
  BY <1>4, Zenon
<1>. QED
  BY <1>4, <1>5, <1>6, <1>7

LEMMA Counts == \A n \in 0..Max : UpTo(n) \in 0..Max
BY WebhooksAssumption DEF UpTo

-----------------------------------------------------------------------------
(* What a step must leave alone for the rest of the invariant to survive. *)
Quiet ==
    /\ UNCHANGED <<streak, raced>>
    /\ \A h \in Hooks :
         /\ hook'[h].consecutiveFailures = hook[h].consecutiveFailures
         /\ hook'[h].active => hook[h].active
    /\ \A w \in Workers : worker'[w].pc = "write" => worker'[w] = worker[w]

LEMMA QuietStep == ASSUME IInv, Quiet PROVE ActiveBelowMax' /\ SeenOK' /\ CountOK'
<1>a. \A h \in Hooks : hook'[h].consecutiveFailures = hook[h].consecutiveFailures
  BY Zenon DEF Quiet
<1>b. \A h \in Hooks : hook'[h].active => hook[h].active
  BY Zenon DEF Quiet
<1>c. streak' = streak /\ raced' = raced
  BY Zenon DEF Quiet
<1>1. ActiveBelowMax'
  <2> SUFFICES ASSUME NEW h \in Hooks
               PROVE  /\ hook'[h].consecutiveFailures <= Max
                      /\ hook'[h].active => hook'[h].consecutiveFailures < Max
    BY Zenon DEF ActiveBelowMax
  <2>1. /\ hook[h].consecutiveFailures <= Max
        /\ hook[h].active => hook[h].consecutiveFailures < Max
    BY Zenon DEF IInv, ActiveBelowMax
  <2>. QED
    BY <1>a, <1>b, <2>1, Zenon
<1>2. SeenOK'
  BY DEF IInv, Quiet, SeenOK, At
<1>3. CountOK'
  BY <1>a, <1>c, Zenon DEF IInv, CountOK
<1>. QED
  BY <1>1, <1>2, <1>3

(* The steps of the owner and of the emitters. *)
LEMMA OwnerStep ==
    ASSUME IInv, NEW h \in Hooks,
           \/ createWebhook(h) \/ deleteWebhook(h)
           \/ \E active \in BOOLEAN : updateWebhook(h, active)
    PROVE  IInv'
<1>a. TypeOK
  BY DEF IInv
<1>b. hook[h] \in Webhook /\ hook \in [Hooks -> Webhook]
  BY <1>a DEF TypeOK
<1>1. CASE createWebhook(h) \/ deleteWebhook(h)
  <2>1. PICK x \in {"present", "deleted"} :
          hook' = [hook EXCEPT ![h] = [hook[h] EXCEPT !.st = x]]
    BY <1>1 DEF createWebhook, deleteWebhook
  <2>2. /\ [hook[h] EXCEPT !.st = x] \in Webhook
        /\ [hook[h] EXCEPT !.st = x].consecutiveFailures = hook[h].consecutiveFailures
        /\ ([hook[h] EXCEPT !.st = x].active = hook[h].active)
    BY <1>b DEF Webhook
  <2>3. hook' \in [Hooks -> Webhook]
    BY <1>b, <2>1, <2>2
  <2>4. \A g \in Hooks :
          /\ hook'[g].consecutiveFailures = hook[g].consecutiveFailures
          /\ hook'[g].active => hook[g].active
    BY <1>b, <2>1, <2>2
  <2>5. UNCHANGED <<job, worker, emitter, updates, failures, streak, total, raced>>
    BY <1>1 DEF createWebhook, deleteWebhook, history
  <2>6. TypeOK'
    BY <1>a, <2>3, <2>5 DEF TypeOK, At
  <2>. QED
    BY <2>4, <2>5, <2>6, QuietStep DEF Quiet, IInv
<1>2. ASSUME NEW active \in BOOLEAN, updateWebhook(h, active) PROVE IInv'
  <2>0. updates' \in Nat /\ UNCHANGED <<job, worker, emitter, failures, total>>
    BY <1>2, <1>a DEF updateWebhook, TypeOK
  <2>1. CASE ~active
    <3>1. /\ [hook[h] EXCEPT !.active = FALSE] \in Webhook
          /\ [hook[h] EXCEPT !.active = FALSE].consecutiveFailures = hook[h].consecutiveFailures
          /\ ~[hook[h] EXCEPT !.active = FALSE].active
      BY <1>b DEF Webhook
    <3>2. /\ hook' = [hook EXCEPT ![h] = [hook[h] EXCEPT !.active = FALSE]]
          /\ UNCHANGED <<streak, raced>>
      BY <1>2, <2>1 DEF updateWebhook
    <3>3. hook' \in [Hooks -> Webhook]
      BY <1>b, <3>1, <3>2
    <3>4. \A g \in Hooks :
            /\ hook'[g].consecutiveFailures = hook[g].consecutiveFailures
            /\ hook'[g].active => hook[g].active
      BY <1>b, <3>1, <3>2
    <3>5. TypeOK'
      BY <1>a, <2>0, <3>2, <3>3 DEF TypeOK, At
    <3>. QED
      BY <2>0, <3>2, <3>4, <3>5, QuietStep DEF Quiet, IInv
  <2>2. CASE active
    <3>0. hook' = [hook EXCEPT ![h].consecutiveFailures = 0, ![h].active = TRUE]
      BY <1>2, <2>2 DEF updateWebhook
    <3>1. /\ hook' \in [Hooks -> Webhook] /\ hook'[h].consecutiveFailures = 0
          /\ \A g \in Hooks : g # h => hook'[g] = hook[g]
      BY <1>a, <3>0, Written
    <3>2. streak' = [streak EXCEPT ![h] = 0]
      BY <1>2, <2>2 DEF updateWebhook
    <3>3. raced' = IF \E v \in Workers : At(v, "write") /\ worker[v].hook = h
                   THEN raced \cup {h} ELSE raced \ {h}
      BY <1>2, <2>2 DEF updateWebhook
    <3>4. TypeOK'
      BY <1>a, <2>0, <3>1, <3>2, <3>3, WebhooksAssumption DEF TypeOK, At
    <3>5. ActiveBelowMax'
      BY <3>1, WebhooksAssumption DEF IInv, ActiveBelowMax
    <3>6. CountOK'
      BY <1>a, <3>1, <3>2, <3>3 DEF IInv, CountOK, TypeOK
    <3>7. SeenOK'
      BY <1>a, <2>0, <3>2, <3>3 DEF IInv, SeenOK, TypeOK, At
    <3>. QED
      BY <3>4, <3>5, <3>6, <3>7 DEF IInv
  <2>. QED
    BY <2>1, <2>2
<1>. QED
  BY <1>1, <1>2

LEMMA EmitterStep ==
    ASSUME IInv, NEW e \in Emitters,
           \/ AddJobs(e) \/ AddFails(e)
           \/ \E to \in SUBSET Hooks : FindHooks(e, to)
           \/ \E h \in Hooks : FindPinged(e, h)
    PROVE  IInv'
<1>a. TypeOK
  BY DEF IInv
<1>1. UNCHANGED <<hook, worker, updates, streak, total, raced>>
  BY DEF AddJobs, AddFails, FindHooks, FindPinged, history
<1>2. emitter' \in [Emitters -> Emitter]
  BY <1>a, WebhooksAssumption
     DEF AddJobs, AddFails, FindHooks, FindPinged, TypeOK, Emitter, Rest
<1>3. failures' \in Nat
  BY <1>a DEF AddJobs, AddFails, FindHooks, FindPinged, TypeOK
<1>4. /\ job' \in [Jobs -> Job]
      /\ \A j \in Jobs :
           /\ job'[j].st # "free" => job'[j].hook \in Hooks
           /\ job[j].st = "running" => job'[j] = job[j]
  <2>1. CASE UNCHANGED job
    BY <1>a, <2>1 DEF TypeOK
  <2>2. CASE AddJobs(e)
    <3>. DEFINE new(place, j) == [st |-> "waiting", left |-> emitter[e].attempts,
                                  hook |-> CHOOSE h \in emitter[e].to : place[h] = j]
    <3>1. PICK place \in [emitter[e].to -> {j \in Jobs : job[j].st = "free"}] :
            job' = [j \in Jobs |-> IF \E h \in emitter[e].to : place[h] = j
                                  THEN new(place, j) ELSE job[j]]
      BY <2>2 DEF AddJobs
    <3>2. emitter[e].to \subseteq Hooks /\ emitter[e].attempts \in Nat
      BY <1>a DEF TypeOK, Emitter
    <3>3. ASSUME NEW j \in Jobs, \E h \in emitter[e].to : place[h] = j
          PROVE  new(place, j) \in Job /\ new(place, j).hook \in Hooks /\ job[j].st = "free"
      <4>1. (CHOOSE h \in emitter[e].to : place[h] = j) \in emitter[e].to
        BY <3>3
      <4>2. job[j].st = "free"
        BY <3>1, <3>3
      <4>. QED
        BY <3>2, <4>1, <4>2 DEF Job
    <3>. HIDE DEF new
    <3>. QED
      BY <1>a, <3>1, <3>3 DEF TypeOK
  <2>. QED
    BY <2>1, <2>2 DEF AddFails, FindHooks, FindPinged
<1>5. TypeOK'
  BY <1>a, <1>1, <1>2, <1>3, <1>4 DEF TypeOK, At
<1>. QED
  BY <1>1, <1>5, QuietStep DEF Quiet, IInv

(* The steps of a worker that count nothing. *)
LEMMA QuietWork ==
    ASSUME IInv, NEW w \in Workers,
           \/ Post(w) \/ SuccessThrows(w) \/ CountThrows(w) \/ Crash(w)
           \/ \E j \in Jobs : Take(w, j)
    PROVE  IInv'
<1>a. TypeOK
  BY DEF IInv
<1>b. UNCHANGED <<hook, emitter, updates, streak, raced>>
  BY DEF Post, SuccessThrows, CountThrows, Crash, Take, history
<1>c. failures' \in Nat
  BY <1>a DEF Post, SuccessThrows, CountThrows, Crash, Take, TypeOK
<1>d. total' \in [Hooks -> 0..Max]
  BY <1>a, Counts DEF Post, SuccessThrows, CountThrows, Crash, Take, Blame, history, TypeOK
<1>. DEFINE Safe == /\ job' \in [Jobs -> Job] /\ worker' \in [Workers -> Worker]
                    /\ \A j \in Jobs : job'[j].st # "free" => job'[j].hook \in Hooks
                    /\ \A v \in Workers : worker'[v].pc = "idle" => worker'[v] = NoWork
                    /\ \A v \in Workers : worker'[v].pc # "idle" =>
                         /\ worker'[v].job \in Jobs /\ worker'[v].hook \in Hooks
                         /\ job'[worker'[v].job].st = "running"
                         /\ \A u \in Workers \ {v} : worker'[u].job # worker'[v].job
                    /\ \A v \in Workers : worker'[v].pc = "write" => worker'[v] = worker[v]
<1>e. ASSUME Safe PROVE IInv'
  <2>1. TypeOK'
    BY <1>a, <1>b, <1>c, <1>d, <1>e DEF TypeOK, At
  <2>2. Quiet
    BY <1>b, <1>e DEF Quiet
  <2>. QED
    BY <2>1, <2>2, QuietStep DEF IInv
<1>1. CASE Post(w) \/ SuccessThrows(w)
  <2>1. ~At(w, "idle") /\ UNCHANGED job
    BY <1>1 DEF Post, SuccessThrows, At
  <2>2. PICK pc \in {"success", "count"} : Goto(w, pc)
    BY <1>1 DEF Post, SuccessThrows
  <2>3. /\ worker' \in [Workers -> Worker] /\ worker'[w].pc = pc
        /\ worker'[w].hook = worker[w].hook /\ worker'[w].job = worker[w].job
        /\ \A v \in Workers : v # w => worker'[v] = worker[v]
    BY <1>a, <2>1, <2>2, Went
  <2>4. Safe
    BY <1>a, <2>1, <2>2, <2>3 DEF TypeOK, At
  <2>. QED
    BY <1>e, <2>4
<1>2. CASE CountThrows(w)
  <2>1. ~At(w, "idle") /\ Finish(w) /\ Retry(w)
    BY <1>2 DEF CountThrows, At
  <2>2. /\ job' \in [Jobs -> Job] /\ worker' \in [Workers -> Worker]
        /\ worker'[w] = NoWork /\ NoWork.pc = "idle" /\ NoWork.job \notin Jobs
        /\ \A v \in Workers : v # w => worker'[v] = worker[v]
        /\ \A j \in Jobs : job'[j].st # "free" => job'[j].hook \in Hooks
        /\ \A v \in Workers : worker'[v].pc # "idle" =>
             v # w /\ worker'[v] = worker[v] /\ job'[worker[v].job] = job[worker[v].job]
    BY <1>a, <2>1, Queue
  <2>5. Safe
    BY <1>a, <2>2 DEF TypeOK, At
  <2>. QED
    BY <1>e, <2>5
<1>3. CASE Crash(w)
  <2>. DEFINE i == worker[w].job
  <2>1. ~At(w, "idle") /\ Finish(w) /\ job' = [job EXCEPT ![i] = [job[i] EXCEPT !.st = "waiting"]]
    BY <1>3 DEF Crash
  <2>2. i \in Jobs /\ job[i] \in Job /\ job[i].hook \in Hooks
    BY <1>a, <2>1 DEF TypeOK, At
  <2>3. [job[i] EXCEPT !.st = "waiting"] \in Job /\ [job[i] EXCEPT !.st = "waiting"].hook = job[i].hook
    BY <2>2 DEF Job
  <2>4. /\ job' \in [Jobs -> Job]
        /\ \A j \in Jobs : job'[j].st # "free" => job'[j].hook \in Hooks
        /\ \A j \in Jobs : j # i => job'[j] = job[j]
    BY <1>a, <2>1, <2>2, <2>3 DEF TypeOK
  <2>5. \A v \in Workers : v # w => worker'[v] = worker[v]
    BY <1>a, <2>1 DEF Finish, TypeOK
  <2>6. worker'[w] = NoWork /\ NoWork \in Worker /\ NoWork.pc = "idle" /\ NoWork.job \notin Jobs
    BY <1>a, <2>1, WebhooksAssumption DEF Finish, NoWork, TypeOK, Worker
  <2>7. worker' \in [Workers -> Worker]
    BY <1>a, <2>1, <2>6 DEF Finish, TypeOK
  <2>8. Safe
    BY <1>a, <2>1, <2>4, <2>5, <2>6, <2>7 DEF TypeOK, At
  <2>. QED
    BY <1>e, <2>8
<1>4. ASSUME NEW j \in Jobs, Take(w, j) PROVE IInv'
  <2>. DEFINE new == [pc |-> "post", job |-> j, hook |-> job[j].hook, seen |-> 0]
  <2>1. /\ job[j] \in Job /\ job[j].hook \in Hooks /\ job[j].st = "waiting"
        /\ job' = [job EXCEPT ![j] = [job[j] EXCEPT !.st = "running"]]
        /\ worker' = [worker EXCEPT ![w] = new]
    BY <1>a, <1>4 DEF Take, TypeOK
  <2>2. /\ [job[j] EXCEPT !.st = "running"] \in Job
        /\ [job[j] EXCEPT !.st = "running"].hook = job[j].hook
        /\ [job[j] EXCEPT !.st = "running"].st = "running"
    BY <2>1 DEF Job
  <2>3. new \in Worker /\ new.pc = "post" /\ new.job = j /\ new.hook \in Hooks
    BY <2>1 DEF Worker
  <2>. HIDE DEF new
  <2>4. /\ job' \in [Jobs -> Job] /\ job'[j].st = "running"
        /\ \A i \in Jobs : job'[i].st # "free" => job'[i].hook \in Hooks
        /\ \A i \in Jobs : i # j => job'[i] = job[i]
    BY <1>a, <2>1, <2>2 DEF TypeOK
  <2>5. /\ worker' \in [Workers -> Worker] /\ worker'[w] = new
        /\ \A v \in Workers : v # w => worker'[v] = worker[v]
    BY <1>a, <2>1, <2>3 DEF TypeOK
  <2>6. \A v \in Workers : worker[v].job # j
    BY <1>a, <2>1, WebhooksAssumption DEF TypeOK, NoWork
  <2>7. Safe
    BY <1>a, <2>3, <2>4, <2>5, <2>6 DEF TypeOK, At
  <2>. QED
    BY <1>e, <2>7
<1>. QED
  BY <1>1, <1>2, <1>3, <1>4

(* The steps that read or write the counter. *)
LEMMA ReadStep == ASSUME IInv, NEW w \in Workers, ReadHook(w) PROVE IInv'
<1>. DEFINE h == worker[w].hook
<1>a. TypeOK /\ h \in Hooks /\ ~At(w, "idle") /\ At(w, "count")
  BY DEF IInv, ReadHook, TypeOK, At
<1>b. UNCHANGED <<hook, emitter, updates, failures, streak, total, raced>>
  BY DEF ReadHook, history
<1>1. CASE ~Active(h)
  <2>1. /\ job' \in [Jobs -> Job] /\ worker' \in [Workers -> Worker]
        /\ worker'[w] = NoWork /\ NoWork.pc = "idle" /\ NoWork.job \notin Jobs
        /\ \A v \in Workers : v # w => worker'[v] = worker[v]
        /\ \A j \in Jobs : job'[j].st # "free" => job'[j].hook \in Hooks
        /\ \A v \in Workers : worker'[v].pc # "idle" =>
             v # w /\ worker'[v] = worker[v] /\ job'[worker[v].job] = job[worker[v].job]
    BY <1>a, <1>1, Queue DEF ReadHook
  <2>2. TypeOK'
    BY <1>a, <1>b, <2>1 DEF TypeOK, At
  <2>3. Quiet
    BY <1>b, <2>1 DEF Quiet
  <2>. QED
    BY <2>2, <2>3, QuietStep DEF IInv
<1>2. CASE Active(h)
  <2>. DEFINE seen == hook[h].consecutiveFailures
  <2>1. seen \in Nat /\ seen < Max /\ (h \notin raced => seen = streak[h])
    BY <1>a, <1>2 DEF IInv, ActiveBelowMax, CountOK, Active, TypeOK, Webhook
  <2>2. UNCHANGED job /\ worker' = [worker EXCEPT ![w].pc = "write", ![w].seen = seen]
    BY <1>2 DEF ReadHook
  <2>. HIDE DEF seen
  <2>3. /\ worker' \in [Workers -> Worker]
        /\ worker'[w].pc = "write" /\ worker'[w].seen = seen
        /\ worker'[w].hook = worker[w].hook /\ worker'[w].job = worker[w].job
        /\ \A v \in Workers : v # w => worker'[v] = worker[v]
    BY <1>a, <2>1, <2>2, Moved
  <2>4. TypeOK'
    BY <1>a, <1>b, <2>2, <2>3 DEF TypeOK, At
  <2>5. SeenOK'
    BY <1>b, <2>1, <2>3 DEF IInv, SeenOK, At
  <2>6. ActiveBelowMax' /\ CountOK'
    BY <1>b DEF IInv, ActiveBelowMax, CountOK
  <2>. QED
    BY <2>4, <2>5, <2>6 DEF IInv
<1>. QED
  BY <1>1, <1>2

(* A worker that has written the counter of its hook, or found it gone. *)
LEMMA WriteStep ==
    ASSUME IInv, NEW w \in Workers, ~At(w, "idle"),
           Finish(w), Remove(w) \/ Retry(w),
           UNCHANGED <<emitter, updates, failures, total>>,
           hook' \in [Hooks -> Webhook], streak' \in [Hooks -> 0..Max],
           raced' \subseteq Hooks, ActiveBelowMax', CountOK',
           \A g \in Hooks : g \notin raced' =>
               /\ g \notin raced \/ Holders(g, w) = {}
               /\ streak'[g] = streak[g] \/ Holders(g, w) = {}
    PROVE  IInv'
<1>a. TypeOK
  BY DEF IInv
<1>1. /\ job' \in [Jobs -> Job] /\ worker' \in [Workers -> Worker]
      /\ worker'[w] = NoWork /\ NoWork.pc = "idle" /\ NoWork.job \notin Jobs
      /\ \A v \in Workers : v # w => worker'[v] = worker[v]
      /\ \A j \in Jobs : job'[j].st # "free" => job'[j].hook \in Hooks
      /\ \A v \in Workers : worker'[v].pc # "idle" =>
           v # w /\ worker'[v] = worker[v] /\ job'[worker[v].job] = job[worker[v].job]
  BY <1>a, Queue
<1>2. TypeOK'
  BY <1>a, <1>1 DEF TypeOK, At
<1>3. ASSUME NEW v \in Workers, worker'[v].pc = "write"
      PROVE  /\ worker'[v].seen < Max
             /\ worker'[v].hook \notin raced' => worker'[v].seen = streak'[worker'[v].hook]
  <2>1. v # w /\ worker'[v] = worker[v] /\ At(v, "write")
    BY <1>1, <1>3 DEF At
  <2>2. worker[v].hook \in Hooks /\ v \in Holders(worker[v].hook, w)
    BY <1>a, <2>1 DEF Holders, TypeOK, At
  <2>3. Holders(worker[v].hook, w) # {}
    BY <2>2
  <2>. QED
    BY <2>1, <2>2, <2>3 DEF IInv, SeenOK
<1>4. SeenOK'
  BY <1>3 DEF SeenOK, At
<1>. QED
  BY <1>2, <1>4 DEF IInv

LEMMA SuccessStep == ASSUME IInv, NEW w \in Workers, RecordSuccess(w) PROVE IInv'
<1>. DEFINE h == worker[w].hook
<1>a. TypeOK /\ h \in Hooks /\ ~At(w, "idle")
  BY DEF IInv, RecordSuccess, TypeOK, At
<1>b. Finish(w) /\ Remove(w) /\ UNCHANGED <<emitter, updates, failures, total>>
  BY DEF RecordSuccess
<1>1. CASE ~Present(h)
  <2>1. UNCHANGED <<hook, streak, raced>>
    BY <1>1 DEF RecordSuccess
  <2>2. ActiveBelowMax' /\ CountOK' /\ hook' \in [Hooks -> Webhook]
        /\ streak' \in [Hooks -> 0..Max] /\ raced' \subseteq Hooks
    BY <2>1 DEF IInv, ActiveBelowMax, CountOK, TypeOK
  <2>. QED
    BY <1>a, <1>b, <2>1, <2>2, WriteStep
<1>2. CASE Present(h)
  <2>. DEFINE d == [hook[h] EXCEPT !.consecutiveFailures = 0]
  <2>1. /\ hook' = [hook EXCEPT ![h] = d] /\ streak' = [streak EXCEPT ![h] = 0]
        /\ raced' = IF Holders(h, w) # {} THEN raced \cup {h} ELSE raced \ {h}
    BY <1>2 DEF RecordSuccess
  <2>2. hook[h] \in Webhook
    BY <1>a DEF TypeOK
  <2>3. d \in Webhook /\ d.consecutiveFailures = 0
    BY <2>2 DEF Webhook
  <2>. HIDE DEF d
  <2>4. /\ hook' \in [Hooks -> Webhook] /\ hook'[h].consecutiveFailures = 0
        /\ \A g \in Hooks : g # h => hook'[g] = hook[g]
    BY <1>a, <2>1, <2>3 DEF TypeOK
  <2>5. /\ streak' \in [Hooks -> 0..Max] /\ streak'[h] = 0
        /\ \A g \in Hooks : g # h => streak'[g] = streak[g]
    BY <1>a, <2>1, WebhooksAssumption DEF TypeOK
  <2>6. raced' \subseteq Hooks
    BY <1>a, <2>1 DEF TypeOK
  <2>7. ActiveBelowMax'
    BY <2>4, WebhooksAssumption DEF IInv, ActiveBelowMax
  <2>8. CountOK'
    BY <2>1, <2>4, <2>5 DEF IInv, CountOK
  <2>9. \A g \in Hooks : g \notin raced' =>
          /\ g \notin raced \/ Holders(g, w) = {}
          /\ streak'[g] = streak[g] \/ Holders(g, w) = {}
    BY <2>1, <2>5
  <2>. QED
    BY <1>a, <1>b, <2>4, <2>5, <2>6, <2>7, <2>8, <2>9, WriteStep
<1>. QED
  BY <1>1, <1>2

LEMMA FailureStep == ASSUME IInv, NEW w \in Workers, WriteFailure(w) PROVE IInv'
<1>. DEFINE h == worker[w].hook
            n == worker[w].seen + 1
<1>a. TypeOK /\ h \in Hooks /\ ~At(w, "idle") /\ At(w, "write")
  BY DEF IInv, WriteFailure, TypeOK, At
<1>b. Finish(w) /\ Retry(w) /\ UNCHANGED <<emitter, updates, failures, total>>
  BY DEF WriteFailure
<1>1. CASE ~Present(h)
  <2>1. UNCHANGED <<hook, streak, raced>>
    BY <1>1 DEF WriteFailure
  <2>2. ActiveBelowMax' /\ CountOK' /\ hook' \in [Hooks -> Webhook]
        /\ streak' \in [Hooks -> 0..Max] /\ raced' \subseteq Hooks
    BY <2>1 DEF IInv, ActiveBelowMax, CountOK, TypeOK
  <2>. QED
    BY <1>a, <1>b, <2>1, <2>2, WriteStep
<1>2. CASE Present(h)
  <2>1. n \in Nat /\ n <= Max /\ (h \notin raced => n = streak[h] + 1)
    <3>1. worker[w].seen \in Nat /\ worker[w].seen < Max
      BY <1>a DEF IInv, SeenOK, TypeOK, Worker
    <3>2. h \notin raced => worker[w].seen = streak[h]
      BY <1>a DEF IInv, SeenOK
    <3>. QED
      BY <3>1, <3>2, WebhooksAssumption
  <2>. HIDE DEF n
  <2>2. /\ hook' = [hook EXCEPT ![h].consecutiveFailures = n,
                              ![h].active = IF n >= Max THEN FALSE ELSE hook[h].active]
        /\ streak' = [streak EXCEPT ![h] = UpTo(streak[h])]
        /\ raced' = IF Holders(h, w) # {} THEN raced \cup {h} ELSE raced
    BY <1>2 DEF WriteFailure, n
  <2>3. PICK b \in BOOLEAN :
          /\ hook' = [hook EXCEPT ![h].consecutiveFailures = n, ![h].active = b]
          /\ n >= Max => ~b
    <3>1. hook[h].active \in BOOLEAN
      BY <1>a DEF TypeOK, Webhook
    <3>. QED
      BY <2>2, <3>1
  <2>4. /\ hook' \in [Hooks -> Webhook]
        /\ hook'[h].consecutiveFailures = n
        /\ (hook'[h].active = b)
        /\ \A g \in Hooks : g # h => hook'[g] = hook[g]
    BY <1>a, <2>1, <2>3, Written
  <2>5. /\ streak' \in [Hooks -> 0..Max] /\ streak'[h] = UpTo(streak[h])
        /\ \A g \in Hooks : g # h => streak'[g] = streak[g]
    BY <1>a, <2>2, Counts DEF TypeOK
  <2>6. raced' \subseteq Hooks
    BY <1>a, <2>2 DEF TypeOK
  <2>7. ActiveBelowMax'
    BY <2>1, <2>3, <2>4, WebhooksAssumption DEF IInv, ActiveBelowMax
  <2>8. h \notin raced' => n = streak'[h]
    BY <1>a, <2>1, <2>2, <2>5, WebhooksAssumption DEF UpTo, TypeOK
  <2>9. CountOK'
    BY <2>2, <2>4, <2>5, <2>8 DEF IInv, CountOK
  <2>10. \A g \in Hooks : g \notin raced' =>
           /\ g \notin raced \/ Holders(g, w) = {}
           /\ streak'[g] = streak[g] \/ Holders(g, w) = {}
    BY <2>2, <2>5
  <2>. QED
    BY <1>a, <1>b, <2>4, <2>5, <2>6, <2>7, <2>9, <2>10, WriteStep
<1>. QED
  BY <1>1, <1>2

LEMMA StepInv == IInv /\ [Next]_vars => IInv'
<1> SUFFICES ASSUME IInv, [Next]_vars PROVE IInv'
  OBVIOUS
<1>1. CASE UNCHANGED vars
  BY <1>1 DEF vars, history, IInv, TypeOK, ActiveBelowMax, SeenOK, CountOK, At
<1>. QED
  BY <1>1, OwnerStep, EmitterStep, QuietWork, ReadStep, SuccessStep, FailureStep
     DEF Next, Continue

THEOREM Invariance == Spec => []IInv
BY InitInv, StepInv, PTL DEF Spec

(* The collection, the queue and the workers keep their shape, whatever the  *)
(* number of processes and faults.                                           *)
THEOREM TypeCorrect == Spec => []TypeOK
<1>1. IInv => TypeOK
  BY DEF IInv
<1>. QED
  BY <1>1, Invariance, PTL

(* recordDeliveryFailure, updateWebhook: no interleaving leaves a hook armed *)
(* with its counter at the limit, and the counter is off only after a write  *)
(* fell between another's read and write.                                    *)
THEOREM BreakerIsSafe == Spec => []BreakerSafety
<1>1. IInv => ActiveBelowMax
  BY DEF IInv
<1>2. IInv => MiscountNeedsOverlap
  BY DEF IInv, CountOK, MiscountNeedsOverlap
<1>. QED
  BY <1>1, <1>2, Invariance, PTL DEF BreakerSafety

-----------------------------------------------------------------------------
(* NeverOvercounts.  A delivery that has failed is in total at once, and on  *)
(* its way to the counter from "count" to the end of "write".  The room      *)
(* between the two numbers is that of the deliveries on their way: each may  *)
(* still add one, to the counter or to what another worker has seen of it.   *)
Pending(h) == {w \in Workers : worker[w].pc \in {"count", "write"} /\ worker[w].hook = h}

Covers(h, n) == total[h] = Max \/ n + Cardinality(Pending(h)) <= total[h]

Backed(h) ==
    /\ IsFiniteSet(Pending(h))
    /\ Covers(h, hook[h].consecutiveFailures)
    /\ \A w \in Pending(h) : At(w, "write") => Covers(h, worker[w].seen)

Ledger == \A h \in Hooks : Backed(h)

LEMMA InitLedger == Init => Ledger
<1> SUFFICES ASSUME Init, NEW h \in Hooks PROVE Backed(h)
  BY DEF Ledger
<1>1. Pending(h) = {}
  BY DEF Init, Pending, NoWork
<1>2. total[h] = 0 /\ hook[h].consecutiveFailures = 0
  BY DEF Init
<1>. QED
  BY <1>1, <1>2, FS_EmptySet DEF Backed, Covers

(* A step that sends no delivery to the counter: what it leaves in the       *)
(* counter or with a worker is what was there, 0, or one more than a worker  *)
(* had seen that is now done.                                                *)
LEMMA Settles ==
    ASSUME TypeOK, NEW h \in Hooks, Backed(h), total' = total,
           Pending(h)' \subseteq Pending(h), hook'[h].consecutiveFailures \in Nat,
           \/ hook'[h].consecutiveFailures <= hook[h].consecutiveFailures
           \/ \E w \in Pending(h) \ Pending(h)' :
                At(w, "write") /\ hook'[h].consecutiveFailures = worker[w].seen + 1,
           \A w \in Pending(h)' : worker'[w].pc = "write" =>
               \/ At(w, "write") /\ worker'[w].seen = worker[w].seen
               \/ worker'[w].seen = hook[h].consecutiveFailures
    PROVE  Backed(h)'
<1>. DEFINE n == Cardinality(Pending(h))
            m == Cardinality(Pending(h)')
            c == hook[h].consecutiveFailures
            d == hook'[h].consecutiveFailures
<1>1. /\ IsFiniteSet(Pending(h)) /\ Covers(h, c)
      /\ \A w \in Pending(h) : At(w, "write") => Covers(h, worker[w].seen)
  BY DEF Backed
<1>2. IsFiniteSet(Pending(h)') /\ m <= n /\ m \in Nat /\ n \in Nat
  BY <1>1, FS_Subset, FS_CardinalityType
<1>3. total[h] \in 0..Max /\ total'[h] = total[h] /\ c \in Nat
  BY DEF TypeOK, Webhook
<1>4. \A w \in Workers : worker[w].seen \in Nat
  BY DEF TypeOK, Worker
<1>5. ASSUME NEW k \in Nat, Covers(h, k) PROVE total'[h] = Max \/ k + m <= total'[h]
  BY <1>2, <1>3, <1>5, WebhooksAssumption DEF Covers
<1>6. total'[h] = Max \/ d + m <= total'[h]
  <2>1. CASE d <= c
    BY <1>1, <1>2, <1>3, <1>5, <2>1, WebhooksAssumption
  <2>2. ASSUME NEW w \in Pending(h) \ Pending(h)',
               At(w, "write") /\ d = worker[w].seen + 1
        PROVE  total'[h] = Max \/ d + m <= total'[h]
    <3>1. m < n
      BY <1>1, <1>2, <2>2, FS_Subset
    <3>2. w \in Workers /\ Covers(h, worker[w].seen)
      BY <1>1, <2>2 DEF Pending
    <3>. QED
      BY <1>2, <1>3, <1>4, <2>2, <3>1, <3>2, WebhooksAssumption DEF Covers
  <2>. QED
    BY <2>1, <2>2
<1>7. ASSUME NEW w \in Pending(h)', worker'[w].pc = "write"
      PROVE  total'[h] = Max \/ worker'[w].seen + m <= total'[h]
  <2>1. w \in Pending(h) /\ w \in Workers
    BY <1>7 DEF Pending
  <2>. QED
    BY <1>1, <1>3, <1>4, <1>5, <1>7, <2>1
<1>. QED
  BY <1>2, <1>6, <1>7 DEF Backed, Covers, At

(* A delivery that fails is in the total when its worker turns to the count. *)
LEMMA Owes ==
    ASSUME TypeOK, NEW w \in Workers, worker[w].pc \in {"post", "success"},
           Goto(w, "count"), Blame(w), UNCHANGED hook, NEW h \in Hooks, Backed(h)
    PROVE  Backed(h)'
<1>1. /\ worker'[w].pc = "count" /\ worker'[w].hook = worker[w].hook
      /\ \A v \in Workers : v # w => worker'[v] = worker[v]
  BY Went DEF At
<1>2. w \notin Pending(h)
  BY DEF Pending
<1>3. total[h] \in 0..Max /\ hook[h].consecutiveFailures \in Nat
  BY DEF TypeOK, Webhook
<1>4. worker[w].hook \in Hooks
  BY DEF TypeOK, At
<1>5. /\ IsFiniteSet(Pending(h)) /\ Covers(h, hook[h].consecutiveFailures)
      /\ \A v \in Pending(h) : At(v, "write") => Covers(h, worker[v].seen)
  BY DEF Backed
<1>6. Cardinality(Pending(h)) \in Nat
  BY <1>5, FS_CardinalityType
<1>7. ASSUME NEW v \in Pending(h)', worker'[v].pc = "write"
      PROVE  v \in Pending(h) /\ At(v, "write") /\ worker'[v].seen = worker[v].seen /\ worker[v].seen \in Nat
  <2>1. v \in Workers /\ v # w
    BY <1>1, <1>7 DEF Pending
  <2>. QED
    BY <1>1, <1>7, <2>1 DEF Pending, At, TypeOK, Worker
<1>8. CASE worker[w].hook = h
  <2>1. Pending(h)' = Pending(h) \cup {w}
    BY <1>1, <1>8 DEF Pending
  <2>2. IsFiniteSet(Pending(h)') /\ Cardinality(Pending(h)') = Cardinality(Pending(h)) + 1
    BY <1>2, <1>5, <2>1, FS_AddElement
  <2>3. total'[h] = UpTo(total[h])
    BY <1>8 DEF Blame, TypeOK
  <2>4. ASSUME NEW k \in Nat, Covers(h, k)
        PROVE  total'[h] = Max \/ k + Cardinality(Pending(h)') <= total'[h]
    BY <1>3, <1>6, <2>2, <2>3, <2>4, WebhooksAssumption DEF Covers, UpTo
  <2>. QED
    BY <1>3, <1>5, <1>7, <2>2, <2>4 DEF Backed, Covers, At
<1>9. CASE worker[w].hook # h
  <2>1. Pending(h)' = Pending(h)
    BY <1>1, <1>2, <1>9 DEF Pending
  <2>2. total'[h] = total[h]
    BY <1>9 DEF Blame, TypeOK
  <2>. QED
    BY <1>5, <1>7, <2>1, <2>2 DEF Backed, Covers, At
<1>. QED
  BY <1>8, <1>9

(* A worker that is done leaves the others where they were. *)
LEMMA Done ==
    ASSUME TypeOK, NEW w \in Workers, Finish(w)
    PROVE  /\ \A h \in Hooks : Pending(h)' \subseteq Pending(h) \ {w}
           /\ \A v \in Workers : worker'[v].pc = "write" => worker'[v] = worker[v]
BY DEF Finish, TypeOK, NoWork, Pending

LEMMA LedgerStep == ASSUME IInv, TypeOK', Ledger, [Next]_vars PROVE Ledger'
<1>a. TypeOK
  BY DEF IInv
<1>b. \A h \in Hooks : Backed(h) /\ hook[h].consecutiveFailures \in Nat
                       /\ hook'[h].consecutiveFailures \in Nat
  BY <1>a DEF Ledger, TypeOK, Webhook
<1>. DEFINE Still == /\ total' = total
                     /\ \A h \in Hooks : Pending(h)' \subseteq Pending(h)
                     /\ \A v \in Workers : worker'[v].pc = "write" => worker'[v] = worker[v]
<1>c. ASSUME Still,
             \A h \in Hooks : hook'[h].consecutiveFailures <= hook[h].consecutiveFailures
      PROVE  Ledger'
  <2> SUFFICES ASSUME NEW h \in Hooks PROVE Backed(h)'
    BY DEF Ledger
  <2>1. \A v \in Pending(h)' : worker'[v].pc = "write" =>
            At(v, "write") /\ worker'[v].seen = worker[v].seen
    BY <1>c DEF Pending, At
  <2>. QED
    BY <1>a, <1>b, <1>c, <2>1, Settles
<1>1. CASE UNCHANGED vars
  BY <1>1 DEF vars, history, Ledger, Backed, Covers, Pending, At
<1>2. ASSUME NEW h \in Hooks,
             \/ createWebhook(h) \/ deleteWebhook(h)
             \/ \E active \in BOOLEAN : updateWebhook(h, active)
      PROVE  Ledger'
  <2>1. UNCHANGED <<worker, total>>
    BY <1>2 DEF createWebhook, deleteWebhook, updateWebhook, history
  <2>2. Still
    BY <2>1 DEF Pending
  <2>3. \A g \in Hooks : hook'[g].consecutiveFailures <= hook[g].consecutiveFailures
    <3>1. PICK d \in Webhook : hook' = [hook EXCEPT ![h] = d]
                               /\ d.consecutiveFailures \in {0, hook[h].consecutiveFailures}
      <4>1. hook[h] \in Webhook
        BY <1>a DEF TypeOK
      <4>2. ASSUME NEW x \in {"present", "deleted"}
            PROVE  /\ [hook[h] EXCEPT !.st = x] \in Webhook
                   /\ [hook[h] EXCEPT !.st = x].consecutiveFailures = hook[h].consecutiveFailures
        BY <4>1 DEF Webhook
      <4>3. /\ [hook[h] EXCEPT !.active = FALSE] \in Webhook
            /\ [hook[h] EXCEPT !.active = FALSE].consecutiveFailures = hook[h].consecutiveFailures
        BY <4>1 DEF Webhook
      <4>4. /\ [hook[h] EXCEPT !.consecutiveFailures = 0, !.active = TRUE] \in Webhook
            /\ [hook[h] EXCEPT !.consecutiveFailures = 0, !.active = TRUE].consecutiveFailures = 0
        BY <4>1 DEF Webhook
      <4>5. CASE createWebhook(h)
        BY <4>2, <4>5 DEF createWebhook
      <4>6. CASE deleteWebhook(h)
        BY <4>2, <4>6 DEF deleteWebhook
      <4>7. ASSUME NEW active \in BOOLEAN, updateWebhook(h, active)
            PROVE  \E d \in Webhook : /\ hook' = [hook EXCEPT ![h] = d]
                                      /\ d.consecutiveFailures \in {0, hook[h].consecutiveFailures}
        <5>1. \/ hook' = [hook EXCEPT ![h] = [hook[h] EXCEPT !.consecutiveFailures = 0, !.active = TRUE]]
              \/ hook' = [hook EXCEPT ![h] = [hook[h] EXCEPT !.active = FALSE]]
          BY <4>7 DEF updateWebhook
        <5>. QED
          BY <4>3, <4>4, <5>1
      <4>. QED
        BY <1>2, <4>5, <4>6, <4>7
    <3>. QED
      BY <1>a, <1>b, <3>1 DEF TypeOK
  <2>. QED
    BY <1>c, <2>2, <2>3
<1>3. ASSUME NEW e \in Emitters,
             \/ AddJobs(e) \/ AddFails(e)
             \/ \E to \in SUBSET Hooks : FindHooks(e, to)
             \/ \E h \in Hooks : FindPinged(e, h)
      PROVE  Ledger'
  <2>1. UNCHANGED <<hook, worker, total>>
    BY <1>3 DEF AddJobs, AddFails, FindHooks, FindPinged, history
  <2>2. Still
    BY <2>1 DEF Pending
  <2>. QED
    BY <1>b, <1>c, <2>1, <2>2
<1>4. ASSUME NEW w \in Workers, Post(w) PROVE Ledger'
  <2>1. CASE Goto(w, "success") /\ UNCHANGED total
    <3>0. At(w, "post") /\ ~At(w, "idle") /\ UNCHANGED hook
      BY <1>4 DEF Post, At
    <3>1. /\ worker'[w].pc = "success"
          /\ \A v \in Workers : v # w => worker'[v] = worker[v]
      BY <1>a, <2>1, <3>0, Went
    <3>2. Still
      BY <2>1, <3>1 DEF Pending
    <3>. QED
      BY <1>b, <1>c, <3>0, <3>2
  <2>2. CASE Goto(w, "count") /\ Blame(w)
    BY <1>4, <1>a, <1>b, <2>2, Owes DEF Post, At, Ledger
  <2>. QED
    BY <1>4, <2>1, <2>2 DEF Post
<1>5. ASSUME NEW w \in Workers, SuccessThrows(w) PROVE Ledger'
  BY <1>5, <1>a, <1>b, Owes DEF SuccessThrows, At, Ledger
<1>6. ASSUME NEW w \in Workers, RecordSuccess(w) PROVE Ledger'
  <2>. DEFINE h == worker[w].hook
  <2>1. Finish(w) /\ total' = total /\ h \in Hooks
    BY <1>a, <1>6 DEF RecordSuccess, TypeOK, At
  <2>2. Still
    BY <1>a, <2>1, Done
  <2>3. CASE UNCHANGED hook
    BY <1>b, <1>c, <2>2, <2>3
  <2>4. CASE hook' = [hook EXCEPT ![h].consecutiveFailures = 0]
    <3>. DEFINE d == [hook[h] EXCEPT !.consecutiveFailures = 0]
    <3>1. d.consecutiveFailures = 0
      BY <1>a, <2>1 DEF TypeOK, Webhook
    <3>2. hook' = [hook EXCEPT ![h] = d]
      BY <2>4
    <3>. HIDE DEF d
    <3>3. \A g \in Hooks : hook'[g].consecutiveFailures <= hook[g].consecutiveFailures
      BY <1>a, <1>b, <3>1, <3>2 DEF TypeOK
    <3>. QED
      BY <1>c, <2>2, <3>3
  <2>. QED
    BY <1>6, <2>3, <2>4 DEF RecordSuccess
<1>7. ASSUME NEW w \in Workers, ReadHook(w) PROVE Ledger'
  <2>. DEFINE h == worker[w].hook
  <2>1. At(w, "count") /\ ~At(w, "idle") /\ UNCHANGED <<hook, total>> /\ h \in Hooks
    BY <1>a, <1>7 DEF ReadHook, TypeOK, At, history
  <2>2. CASE ~Active(h)
    BY <1>7, <1>a, <1>b, <1>c, <2>1, <2>2, Done DEF ReadHook
  <2>3. CASE Active(h)
    <3>1. worker' = [worker EXCEPT ![w].pc = "write", ![w].seen = hook[h].consecutiveFailures]
      BY <1>7, <2>3 DEF ReadHook
    <3>2. /\ worker'[w].pc = "write" /\ worker'[w].seen = hook[h].consecutiveFailures
          /\ worker'[w].hook = h
          /\ \A v \in Workers : v # w => worker'[v] = worker[v]
      BY <1>a, <1>b, <2>1, <3>1, Moved
    <3>3. ASSUME NEW g \in Hooks PROVE Backed(g)'
      <4>1. Pending(g)' \subseteq Pending(g)
        BY <2>1, <3>2 DEF Pending, At
      <4>2. \A v \in Pending(g)' : worker'[v].pc = "write" =>
              \/ At(v, "write") /\ worker'[v].seen = worker[v].seen
              \/ worker'[v].seen = hook[g].consecutiveFailures
        BY <3>2 DEF Pending, At
      <4>3. hook'[g].consecutiveFailures <= hook[g].consecutiveFailures
        BY <1>b, <2>1
      <4>. QED
        BY <1>a, <1>b, <2>1, <4>1, <4>2, <4>3, Settles
    <3>. QED
      BY <3>3 DEF Ledger
  <2>. QED
    BY <2>2, <2>3
<1>8. ASSUME NEW w \in Workers, WriteFailure(w) PROVE Ledger'
  <2>. DEFINE h == worker[w].hook
              n == worker[w].seen + 1
  <2>1. At(w, "write") /\ Finish(w) /\ total' = total /\ h \in Hooks /\ worker[w].seen \in Nat
    BY <1>a, <1>8 DEF WriteFailure, TypeOK, At, Worker
  <2>2. Still /\ \A g \in Hooks : Pending(g)' \subseteq Pending(g) \ {w}
    BY <1>a, <2>1, Done
  <2>3. CASE UNCHANGED hook
    BY <1>b, <1>c, <2>2, <2>3
  <2>4. CASE ~UNCHANGED hook
    <3>1. hook' = [hook EXCEPT ![h].consecutiveFailures = n,
                               ![h].active = IF n >= Max THEN FALSE ELSE hook[h].active]
      BY <1>8, <2>4 DEF WriteFailure
    <3>2. PICK b \in BOOLEAN : hook' = [hook EXCEPT ![h].consecutiveFailures = n, ![h].active = b]
      <4>1. hook[h].active \in BOOLEAN
        BY <1>a, <2>1 DEF TypeOK, Webhook
      <4>. QED
        BY <3>1, <4>1
    <3>. n \in Nat
      BY <2>1
    <3>. HIDE DEF n
    <3>3. /\ hook'[h].consecutiveFailures = n
          /\ \A g \in Hooks : g # h => hook'[g] = hook[g]
      BY <1>a, <2>1, <3>2, Written
    <3>4. ASSUME NEW g \in Hooks PROVE Backed(g)'
      <4>1. \A v \in Pending(g)' : worker'[v].pc = "write" =>
              At(v, "write") /\ worker'[v].seen = worker[v].seen
        BY <2>2 DEF Pending, At
      <4>2. CASE g # h
        <5>1. hook'[g].consecutiveFailures <= hook[g].consecutiveFailures
          BY <1>b, <3>3, <4>2
        <5>. QED
          BY <1>a, <1>b, <2>1, <2>2, <4>1, <5>1, Settles
      <4>3. CASE g = h
        <5>1. w \in Pending(g) \ Pending(g)'
          BY <2>1, <2>2, <4>3 DEF Pending, At
        <5>2. hook'[g].consecutiveFailures = worker[w].seen + 1
          BY <3>3, <4>3 DEF n
        <5>. QED
          BY <1>a, <1>b, <2>1, <2>2, <4>1, <5>1, <5>2, Settles
      <4>. QED
        BY <4>2, <4>3
    <3>. QED
      BY <3>4 DEF Ledger
  <2>. QED
    BY <2>3, <2>4
<1>9. ASSUME NEW w \in Workers, CountThrows(w) \/ Crash(w) PROVE Ledger'
  <2>1. Finish(w) /\ UNCHANGED <<hook, total>>
    BY <1>9 DEF CountThrows, Crash, history
  <2>. QED
    BY <1>a, <1>b, <1>c, <2>1, Done
<1>10. ASSUME NEW w \in Workers, NEW j \in Jobs, Take(w, j) PROVE Ledger'
  <2>. DEFINE new == [pc |-> "post", job |-> j, hook |-> job[j].hook, seen |-> 0]
  <2>1. worker' = [worker EXCEPT ![w] = new] /\ UNCHANGED <<hook, total>>
    BY <1>10 DEF Take, history
  <2>2. new.pc = "post"
    OBVIOUS
  <2>. HIDE DEF new
  <2>3. Still
    BY <1>a, <2>1, <2>2 DEF Pending, TypeOK
  <2>. QED
    BY <1>b, <1>c, <2>1, <2>3
<1>. QED
  BY <1>1, <1>2, <1>3, <1>4, <1>5, <1>6, <1>7, <1>8, <1>9, <1>10 DEF Next, Continue

(* recordDeliveryFailure: lost updates and stale reads, whatever their       *)
(* number and order, never make the counter say more than the deliveries     *)
(* that failed, so no hook is disabled early.                                *)
THEOREM CountsOnlyFailures == Spec => []NeverOvercounts
<1>1. IInv => TypeOK
  BY DEF IInv
<1>2. IInv /\ Ledger => NeverOvercounts
  <2> SUFFICES ASSUME IInv, Ledger, NEW h \in Hooks
               PROVE  hook[h].consecutiveFailures <= total[h]
    BY DEF NeverOvercounts
  <2>1. hook[h].consecutiveFailures \in Nat /\ hook[h].consecutiveFailures <= Max
        /\ total[h] \in 0..Max
    BY DEF IInv, ActiveBelowMax, TypeOK, Webhook
  <2>2. Covers(h, hook[h].consecutiveFailures) /\ Cardinality(Pending(h)) \in Nat
    BY FS_CardinalityType DEF Ledger, Backed
  <2>. QED
    BY <2>1, <2>2, WebhooksAssumption DEF Covers
<1>3. Spec => []Ledger
  <2>1. IInv /\ IInv' /\ Ledger /\ [Next]_vars => Ledger'
    BY <1>1, LedgerStep DEF IInv
  <2>. QED
    BY <2>1, InitLedger, Invariance, PTL DEF Spec
<1>. QED
  BY <1>2, <1>3, Invariance, PTL

-----------------------------------------------------------------------------
(* Reminders: runs of the hourly job, and their mails *)

(* A mail for a task is waiting, being sent, or in the inbox; a run holds    *)
(* the tasks it found, and is between queue.add and updateOne for one.       *)
Sent(t) == inbox[t] + mails[t]
Holds(p, t) == t \in run[p].due
Mailing(p, t) == RunAt(p, "mark") /\ run[p].task = t

(* A worker without a job holds nothing, and only a mailing run names a task.*)
RunsOK == \A p \in Processes : /\ RunAt(p, "idle") => run[p].due = {}
                               /\ ~RunAt(p, "mark") => run[p].task = NoTask
(* MarkedIsMailed, for the task that is about to be marked.                  *)
MailedOK ==
    \A p \in Processes : \A t \in Tasks : Mailing(p, t) =>
        inbox[t] > 0 \/ mails[t] > 0 \/ t \in dropped
(* A task that no fault and no overlap excuses was mailed once at most; then *)
(* it is marked, or the run that mailed it is about to; until then one run   *)
(* holds it at most, and has not mailed it.                                  *)
OnceOK ==
    \A t \in Tasks \ again :
        /\ Sent(t) <= 1
        /\ Sent(t) > 0 => task[t].reminderSent \/ \E p \in Processes : Mailing(p, t)
        /\ \A p \in Processes : Holds(p, t) /\ ~Mailing(p, t) => Sent(t) = 0
        /\ \A p, q \in Processes : Holds(p, t) /\ Holds(q, t) => p = q
ReminderInv == RemindersTypeOK /\ RunsOK /\ MailedOK /\ OnceOK /\ MarkedIsMailed /\ MailsWhatIsDue

LEMMA NoRunOK == NoRun \in Run /\ NoRun.pc = "idle" /\ NoRun.due = {} /\ NoRun.task = NoTask
BY DEF NoRun, Run

LEMMA MailsCount ==
    ASSUME RemindersTypeOK, NEW t \in Tasks
    PROVE  inbox[t] \in Nat /\ mails[t] \in Nat /\ Sent(t) \in Nat
BY DEF RemindersTypeOK, Sent

LEMMA InitReminders == RemindersInit => ReminderInv
<1>. SUFFICES ASSUME RemindersInit PROVE ReminderInv
  OBVIOUS
<1>1. RemindersTypeOK
  <2>1. \A p \in Processes : RunAt(p, "idle")
    BY NoRunOK DEF RemindersInit, RunAt
  <2>. QED
    BY <2>1, NoRunOK DEF RemindersInit, RemindersTypeOK, Task, Process, RunAt
<1>2. RunsOK /\ MailedOK
  BY NoRunOK DEF RemindersInit, RunsOK, MailedOK, Mailing, RunAt
<1>3. OnceOK /\ MarkedIsMailed /\ MailsWhatIsDue
  BY NoRunOK DEF RemindersInit, OnceOK, MarkedIsMailed, MailsWhatIsDue, Sent, Holds, Mailing, RunAt
<1>. QED
  BY <1>1, <1>2, <1>3 DEF ReminderInv

-----------------------------------------------------------------------------
(* A run moves, and the others stay. *)
LEMMA RunPut ==
    ASSUME RemindersTypeOK, NEW p \in Processes, NEW d \in Run, run' = [run EXCEPT ![p] = d]
    PROVE  /\ run' \in [Processes -> Run] /\ run'[p] = d
           /\ \A q \in Processes : q # p => run'[q] = run[q]
BY DEF RemindersTypeOK

(* The part of TypeOK that is about runs. *)
WorkOK == \A p \in Processes : /\ ~RunAt(p, "idle") => Works(p)
                               /\ RunAt(p, "mark") => run[p].task \in run[p].due

LEMMA FindKeeps == ASSUME ReminderInv, NEW p \in Processes, Find(p) PROVE ReminderInv'
<1>. DEFINE d == [NoRun EXCEPT !.pc = IF Found = {} THEN "idle" ELSE "send", !.due = Found]
<1>1. /\ RunAt(p, "idle") /\ Works(p) /\ hourly' = FALSE /\ again' = again \cup (Found \cap Held(p))
      /\ task' = task /\ proc' = proc /\ mails' = mails /\ inbox' = inbox /\ events' = events
      /\ moved' = moved /\ dropped' = dropped /\ run' = [run EXCEPT ![p] = d]
  BY DEF Find
<1>2. Found \subseteq Tasks
  BY DEF Found
<1>3. /\ d \in Run /\ d.due = Found /\ d.task = NoTask /\ d.pc \in {"idle", "send"}
      /\ d.pc = "idle" => d.due = {}
  BY <1>2, NoRunOK DEF NoRun, Run
<1>. HIDE DEF d
<1>4. /\ run' \in [Processes -> Run] /\ run'[p] = d
      /\ \A q \in Processes : q # p => run'[q] = run[q]
  BY <1>1, <1>3, RunPut DEF ReminderInv
<1>5. RemindersTypeOK'
  BY <1>1, <1>2, <1>3, <1>4 DEF ReminderInv, RemindersTypeOK, RunAt, Works
<1>6. RunsOK' /\ MailedOK'
  BY <1>1, <1>3, <1>4 DEF ReminderInv, RunsOK, MailedOK, Mailing, RunAt
<1>7. OnceOK'
  <2>1. ASSUME NEW t \in Tasks \ again'
        PROVE  /\ t \notin again /\ Sent(t)' = Sent(t)
               /\ t \in Found => \A q \in Processes : q # p => ~Holds(q, t)
    BY <1>1 DEF Sent, Held, Holds
  <2>2. \A q \in Processes, t \in Tasks :
          /\ Mailing(q, t)' <=> Mailing(q, t)
          /\ q # p => (Holds(q, t)' <=> Holds(q, t))
    BY <1>1, <1>3, <1>4 DEF Mailing, Holds, RunAt
  <2>3. \A t : Holds(p, t)' <=> t \in Found
    BY <1>3, <1>4 DEF Holds
  <2>4. \A q \in Processes, t \in Tasks : Mailing(q, t) => Holds(q, t) /\ q # p
    BY <1>1 DEF Mailing, Holds, ReminderInv, RemindersTypeOK, RunAt
  <2>5. \A t \in Found : ~task[t].reminderSent
    BY DEF Found, Eligible
  <2>6. ASSUME NEW t \in Tasks \ again'
        PROVE  /\ Sent(t)' <= 1
               /\ Sent(t)' > 0 => task[t].reminderSent \/ \E q \in Processes : Mailing(q, t)'
               /\ \A q \in Processes : q # p /\ Holds(q, t)' /\ ~Mailing(q, t)' => Sent(t)' = 0
    BY <2>1, <2>2 DEF ReminderInv, OnceOK
  <2>7. ASSUME NEW t \in Tasks \ again', t \in Found PROVE Sent(t)' = 0
    <3>1. ~ Sent(t) > 0
      BY <2>1, <2>4, <2>5, <2>7 DEF ReminderInv, OnceOK
    <3>. QED
      BY <2>1, <3>1, MailsCount DEF ReminderInv
  <2>8. ASSUME NEW t \in Tasks \ again', NEW q \in Processes, NEW s \in Processes,
               Holds(q, t)', Holds(s, t)'
        PROVE  q = s
    BY <2>1, <2>2, <2>3, <2>8 DEF ReminderInv, OnceOK
  <2>. QED
    BY <1>1, <2>3, <2>6, <2>7, <2>8 DEF OnceOK
<1>8. MarkedIsMailed'
  BY <1>1 DEF ReminderInv, MarkedIsMailed
<1>9. MailsWhatIsDue'
  <2>1. \A t \in Tasks : Eligible(t)' <=> Eligible(t)
    BY <1>1 DEF Eligible
  <2>2. \A t \in Found : Eligible(t)'
    BY <1>1 DEF Found, Eligible
  <2>3. \A q \in Processes : run[q].due \subseteq Tasks
    BY DEF ReminderInv, RemindersTypeOK, Run
  <2>. QED
    BY <1>1, <1>3, <1>4, <2>1, <2>2, <2>3 DEF ReminderInv, MailsWhatIsDue
<1>. QED
  BY <1>5, <1>6, <1>7, <1>8, <1>9 DEF ReminderInv

LEMMA SendKeeps ==
    ASSUME ReminderInv, NEW p \in Processes, NEW t \in Tasks, Send(p, t) PROVE ReminderInv'
<1>. DEFINE d == [run[p] EXCEPT !.pc = "mark", !.task = t]
<1>1. /\ RunAt(p, "send") /\ t \in run[p].due /\ mails' = [mails EXCEPT ![t] = @ + 1]
      /\ task' = task /\ proc' = proc /\ hourly' = hourly /\ inbox' = inbox /\ events' = events
      /\ moved' = moved /\ again' = again /\ dropped' = dropped
  BY DEF Send, excuses
<1>2. run' = [run EXCEPT ![p] = d]
  BY DEF Send
<1>3. run[p] \in Run
  BY DEF ReminderInv, RemindersTypeOK
<1>4. d \in Run /\ d.pc = "mark" /\ d.task = t /\ d.due = run[p].due
  BY <1>3 DEF Run
<1>. HIDE DEF d
<1>5. /\ run' \in [Processes -> Run] /\ run'[p] = d
      /\ \A q \in Processes : q # p => run'[q] = run[q]
  BY <1>2, <1>4, RunPut DEF ReminderInv
<1>6. /\ mails' \in [Tasks -> Nat] /\ mails'[t] = mails[t] + 1 /\ mails[t] \in Nat
      /\ \A u \in Tasks : u # t => mails'[u] = mails[u]
  BY <1>1 DEF ReminderInv, RemindersTypeOK
<1>7. RemindersTypeOK'
  BY <1>1, <1>4, <1>5, <1>6 DEF ReminderInv, RemindersTypeOK, RunAt, Works
<1>8. \A q \in Processes, u \in Tasks :
        /\ Holds(q, u)' <=> Holds(q, u)
        /\ Mailing(q, u)' <=> Mailing(q, u) \/ (q = p /\ u = t)
  BY <1>1, <1>4, <1>5 DEF Holds, Mailing, RunAt
<1>9. RunsOK'
  BY <1>4, <1>5 DEF ReminderInv, RunsOK, RunAt
<1>10. \A u \in Tasks : mails[u] > 0 => mails'[u] > 0
  BY <1>6
<1>11. MailedOK' /\ MarkedIsMailed'
  BY <1>1, <1>6, <1>8, <1>10 DEF ReminderInv, MailedOK, MarkedIsMailed
<1>12. OnceOK'
  <2>1. \A u \in Tasks : u # t => Sent(u)' = Sent(u)
    BY <1>1, <1>6 DEF Sent
  <2>2. t \notin again => Sent(t)' = 1 /\ \A q \in Processes : Holds(q, t) => q = p
    <3>1. ~Mailing(p, t) /\ Holds(p, t)
      BY <1>1 DEF Mailing, Holds, RunAt
    <3>2. Sent(t)' = Sent(t) + 1
      BY <1>1, <1>6, MailsCount DEF Sent, ReminderInv, RemindersTypeOK
    <3>. QED
      BY <3>1, <3>2 DEF ReminderInv, OnceOK
  <2>3. ASSUME NEW u \in Tasks \ again', u # t
        PROVE  /\ Sent(u)' <= 1
               /\ Sent(u)' > 0 => task[u].reminderSent \/ \E q \in Processes : Mailing(q, u)'
               /\ \A q \in Processes : Holds(q, u)' /\ ~Mailing(q, u)' => Sent(u)' = 0
    BY <1>1, <1>8, <2>1, <2>3 DEF ReminderInv, OnceOK
  <2>4. ASSUME NEW u \in Tasks \ again', u = t
        PROVE  /\ Sent(u)' <= 1
               /\ Sent(u)' > 0 => task[u].reminderSent \/ \E q \in Processes : Mailing(q, u)'
               /\ \A q \in Processes : Holds(q, u)' /\ ~Mailing(q, u)' => Sent(u)' = 0
    <3>1. Mailing(p, t)' /\ Sent(t)' <= 1 /\ t \notin again
      BY <1>1, <1>8, <2>2, <2>4
    <3>2. \A q \in Processes : Holds(q, t)' => q = p
      BY <1>8, <2>2, <3>1
    <3>. QED
      BY <2>4, <3>1, <3>2
  <2>5. ASSUME NEW u \in Tasks \ again', NEW q \in Processes, NEW s \in Processes,
               Holds(q, u)', Holds(s, u)'
        PROVE  q = s
    BY <1>1, <1>8, <2>5 DEF ReminderInv, OnceOK
  <2>. QED
    BY <1>1, <2>3, <2>4, <2>5 DEF OnceOK
<1>13. MailsWhatIsDue'
  <2>1. \A u : Eligible(u)' <=> Eligible(u)
    BY <1>1 DEF Eligible
  <2>2. \A q \in Processes : run'[q].due = run[q].due
    BY <1>4, <1>5
  <2>. QED
    BY <1>1, <2>1, <2>2 DEF ReminderInv, MailsWhatIsDue
<1>. QED
  BY <1>7, <1>9, <1>11, <1>12, <1>13 DEF ReminderInv

(* The task is marked, and the run goes on without it. *)
LEMMA MarkKeeps == ASSUME ReminderInv, NEW p \in Processes, Mark(p) PROVE ReminderInv'
<1>0. run[p] \in Run /\ run[p].task \in run[p].due /\ RunAt(p, "mark")
  BY DEF ReminderInv, RemindersTypeOK, Mark
<1>1. PICK t \in Tasks : t = run[p].task
  BY <1>0 DEF Run
<1>2. PICK left \in SUBSET Tasks : left = run[p].due \ {t}
  BY <1>0 DEF Run
<1>3. PICK d \in Run : d = After(left)
  <2>1. [pc |-> "send", due |-> left, task |-> NoTask] \in Run
    BY <1>2 DEF Run
  <2>2. After(left) \in Run
    BY <2>1, NoRunOK DEF After
  <2>. QED
    BY <2>2
<1>4. /\ d.due = left /\ d.task = NoTask /\ d.pc \in {"idle", "send"}
      /\ d.pc = "idle" => left = {}
  BY <1>3, NoRunOK DEF After
<1>5. /\ task' = [task EXCEPT ![t].reminderSent = TRUE]
      /\ run' = [run EXCEPT ![p] = d] /\ moved' = [moved EXCEPT ![p] = @ \cap run'[p].due]
      /\ proc' = proc /\ hourly' = hourly /\ mails' = mails /\ inbox' = inbox
      /\ events' = events /\ again' = again /\ dropped' = dropped
  BY <1>1, <1>2, <1>3 DEF Mark, queues
<1>6. /\ run' \in [Processes -> Run] /\ run'[p] = d
      /\ \A q \in Processes : q # p => run'[q] = run[q]
  BY <1>5, RunPut DEF ReminderInv
<1>7. /\ task' \in [Tasks -> Task] /\ task'[t].reminderSent = TRUE
      /\ \A u \in Tasks : u # t => task'[u] = task[u]
  <2>. DEFINE e == [task[t] EXCEPT !.reminderSent = TRUE]
  <2>1. e \in Task /\ e.reminderSent = TRUE
    BY DEF ReminderInv, RemindersTypeOK, Task
  <2>2. task' = [task EXCEPT ![t] = e]
    BY <1>5
  <2>. HIDE DEF e
  <2>. QED
    BY <2>1, <2>2 DEF ReminderInv, RemindersTypeOK
<1>8. /\ moved' \in [Processes -> SUBSET Tasks] /\ moved'[p] = moved[p] \cap left
      /\ \A q \in Processes : q # p => moved'[q] = moved[q]
  BY <1>4, <1>5, <1>6 DEF ReminderInv, RemindersTypeOK
<1>9. RemindersTypeOK'
  <2>1. WorkOK /\ WorkOK'
    BY <1>0, <1>4, <1>5, <1>6 DEF ReminderInv, RemindersTypeOK, WorkOK, RunAt, Works
  <2>2. /\ proc \in [Processes -> Process] /\ hourly \in BOOLEAN /\ events \in Nat
        /\ mails \in [Tasks -> Nat] /\ inbox \in [Tasks -> Nat]
        /\ again \subseteq Tasks /\ dropped \subseteq Tasks
    BY DEF ReminderInv, RemindersTypeOK
  <2>3. WorkOK' => \A q \in Processes : /\ ~RunAt(q, "idle")' => Works(q)'
                                        /\ RunAt(q, "mark")' => run'[q].task \in run'[q].due
    BY DEF WorkOK
  <2>. QED
    BY <1>5, <1>6, <1>7, <1>8, <2>1, <2>2, <2>3 DEF RemindersTypeOK
<1>10. RunsOK'
  BY <1>4, <1>6 DEF ReminderInv, RunsOK, RunAt
<1>11. \A q \in Processes, u \in Tasks :
         /\ Holds(q, u)' => Holds(q, u) /\ (q = p => u # t)
         /\ Mailing(q, u)' <=> Mailing(q, u) /\ q # p
         /\ Mailing(p, u) => u = t
  BY <1>1, <1>2, <1>4, <1>6 DEF Holds, Mailing, RunAt
<1>12. MailedOK'
  BY <1>5, <1>11 DEF ReminderInv, MailedOK
<1>13. MarkedIsMailed'
  <2>1. inbox[t] > 0 \/ mails[t] > 0 \/ t \in dropped
    BY <1>0, <1>1 DEF ReminderInv, MailedOK, Mailing
  <2>. QED
    BY <1>5, <1>7, <2>1 DEF ReminderInv, MarkedIsMailed
<1>14. OnceOK'
  <2>1. \A u \in Tasks : Sent(u)' = Sent(u)
    BY <1>5 DEF Sent
  <2>2. ASSUME NEW u \in Tasks \ again'
        PROVE  /\ Sent(u)' <= 1
               /\ Sent(u)' > 0 => task'[u].reminderSent \/ \E q \in Processes : Mailing(q, u)'
    BY <1>5, <1>7, <1>11, <2>1, <2>2 DEF ReminderInv, OnceOK
  <2>3. ASSUME NEW u \in Tasks \ again', NEW q \in Processes, Holds(q, u)', ~Mailing(q, u)'
        PROVE  Sent(u)' = 0
    <3>1. Holds(q, u) /\ ~Mailing(q, u)
      BY <1>11, <2>3
    <3>. QED
      BY <1>5, <2>1, <3>1 DEF ReminderInv, OnceOK
  <2>4. ASSUME NEW u \in Tasks \ again', NEW q \in Processes, NEW s \in Processes,
               Holds(q, u)', Holds(s, u)'
        PROVE  q = s
    BY <1>5, <1>11, <2>4 DEF ReminderInv, OnceOK
  <2>. QED
    BY <2>2, <2>3, <2>4 DEF OnceOK
<1>15. MailsWhatIsDue'
  <2>1. ASSUME NEW q \in Processes, NEW u \in run'[q].due \ moved'[q], u \notin again
        PROVE  Eligible(u)'
    <3>1. u \in Tasks /\ Holds(q, u)'
      BY <1>6, <2>1 DEF Run, Holds
    <3>2. Holds(q, u) /\ (q = p => u # t) /\ u \notin moved[q]
      BY <1>4, <1>6, <1>8, <1>11, <2>1, <3>1
    <3>3. u # t
      <4>1. Holds(p, t)
        BY <1>0, <1>1 DEF Holds
      <4>. QED
        BY <2>1, <3>1, <3>2, <4>1 DEF ReminderInv, OnceOK
    <3>4. Eligible(u)
      BY <2>1, <3>2 DEF ReminderInv, MailsWhatIsDue, Holds
    <3>. QED
      BY <1>7, <3>1, <3>3, <3>4 DEF Eligible
  <2>. QED
    BY <1>5, <2>1 DEF MailsWhatIsDue
<1>. QED
  BY <1>9, <1>10, <1>12, <1>13, <1>14, <1>15 DEF ReminderInv

-----------------------------------------------------------------------------
(* A run ends where it stands, and the task it was about is excused. *)
Stops(p) ==
    /\ run' = [run EXCEPT ![p] = NoRun] /\ moved' = [moved EXCEPT ![p] = {}]
    /\ task' = task /\ mails' = mails /\ dropped' = dropped
    /\ inbox' \in [Tasks -> Nat] /\ again' \subseteq Tasks
    /\ again \cup ({run[p].task} \ {NoTask}) \subseteq again'
    /\ \A t \in Tasks : inbox[t] <= inbox'[t] /\ (t \notin again' => inbox'[t] = inbox[t])

LEMMA StopKeeps ==
    ASSUME ReminderInv, NEW p \in Processes, Stops(p)
    PROVE  /\ run' \in [Processes -> Run] /\ RunAt(p, "idle")'
           /\ \A q \in Processes : q # p => run'[q] = run[q]
           /\ moved' \in [Processes -> SUBSET Tasks]
           /\ RunsOK' /\ MailedOK' /\ MarkedIsMailed' /\ OnceOK' /\ MailsWhatIsDue'
<1>1. /\ run' \in [Processes -> Run] /\ run'[p] = NoRun
      /\ \A q \in Processes : q # p => run'[q] = run[q]
  BY NoRunOK, RunPut DEF ReminderInv, Stops
<1>2. /\ moved' \in [Processes -> SUBSET Tasks]
      /\ \A q \in Processes : q # p => moved'[q] = moved[q]
  BY DEF ReminderInv, RemindersTypeOK, Stops
<1>3. RunAt(p, "idle")' /\ RunsOK'
  BY <1>1, NoRunOK DEF ReminderInv, RunsOK, RunAt
<1>4. \A q \in Processes, u \in Tasks :
        /\ Holds(q, u)' <=> Holds(q, u) /\ q # p
        /\ Mailing(q, u)' <=> Mailing(q, u) /\ q # p
        /\ Mailing(p, u) => u \in again'
  BY <1>1, NoRunOK, RemindersAssumption DEF Holds, Mailing, RunAt, Stops
<1>5. \A u \in Tasks : /\ inbox[u] > 0 => inbox'[u] > 0
                       /\ mails'[u] = mails[u] /\ task'[u] = task[u]
                       /\ u \in dropped => u \in dropped'
                       /\ u \notin again' => u \notin again /\ Sent(u)' = Sent(u)
  BY DEF ReminderInv, RemindersTypeOK, Stops, Sent
<1>6. MailedOK' /\ MarkedIsMailed'
  BY <1>4, <1>5 DEF ReminderInv, MailedOK, MarkedIsMailed
<1>7. OnceOK'
  <2>1. ASSUME NEW u \in Tasks \ again'
        PROVE  /\ Sent(u)' <= 1
               /\ Sent(u)' > 0 => task'[u].reminderSent \/ \E q \in Processes : Mailing(q, u)'
               /\ \A q \in Processes : Holds(q, u)' /\ ~Mailing(q, u)' => Sent(u)' = 0
               /\ \A q, s \in Processes : Holds(q, u)' /\ Holds(s, u)' => q = s
    BY <1>4, <1>5, <2>1 DEF ReminderInv, OnceOK
  <2>. QED
    BY <2>1 DEF OnceOK
<1>8. MailsWhatIsDue'
  <2>1. ASSUME NEW q \in Processes, NEW u \in run'[q].due \ moved'[q], u \notin again'
        PROVE  Eligible(u)'
    <3>1. q # p /\ u \in run[q].due \ moved[q] /\ u \notin again
      BY <1>1, <1>2, <2>1, NoRunOK DEF Stops
    <3>2. Eligible(u)
      BY <3>1 DEF ReminderInv, MailsWhatIsDue
    <3>. QED
      BY <3>2 DEF Eligible, Stops
  <2>. QED
    BY <2>1 DEF MailsWhatIsDue
<1>. QED
  BY <1>1, <1>2, <1>3, <1>6, <1>7, <1>8

LEMMA RunThrowsKeeps ==
    ASSUME ReminderInv, NEW p \in Processes, RunThrows(p) PROVE ReminderInv'
<1>1. /\ run' = [run EXCEPT ![p] = NoRun] /\ moved' = [moved EXCEPT ![p] = {}]
      /\ again' = again \cup ({run[p].task} \ {NoTask})
      /\ task' = task /\ proc' = proc /\ hourly' = hourly /\ mails' = mails /\ inbox' = inbox
      /\ dropped' = dropped /\ events' = events + 1
  BY DEF RunThrows, Counted, queues
<1>2. again' \subseteq Tasks
  BY <1>1 DEF ReminderInv, RemindersTypeOK, Run
<1>3. Stops(p)
  BY <1>1, <1>2 DEF Stops, ReminderInv, RemindersTypeOK
<1>4. /\ run' \in [Processes -> Run] /\ RunAt(p, "idle")' /\ moved' \in [Processes -> SUBSET Tasks]
      /\ \A q \in Processes : q # p => run'[q] = run[q]
      /\ RunsOK' /\ MailedOK' /\ MarkedIsMailed' /\ OnceOK' /\ MailsWhatIsDue'
  BY <1>3, StopKeeps
<1>5. RemindersTypeOK'
  BY <1>1, <1>2, <1>4 DEF ReminderInv, RemindersTypeOK, RunAt, Works
<1>. QED
  BY <1>4, <1>5 DEF ReminderInv

LEMMA DieKeeps == ASSUME ReminderInv, NEW p \in Processes, Die(p) PROVE ReminderInv'
<1>1. PICK sent \in {{}} \cup {{t} : t \in {u \in Tasks : Works(p) /\ mails[u] > 0}} :
        /\ inbox' = [t \in Tasks |-> inbox[t] + (IF t \in sent THEN 1 ELSE 0)]
        /\ again' = again \cup ({run[p].task} \ {NoTask}) \cup sent
  BY DEF Die
<1>2. /\ run' = [run EXCEPT ![p] = NoRun] /\ moved' = [moved EXCEPT ![p] = {}]
      /\ task' = task /\ mails' = mails /\ dropped' = dropped /\ events' = events + 1
      /\ proc' = [proc EXCEPT ![p] = [up |-> FALSE, redis |-> FALSE]]
      /\ hourly' = (hourly \/ ~RunAt(p, "idle"))
  BY DEF Die, Counted
<1>3. sent \subseteq Tasks
  OBVIOUS
<1>4. again' \subseteq Tasks
  BY <1>1, <1>3 DEF ReminderInv, RemindersTypeOK, Run
<1>5. \A t \in Tasks : inbox[t] \in Nat
  BY DEF ReminderInv, RemindersTypeOK
<1>6. /\ inbox' \in [Tasks -> Nat]
      /\ \A t \in Tasks : inbox[t] <= inbox'[t] /\ (t \notin again' => inbox'[t] = inbox[t])
  BY <1>1, <1>5
<1>7. Stops(p)
  BY <1>1, <1>2, <1>4, <1>6 DEF Stops
<1>8. /\ run' \in [Processes -> Run] /\ RunAt(p, "idle")' /\ moved' \in [Processes -> SUBSET Tasks]
      /\ \A q \in Processes : q # p => run'[q] = run[q]
      /\ RunsOK' /\ MailedOK' /\ MarkedIsMailed' /\ OnceOK' /\ MailsWhatIsDue'
  BY <1>7, StopKeeps
<1>9. hourly' \in BOOLEAN
  BY <1>2, Zenon
<1>10. /\ proc' \in [Processes -> Process]
       /\ \A q \in Processes : q # p => proc'[q] = proc[q]
  BY <1>2 DEF ReminderInv, RemindersTypeOK, Process
<1>11. RemindersTypeOK'
  BY <1>2, <1>4, <1>6, <1>8, <1>9, <1>10 DEF ReminderInv, RemindersTypeOK, RunAt, Works
<1>. QED
  BY <1>8, <1>11 DEF ReminderInv

-----------------------------------------------------------------------------
(* A mail leaves the queue, for the inbox or for nothing. *)
LEMMA DeliverKeeps ==
    ASSUME ReminderInv, NEW p \in Processes, NEW t \in Tasks, Deliver(p, t) PROVE ReminderInv'
<1>1. /\ mails[t] > 0 /\ mails' = [mails EXCEPT ![t] = @ - 1] /\ inbox' = [inbox EXCEPT ![t] = @ + 1]
      /\ task' = task /\ proc' = proc /\ hourly' = hourly /\ run' = run /\ events' = events
      /\ moved' = moved /\ again' = again /\ dropped' = dropped
  BY DEF Deliver, excuses
<1>2. /\ mails' \in [Tasks -> Nat] /\ inbox' \in [Tasks -> Nat]
      /\ \A u \in Tasks : /\ Sent(u)' = Sent(u)
                          /\ inbox[u] > 0 \/ mails[u] > 0 => inbox'[u] > 0 \/ mails'[u] > 0
  <2>1. \A u \in Tasks : inbox[u] \in Nat /\ mails[u] \in Nat
    BY DEF ReminderInv, RemindersTypeOK
  <2>2. mails \in [Tasks -> Nat] /\ inbox \in [Tasks -> Nat]
    BY DEF ReminderInv, RemindersTypeOK
  <2>. QED
    BY <1>1, <2>1, <2>2 DEF Sent
<1>3. RemindersTypeOK' /\ RunsOK'
  BY <1>1, <1>2 DEF ReminderInv, RemindersTypeOK, RunsOK, RunAt, Works
<1>4. MailedOK' /\ MarkedIsMailed'
  BY <1>1, <1>2 DEF ReminderInv, MailedOK, MarkedIsMailed, Mailing, RunAt
<1>5. OnceOK'
  BY <1>1, <1>2 DEF ReminderInv, OnceOK, Mailing, Holds, RunAt
<1>6. MailsWhatIsDue'
  BY <1>1 DEF ReminderInv, MailsWhatIsDue, Eligible
<1>. QED
  BY <1>3, <1>4, <1>5, <1>6 DEF ReminderInv

LEMMA SmtpThrowsKeeps ==
    ASSUME ReminderInv, NEW p \in Processes, NEW t \in Tasks, SmtpThrows(p, t) PROVE ReminderInv'
<1>1. /\ mails[t] > 0 /\ mails' = [mails EXCEPT ![t] = @ - 1] /\ dropped' = dropped \cup {t}
      /\ task' = task /\ proc' = proc /\ hourly' = hourly /\ run' = run /\ inbox' = inbox
      /\ events' = events + 1 /\ moved' = moved /\ again' = again
  BY DEF SmtpThrows, Counted
<1>2. /\ mails' \in [Tasks -> Nat] /\ mails'[t] = mails[t] - 1 /\ mails[t] \in Nat
      /\ \A u \in Tasks : u # t => mails'[u] = mails[u]
  <2>1. mails \in [Tasks -> Nat] /\ mails[t] - 1 \in Nat
    BY <1>1 DEF ReminderInv, RemindersTypeOK
  <2>. QED
    BY <1>1, <2>1
<1>3. \A u \in Tasks : /\ Sent(u) \in Nat /\ Sent(u)' \in Nat /\ Sent(u)' <= Sent(u)
                       /\ inbox[u] > 0 \/ mails[u] > 0 \/ u \in dropped
                            => inbox'[u] > 0 \/ mails'[u] > 0 \/ u \in dropped'
  <2>1. \A u \in Tasks : inbox[u] \in Nat /\ mails[u] \in Nat
    BY DEF ReminderInv, RemindersTypeOK
  <2>. QED
    BY <1>1, <1>2, <2>1 DEF Sent
<1>4. RemindersTypeOK' /\ RunsOK'
  BY <1>1, <1>2 DEF ReminderInv, RemindersTypeOK, RunsOK, RunAt, Works
<1>5. MailedOK' /\ MarkedIsMailed'
  BY <1>1, <1>3 DEF ReminderInv, MailedOK, MarkedIsMailed, Mailing, RunAt
<1>6. OnceOK'
  <2>1. ASSUME NEW u \in Tasks \ again'
        PROVE  /\ Sent(u)' <= 1
               /\ Sent(u)' > 0 => task'[u].reminderSent \/ \E q \in Processes : Mailing(q, u)'
               /\ \A q \in Processes : Holds(q, u)' /\ ~Mailing(q, u)' => Sent(u)' = 0
               /\ \A q, s \in Processes : Holds(q, u)' /\ Holds(s, u)' => q = s
    <3>1. \A q \in Processes : (Holds(q, u)' <=> Holds(q, u)) /\ (Mailing(q, u)' <=> Mailing(q, u))
      BY <1>1 DEF Mailing, Holds, RunAt
    <3>2. Sent(u) \in Nat /\ Sent(u)' \in Nat /\ Sent(u)' <= Sent(u) /\ u \in Tasks \ again
      BY <1>1, <1>3
    <3>. QED
      BY <1>1, <3>1, <3>2 DEF ReminderInv, OnceOK
  <2>. QED
    BY <2>1 DEF OnceOK
<1>7. MailsWhatIsDue'
  BY <1>1 DEF ReminderInv, MailsWhatIsDue, Eligible
<1>. QED
  BY <1>4, <1>5, <1>6, <1>7 DEF ReminderInv

-----------------------------------------------------------------------------
(* The owner and the clock change a task, and never its mark. *)
LEMMA TaskKeeps ==
    ASSUME ReminderInv, NEW t \in Tasks, NEW d \in Task, task' = [task EXCEPT ![t] = d],
           d.reminderSent = task[t].reminderSent, events' \in Nat,
           moved' = [p \in Processes |-> IF t \in run[p].due THEN moved[p] \cup {t} ELSE moved[p]],
           proc' = proc, hourly' = hourly, mails' = mails, inbox' = inbox, run' = run,
           again' = again, dropped' = dropped
    PROVE  ReminderInv'
<1>1. /\ task' \in [Tasks -> Task] /\ \A u \in Tasks : task'[u].reminderSent = task[u].reminderSent
      /\ \A u \in Tasks : u # t => task'[u] = task[u]
  BY DEF ReminderInv, RemindersTypeOK
<1>2. \A p \in Processes : moved[p] \subseteq Tasks
  BY DEF ReminderInv, RemindersTypeOK
<1>3. moved' \in [Processes -> SUBSET Tasks]
  BY <1>2
<1>4. RemindersTypeOK' /\ RunsOK'
  BY <1>1, <1>3 DEF ReminderInv, RemindersTypeOK, RunsOK, RunAt, Works
<1>5. MailedOK' /\ MarkedIsMailed'
  BY <1>1 DEF ReminderInv, MailedOK, MarkedIsMailed, Mailing, RunAt
<1>6. OnceOK'
  BY <1>1 DEF ReminderInv, OnceOK, Mailing, Holds, RunAt, Sent
<1>7. MailsWhatIsDue'
  <2>1. ASSUME NEW q \in Processes, NEW u \in run'[q].due \ moved'[q], u \notin again
        PROVE  Eligible(u)'
    <3>1. u # t /\ u \in run[q].due \ moved[q] /\ u \in Tasks
      BY <2>1 DEF ReminderInv, RemindersTypeOK, Run
    <3>2. Eligible(u)
      BY <2>1, <3>1 DEF ReminderInv, MailsWhatIsDue
    <3>. QED
      BY <1>1, <3>1, <3>2 DEF Eligible
  <2>. QED
    BY <2>1 DEF MailsWhatIsDue
<1>. QED
  BY <1>4, <1>5, <1>6, <1>7 DEF ReminderInv

LEMMA EditKeeps == ASSUME ReminderInv, NEW t \in Tasks, Edit(t) PROVE ReminderInv'
<1>1. /\ moved' = [p \in Processes |-> IF t \in run[p].due THEN moved[p] \cup {t} ELSE moved[p]]
      /\ proc' = proc /\ hourly' = hourly /\ mails' = mails /\ inbox' = inbox /\ run' = run
      /\ again' = again /\ dropped' = dropped /\ events' \in Nat
  BY DEF Edit, Counted, queues, ReminderInv, RemindersTypeOK
<1>2. task[t] \in Task
  BY DEF ReminderInv, RemindersTypeOK
<1>3. CASE task' = [task EXCEPT ![t].open = ~@]
  <2>. DEFINE b == ~task[t].open
              d == [task[t] EXCEPT !.open = b]
  <2>1. b \in BOOLEAN
    BY Zenon
  <2>2. task' = [task EXCEPT ![t] = d]
    BY <1>3
  <2>. HIDE DEF b
  <2>3. d \in Task /\ d.reminderSent = task[t].reminderSent
    BY <1>2, <2>1 DEF Task
  <2>. HIDE DEF d
  <2>. QED
    BY <1>1, <2>2, <2>3, TaskKeeps
<1>4. CASE task' = [task EXCEPT ![t].due = "later"]
  <2>. DEFINE d == [task[t] EXCEPT !.due = "later"]
  <2>1. d \in Task /\ d.reminderSent = task[t].reminderSent /\ task' = [task EXCEPT ![t] = d]
    BY <1>2, <1>4 DEF Task
  <2>. HIDE DEF d
  <2>. QED
    BY <1>1, <2>1, TaskKeeps
<1>5. CASE task' = [task EXCEPT ![t].owner = FALSE]
  <2>. DEFINE d == [task[t] EXCEPT !.owner = FALSE]
  <2>1. d \in Task /\ d.reminderSent = task[t].reminderSent /\ task' = [task EXCEPT ![t] = d]
    BY <1>2, <1>5 DEF Task
  <2>. HIDE DEF d
  <2>. QED
    BY <1>1, <2>1, TaskKeeps
<1>. QED
  BY <1>3, <1>4, <1>5 DEF Edit

LEMMA PassKeeps == ASSUME ReminderInv, NEW t \in Tasks, Pass(t) PROVE ReminderInv'
<1>1. /\ moved' = [p \in Processes |-> IF t \in run[p].due THEN moved[p] \cup {t} ELSE moved[p]]
      /\ proc' = proc /\ hourly' = hourly /\ mails' = mails /\ inbox' = inbox /\ run' = run
      /\ again' = again /\ dropped' = dropped /\ events' \in Nat
  BY DEF Pass, queues, ReminderInv, RemindersTypeOK
<1>2. task[t] \in Task
  BY DEF ReminderInv, RemindersTypeOK
<1>. DEFINE b == IF task[t].due = "later" THEN "soon" ELSE "past"
            d == [task[t] EXCEPT !.due = b]
<1>3. b \in {"soon", "past"} /\ task' = [task EXCEPT ![t] = d]
  BY DEF Pass
<1>. HIDE DEF b
<1>4. d \in Task /\ d.reminderSent = task[t].reminderSent
  BY <1>2, <1>3 DEF Task
<1>. HIDE DEF d
<1>. QED
  BY <1>1, <1>3, <1>4, TaskKeeps

-----------------------------------------------------------------------------
(* Cron, a boot, and a stutter *)
LEMMA RestKeeps ==
    ASSUME ReminderInv, proc' \in [Processes -> Process], hourly' \in BOOLEAN, events' \in Nat,
           \A p \in Processes : Works(p) => Works(p)',
           task' = task, run' = run, mails' = mails, inbox' = inbox,
           moved' = moved, again' = again, dropped' = dropped
    PROVE  ReminderInv'
<1>1. RemindersTypeOK'
  BY DEF ReminderInv, RemindersTypeOK, RunAt
<1>2. RunsOK' /\ MailedOK' /\ MarkedIsMailed' /\ OnceOK' /\ MailsWhatIsDue'
  BY DEF ReminderInv, RunsOK, MailedOK, MarkedIsMailed, OnceOK, MailsWhatIsDue, Mailing, Holds, Sent,
         Eligible, RunAt
<1>. QED
  BY <1>1, <1>2 DEF ReminderInv

LEMMA BootKeeps == ASSUME ReminderInv, NEW p \in Processes, Boot(p) PROVE ReminderInv'
<1>1. PICK redis \in BOOLEAN : proc' = [proc EXCEPT ![p] = [up |-> TRUE, redis |-> redis]]
  BY DEF Boot
<1>2. /\ task' = task /\ run' = run /\ mails' = mails /\ inbox' = inbox /\ hourly' = hourly
      /\ moved' = moved /\ again' = again /\ dropped' = dropped /\ ~proc[p].up
  BY DEF Boot, queues, excuses
<1>3. events' \in Nat
  BY DEF Boot, Counted, ReminderInv, RemindersTypeOK
<1>4. proc' \in [Processes -> Process] /\ \A q \in Processes : q # p => proc'[q] = proc[q]
  BY <1>1 DEF ReminderInv, RemindersTypeOK, Process
<1>5. \A q \in Processes : Works(q) => Works(q)'
  BY <1>2, <1>4 DEF Works
<1>. QED
  BY <1>2, <1>3, <1>4, <1>5, RestKeeps DEF ReminderInv, RemindersTypeOK

LEMMA HourKeeps == ASSUME ReminderInv, Hour \/ UNCHANGED reminderVars PROVE ReminderInv'
<1>1. /\ task' = task /\ proc' = proc /\ run' = run /\ mails' = mails /\ inbox' = inbox
      /\ events' = events /\ moved' = moved /\ again' = again /\ dropped' = dropped
      /\ hourly' \in BOOLEAN
  BY DEF Hour, reminderVars, excuses, ReminderInv, RemindersTypeOK
<1>. QED
  BY <1>1, RestKeeps DEF Works, ReminderInv, RemindersTypeOK

LEMMA StepReminders ==
    ReminderInv /\ [RemindersNext]_reminderVars => ReminderInv'
<1>. SUFFICES ASSUME ReminderInv, [RemindersNext]_reminderVars PROVE ReminderInv'
  OBVIOUS
<1>1. CASE Hour \/ UNCHANGED reminderVars
  BY <1>1, HourKeeps
<1>2. ASSUME NEW p \in Processes, Work(p) \/ Die(p) \/ RunThrows(p) PROVE ReminderInv'
  BY <1>2, BootKeeps, FindKeeps, MarkKeeps, SendKeeps, DieKeeps, RunThrowsKeeps DEF Work
<1>3. ASSUME NEW p \in Processes, NEW t \in Tasks, Deliver(p, t) \/ SmtpThrows(p, t)
      PROVE  ReminderInv'
  BY <1>3, DeliverKeeps, SmtpThrowsKeeps
<1>4. ASSUME NEW t \in Tasks, Edit(t) \/ Pass(t) PROVE ReminderInv'
  BY <1>4, EditKeeps, PassKeeps
<1>. QED
  BY <1>1, <1>2, <1>3, <1>4 DEF RemindersNext

LEMMA RemindersInvariance == RemindersSpec => []ReminderInv
BY InitReminders, StepReminders, PTL DEF RemindersSpec

(* Tasks, queues and runs keep their shape, and only a process that reached  *)
(* Redis works, for any number of tasks, processes and events.               *)
THEOREM RemindersTypeCorrect == RemindersSpec => []RemindersTypeOK
<1>1. ReminderInv => RemindersTypeOK
  BY DEF ReminderInv
<1>. QED
  BY <1>1, RemindersInvariance, PTL

(* checkReminders: no task is marked without a mail, none is mailed twice    *)
(* but for the excuses, and a run mails only what is due or has changed      *)
(* under it, for any number of tasks, processes, runs and faults.            *)
THEOREM RemindersAreSafe == RemindersSpec => []ReminderSafety
<1>1. ReminderInv => ReminderSafety
  <2>. SUFFICES ASSUME ReminderInv PROVE OneReminder
    BY DEF ReminderInv, ReminderSafety
  <2>1. \A t \in Tasks \ again : inbox[t] <= 1
    BY MailsCount DEF ReminderInv, OnceOK, Sent, RemindersTypeOK
  <2>. QED
    BY <2>1 DEF OneReminder
<1>. QED
  BY <1>1, RemindersInvariance, PTL
=============================================================================
