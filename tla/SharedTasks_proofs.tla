------------------------ MODULE SharedTasks_proofs ------------------------
(* Proofs about shared tasks and the cached statistics, for any number of    *)
(* members and requests.                                                     *)
EXTENDS SharedTasks, FiniteSetTheorems, WellFoundedInduction, TLAPS

(* A request between the two reads of loadTaskWithAccess is a member's; what *)
(* it read of the task is still so, or it is late.                           *)
LoadOK ==
    \A r \in Requests : At(r, "share") =>
        req[r].who \in Members /\ (task = "live" \/ req[r].late)

(* A request that names a member names one.                                  *)
NamesOK ==
    \A r \in Requests : req[r].op \in {"grant", "revoke"} => req[r].to \in Members

IInv == TypeOK /\ LoadOK /\ NamesOK /\ AccessIsCurrent /\ AcknowledgedWritesShow

LEMMA IdleOK == Idle \in Request /\ Idle.pc = "idle" /\ Idle.op = "idle" /\ Idle.val = 0
BY DEF Idle, Request, Ops, Users, Role

LEMMA InitInv == Init => IInv
<1> SUFFICES ASSUME Init PROVE IInv
  OBVIOUS
<1>1. TypeOK
  <2>1. /\ share \in [Members -> Share] /\ comments \in Comment /\ cache \in Cache
        /\ trail \in Trail /\ lost \in Trail
    <3>1. share \in [Members -> Share]
      BY DEF Init, Share, Role
    <3>2. comments \in Comment /\ cache \in Cache
      BY DEF Init, Comment, Cache
    <3>3. trail \in Trail /\ lost \in Trail
      BY DEF Init, Trail
    <3>. QED
      BY <3>1, <3>2, <3>3
  <2>2. /\ req \in [Requests -> Request]
        /\ \A r \in Requests : req[r].val = 0 /\ req[r].pc = "idle"
    BY IdleOK DEF Init
  <2>3. /\ task = "live" /\ ver = 0 /\ failures = 0 /\ acked = 0 /\ excused = FALSE /\ cache.ver = 0
    BY DEF Init
  <2>4. /\ ver \in Nat /\ failures \in Nat /\ acked \in Nat /\ cache.ver <= ver /\ acked <= ver
        /\ \A r \in Requests : req[r].val <= ver
    BY <2>2, <2>3
  <2>5. excused \in BOOLEAN
    BY <2>3, Zenon
  <2>6. \A r \in Requests : ~At(r, "log")
    BY <2>2 DEF At
  <2>. QED
    BY <2>1, <2>2, <2>3, <2>4, <2>5, <2>6 DEF TypeOK
<1>2. LoadOK /\ NamesOK /\ AccessIsCurrent
  BY IdleOK DEF Init, LoadOK, NamesOK, AccessIsCurrent, At
<1>3. AcknowledgedWritesShow
  BY DEF Init, AcknowledgedWritesShow
<1>. QED
  BY <1>1, <1>2, <1>3 DEF IInv

-----------------------------------------------------------------------------
(* What a step does to the requests *)
LEMMA DoneEffect ==
    ASSUME TypeOK, NEW r \in Requests, Done(r)
    PROVE  /\ req' \in [Requests -> Request] /\ req'[r] = Idle
           /\ \A q \in Requests : q # r => req'[q] = req[q]
BY IdleOK DEF TypeOK, Done

LEMMA GotoEffect ==
    ASSUME TypeOK, NEW r \in Requests, NEW pc \in {"share", "act", "log", "del"}, Goto(r, pc)
    PROVE  /\ req' \in [Requests -> Request]
           /\ req'[r].pc = pc /\ req'[r].op = req[r].op /\ req'[r].who = req[r].who
           /\ req'[r].to = req[r].to /\ req'[r].val = req[r].val /\ req'[r].late = req[r].late
           /\ req'[r].role = req[r].role
           /\ \A q \in Requests : q # r => req'[q] = req[q]
<1> DEFINE d == [req[r] EXCEPT !.pc = pc]
<1>1. req[r] \in Request /\ req \in [Requests -> Request]
  BY DEF TypeOK
<1>2. /\ d \in Request /\ d.pc = pc /\ d.op = req[r].op /\ d.who = req[r].who
      /\ d.to = req[r].to /\ d.val = req[r].val /\ d.late = req[r].late
      /\ d.role = req[r].role
  BY <1>1 DEF Request
<1>3. req' = [req EXCEPT ![r] = d]
  BY DEF Goto
<1> HIDE DEF d
<1>. QED
  BY <1>1, <1>2, <1>3

(* marking a request late *)
LEMMA LateEffect ==
    ASSUME NEW m \in Request, NEW q, NEW hit
    PROVE  LET d == [m EXCEPT !.late = @ \/ q \in hit] IN
           /\ d \in Request /\ d.pc = m.pc /\ d.op = m.op /\ d.who = m.who
           /\ d.to = m.to /\ d.role = m.role /\ d.val = m.val /\ d.late = (m.late \/ q \in hit)
BY DEF Request

(* granting, and counting *)
LEMMA GivenEffect ==
    ASSUME NEW s \in Share, NEW role \in Role
    PROVE  [s EXCEPT !.role = role, !.n = @ + 1] \in Share
<1>1. s.n + 1 \in Nat
  BY DEF Share
<1>. QED
  BY <1>1 DEF Share

LEMMA CountEffect ==
    ASSUME NEW t \in Trail, NEW k \in Kinds
    PROVE  [t EXCEPT ![k] = @ + 1] \in Trail
<1>1. t \in [Kinds -> Nat] /\ t[k] + 1 \in Nat
  BY DEF Trail
<1>. QED
  BY <1>1 DEF Trail

(* A step that leaves a request alone, and takes no right away.              *)
LEMMA OthersStay ==
    ASSUME IInv, NEW q \in Requests, req'[q] = req[q],
           task = "live" => task' = "live",
           \A m \in Members : share[m].role # "none" => share'[m].role = share[m].role,
           \A m \in Members : share[m].role \in Role
    PROVE  /\ At(q, "share")' => req'[q].who \in Members /\ (task' = "live" \/ req'[q].late)
           /\ req'[q].op \in {"grant", "revoke"} => req'[q].to \in Members
           /\ At(q, "act")' => Allowed(q)' \/ req'[q].late
<1> USE DEF IInv
<1>1. req[q] \in Request /\ req'[q] = req[q]
  BY DEF TypeOK
<1>2. At(q, "share")' => req'[q].who \in Members /\ (task' = "live" \/ req'[q].late)
  BY <1>1 DEF LoadOK, At
<1>3. req'[q].op \in {"grant", "revoke"} => req'[q].to \in Members
  BY <1>1 DEF NamesOK, At
<1>4. ASSUME req'[q].pc = "act", ~req'[q].late PROVE Allowed(q)'
  <2>1. task = "live" /\ RankOf(req[q].who) >= MinRank(req[q].op)
    BY <1>1, <1>4 DEF AccessIsCurrent, At, Allowed
  <2>2. req[q].who \in Members \cup {Owner} /\ req[q].op \in Ops
    BY <1>1 DEF Request, Users
  <2>3. CASE req[q].who = Owner
    BY <1>1, <2>1, <2>3 DEF Allowed, RankOf
  <2>4. CASE req[q].who # Owner
    <3>1. MinRank(req[q].op) \in {1, 2, 3}
      BY DEF MinRank
    <3>2. share[req[q].who].role # "none"
      BY <2>1, <2>2, <2>4, <3>1 DEF RankOf, Rank
    <3>. QED
      BY <1>1, <2>1, <2>2, <2>4, <3>2 DEF Allowed, RankOf
  <2>. QED
    BY <2>3, <2>4
<1>. QED
  BY <1>2, <1>3, <1>4 DEF At

-----------------------------------------------------------------------------
(* What TypeOK and the accesses say of the requests *)
ReqOK == /\ req \in [Requests -> Request]
         /\ \A r \in Requests : /\ req[r].val <= ver
                                /\ At(r, "log") => req[r].op \in DOMAIN KindOf
RestOK ==
    /\ task \in {"live", "trash", "gone"}
    /\ share \in [Members -> Share] /\ comments \in Comment /\ trail \in Trail
    /\ ver \in Nat /\ cache \in Cache /\ cache.ver <= ver /\ acked <= ver
    /\ failures \in Nat /\ lost \in Trail /\ acked \in Nat /\ excused \in BOOLEAN
ReqInv == ReqOK /\ LoadOK /\ NamesOK /\ AccessIsCurrent

LEMMA Parts ==
    /\ IInv <=> RestOK /\ ReqInv /\ AcknowledgedWritesShow
    /\ IInv' <=> RestOK' /\ ReqInv' /\ AcknowledgedWritesShow'
<1>1. TypeOK <=> RestOK /\ ReqOK
  BY DEF TypeOK, RestOK, ReqOK
<1>2. TypeOK' <=> RestOK' /\ ReqOK'
  BY DEF TypeOK, RestOK, ReqOK
<1>. QED
  BY <1>1, <1>2 DEF IInv, ReqInv

(* The board and the shares take no right away. *)
Mild ==
    /\ task = "live" => task' = "live"
    /\ \A m \in Members : share[m].role # "none" => share'[m].role = share[m].role
    /\ ver \in Nat /\ ver' \in Nat /\ ver <= ver'

(* It is enough to look at the request that moves. *)
LEMMA OneMoves ==
    ASSUME IInv, Mild, NEW r \in Requests,
           req' \in [Requests -> Request],
           \A q \in Requests : q # r => req'[q] = req[q],
           req'[r].val <= ver',
           req'[r].pc = "log" => req'[r].op \in DOMAIN KindOf,
           req'[r].pc = "share" => req'[r].who \in Members /\ (task' = "live" \/ req'[r].late),
           req'[r].op \in {"grant", "revoke"} => req'[r].to \in Members,
           req'[r].pc = "act" => Allowed(r)' \/ req'[r].late
    PROVE  ReqInv'
<1>1. \A m \in Members : share[m].role \in Role
  BY DEF IInv, TypeOK, Share
<1>2. ASSUME NEW q \in Requests, q # r
      PROVE  /\ At(q, "share")' => req'[q].who \in Members /\ (task' = "live" \/ req'[q].late)
             /\ req'[q].op \in {"grant", "revoke"} => req'[q].to \in Members
             /\ At(q, "act")' => Allowed(q)' \/ req'[q].late
  BY <1>1, <1>2, OthersStay DEF Mild
<1>3. ASSUME NEW q \in Requests, q # r
      PROVE  req'[q].val <= ver' /\ (At(q, "log")' => req'[q].op \in DOMAIN KindOf)
  <2>1. req[q].val \in Nat /\ req[q].val <= ver /\ req'[q] = req[q]
    BY <1>3 DEF IInv, TypeOK, Request
  <2>2. At(q, "log") => req[q].op \in DOMAIN KindOf
    BY DEF IInv, TypeOK
  <2>. QED
    BY <2>1, <2>2 DEF Mild, At
<1>4. ReqOK'
  BY <1>3 DEF ReqOK, At
<1>5. LoadOK' /\ NamesOK' /\ AccessIsCurrent'
  BY <1>2 DEF LoadOK, NamesOK, AccessIsCurrent, At
<1>. QED
  BY <1>4, <1>5 DEF ReqInv

LEMMA DoneKeeps == ASSUME IInv, Mild, NEW r \in Requests, Done(r) PROVE ReqInv'
<1>1. /\ req' \in [Requests -> Request] /\ req'[r] = Idle
      /\ \A q \in Requests : q # r => req'[q] = req[q]
  BY DoneEffect DEF IInv
<1>. QED
  BY <1>1, IdleOK, OneMoves DEF Mild

LEMMA LogKeeps ==
    ASSUME IInv, Mild, NEW r \in Requests, Goto(r, "log"), req[r].op \in DOMAIN KindOf
    PROVE  ReqInv'
<1>1. /\ req' \in [Requests -> Request]
      /\ req'[r].pc = "log" /\ req'[r].op = req[r].op /\ req'[r].val = req[r].val
      /\ req'[r].to = req[r].to
      /\ \A q \in Requests : q # r => req'[q] = req[q]
  BY GotoEffect DEF IInv
<1>2. req[r].val \in Nat /\ req[r].val <= ver
  BY DEF IInv, TypeOK, Request
<1>3. req'[r].val <= ver'
  BY <1>1, <1>2 DEF Mild
<1>4. req[r].op \in {"grant", "revoke"} => req[r].to \in Members
  BY DEF IInv, NamesOK
<1>. QED
  BY <1>1, <1>3, <1>4, OneMoves

-----------------------------------------------------------------------------
(* The access check *)
LEMMA LoadTaskKeeps ==
    ASSUME IInv, NEW r \in Requests, NEW u \in Users, NEW q \in Request, LoadTask(r, u, q),
           q.val = 0, q.op \in {"grant", "revoke"} => q.to \in Members
    PROVE  IInv'
<1> DEFINE pc == IF u = Owner THEN "act" ELSE "share"
           d == [q EXCEPT !.who = u, !.pc = pc]
<1>1. d \in Request /\ d.pc = pc /\ d.who = u /\ d.op = q.op /\ d.to = q.to /\ d.val = 0 /\ d.late = q.late
  BY DEF Request
<1>2. req' = [req EXCEPT ![r] = d] /\ task = "live" /\ (u = Owner \/ MinRank(q.op) < 3)
  BY DEF LoadTask
<1>3. /\ task' = task /\ ver' = ver /\ share' = share /\ comments' = comments /\ trail' = trail
      /\ cache' = cache /\ failures' = failures /\ lost' = lost /\ acked' = acked /\ excused' = excused
  BY DEF LoadTask, board, collab, history
<1> HIDE DEF d
<1>4. req' \in [Requests -> Request] /\ req'[r] = d /\ \A p \in Requests : p # r => req'[p] = req[p]
  BY <1>1, <1>2 DEF IInv, TypeOK
<1>5. Mild
  BY <1>3 DEF Mild, IInv, TypeOK
<1>6. u \in Members \/ u = Owner
  BY DEF Users
<1>7. pc = "act" => Allowed(r)'
  BY <1>1, <1>2, <1>3, <1>4 DEF Allowed, RankOf, MinRank
<1>8. ReqInv'
  BY <1>1, <1>2, <1>3, <1>4, <1>5, <1>6, <1>7, OneMoves DEF Mild
<1>9. RestOK' /\ AcknowledgedWritesShow'
  BY <1>3, Parts DEF RestOK, AcknowledgedWritesShow
<1>. QED
  BY <1>8, <1>9, Parts

LEMMA AsksOK ==
    ASSUME NEW op \in Ops
    PROVE  /\ Asks(op) \in Request /\ Asks(op).op = op /\ Asks(op).pc = "idle"
           /\ Asks(op).val = 0 /\ Asks(op).late = FALSE
BY DEF Asks, Idle, Request, Users, Role

LEMMA ArrivesKeeps ==
    ASSUME IInv, NEW r \in Requests, NEW u \in Users,
           \/ \E m \in Members : \/ \E role \in {"viewer", "editor"} : createShare(r, u, m, role)
                                 \/ \E n \in 1..share[m].n : revokeShare(r, u, m, n)
           \/ listShares(r, u) \/ listComments(r, u) \/ getActivity(r, u)
           \/ addComment(r, u) \/ updateTask(r, u)
    PROVE  IInv'
<1>1. ASSUME NEW m \in Members, NEW role \in {"viewer", "editor"}, createShare(r, u, m, role)
      PROVE  IInv'
  <2> DEFINE q == [Asks("grant") EXCEPT !.to = m, !.role = role]
  <2>1. q \in Request /\ q.val = 0 /\ q.to = m
    <3> DEFINE a == Asks("grant")
    <3>1. a \in Request /\ a.val = 0
      BY AsksOK DEF Ops
    <3>2. m \in Users /\ role \in Role
      BY DEF Users, Role
    <3>3. q = [a EXCEPT !.to = m, !.role = role]
      OBVIOUS
    <3> HIDE DEF a, q
    <3>. QED
      BY <3>1, <3>2, <3>3 DEF Request
  <2>2. LoadTask(r, u, q)
    BY <1>1 DEF createShare
  <2> HIDE DEF q
  <2>. QED
    BY <2>1, <2>2, LoadTaskKeeps
<1>2. ASSUME NEW m \in Members, NEW n \in 1..share[m].n, revokeShare(r, u, m, n)
      PROVE  IInv'
  <2> DEFINE q == [Asks("revoke") EXCEPT !.to = m, !.n = n]
  <2>1. share[m].n \in Nat
    BY DEF IInv, TypeOK, Share
  <2>2. n \in Nat
    BY <2>1
  <2>3. q \in Request /\ q.val = 0 /\ q.to = m
    BY <2>2 DEF Asks, Idle, Request, Users, Role, Ops
  <2>4. LoadTask(r, u, q)
    BY <1>2 DEF revokeShare
  <2> HIDE DEF q
  <2>. QED
    BY <2>3, <2>4, LoadTaskKeeps
<1>3. ASSUME NEW op \in {"shares", "look", "comment", "update"}, LoadTask(r, u, Asks(op))
      PROVE  IInv'
  <2>1. op \in Ops /\ op \notin {"grant", "revoke"}
    BY DEF Ops
  <2>. QED
    BY <1>3, <2>1, AsksOK, LoadTaskKeeps
<1>. QED
  BY <1>1, <1>2, <1>3 DEF listShares, listComments, getActivity, addComment, updateTask

LEMMA LoadShareKeeps == ASSUME IInv, NEW r \in Requests, LoadShare(r) PROVE IInv'
<1>1. /\ task' = task /\ ver' = ver /\ share' = share /\ comments' = comments /\ trail' = trail
      /\ cache' = cache /\ failures' = failures /\ lost' = lost /\ acked' = acked /\ excused' = excused
  BY DEF LoadShare, board, collab, history
<1>2. Mild
  BY <1>1 DEF Mild, IInv, TypeOK
<1>3. RestOK' /\ AcknowledgedWritesShow'
  BY <1>1, Parts DEF RestOK, AcknowledgedWritesShow
<1>4. CASE Done(r)
  BY <1>2, <1>3, <1>4, DoneKeeps, Parts
<1>5. CASE ~(Rank(share[req[r].who].role) < MinRank(req[r].op)) /\ Goto(r, "act")
  <2>1. /\ req' \in [Requests -> Request]
        /\ req'[r].pc = "act" /\ req'[r].op = req[r].op /\ req'[r].who = req[r].who
        /\ req'[r].to = req[r].to /\ req'[r].val = req[r].val /\ req'[r].late = req[r].late
        /\ \A q \in Requests : q # r => req'[q] = req[q]
    BY <1>5, GotoEffect DEF IInv
  <2>2. req[r].who \in Members /\ (task = "live" \/ req[r].late)
    BY DEF LoadShare, IInv, LoadOK
  <2>3. /\ req[r].val <= ver /\ req[r].op \in Ops
        /\ req[r].op \in {"grant", "revoke"} => req[r].to \in Members
    BY DEF IInv, TypeOK, NamesOK, Request
  <2>4. share[req[r].who].role \in Role
    BY <2>2 DEF IInv, TypeOK, Share
  <2>5. Rank(share[req[r].who].role) >= MinRank(req[r].op)
    BY <1>5, <2>3, <2>4 DEF Rank, MinRank, Role
  <2>6. req[r].who # Owner
    BY <2>2, SharedTasksAssumption
  <2>7. Allowed(r)' \/ req'[r].late
    BY <1>1, <2>1, <2>2, <2>5, <2>6 DEF Allowed, RankOf
  <2>8. ReqInv'
    BY <1>1, <1>2, <2>1, <2>3, <2>7, OneMoves
  <2>. QED
    BY <1>3, <2>8, Parts
<1>. QED
  BY <1>4, <1>5 DEF LoadShare

-----------------------------------------------------------------------------
(* Handlers that act and then log *)
LEMMA GrantKeeps == ASSUME IInv, NEW r \in Requests, Grant(r) PROVE IInv'
<1> DEFINE m == req[r].to
<1>1. /\ task' = task /\ ver' = ver /\ comments' = comments /\ trail' = trail
      /\ cache' = cache /\ failures' = failures /\ lost' = lost /\ acked' = acked /\ excused' = excused
  BY DEF Grant, board, history
<1>2. m \in Members /\ req[r].role \in Role /\ share \in [Members -> Share] /\ ver \in Nat
  BY DEF Grant, Acting, Doing, IInv, NamesOK, TypeOK, Request
<1>3. CASE share' = share /\ Done(r)
  <2>1. Mild
    BY <1>1, <1>2, <1>3 DEF Mild
  <2>2. RestOK' /\ AcknowledgedWritesShow'
    BY <1>1, <1>3, Parts DEF RestOK, AcknowledgedWritesShow
  <2>. QED
    BY <1>3, <2>1, <2>2, DoneKeeps, Parts
<1>4. CASE /\ share[m].role = "none" /\ Goto(r, "log")
           /\ share' = [share EXCEPT ![m].role = req[r].role, ![m].n = @ + 1]
  <2> DEFINE d == [share[m] EXCEPT !.role = req[r].role, !.n = @ + 1]
  <2>1. share[m] \in Share
    BY <1>2
  <2>2. d \in Share
    BY <1>2, <2>1, GivenEffect
  <2>3. share' = [share EXCEPT ![m] = d]
    BY <1>4
  <2> HIDE DEF d, m
  <2>4. share' \in [Members -> Share] /\ \A k \in Members : k # m => share'[k] = share[k]
    BY <1>2, <2>2, <2>3
  <2>5. Mild
    BY <1>1, <1>2, <1>4, <2>4 DEF Mild
  <2>6. RestOK' /\ AcknowledgedWritesShow'
    BY <1>1, <2>4, Parts DEF RestOK, AcknowledgedWritesShow
  <2>7. req[r].op \in DOMAIN KindOf
    BY DEF Grant, Acting, Doing, KindOf
  <2>. QED
    BY <1>4, <2>5, <2>6, <2>7, LogKeeps, Parts
<1>. QED
  BY <1>3, <1>4 DEF Grant

LEMMA CommentKeeps == ASSUME IInv, NEW r \in Requests, AddComment(r) PROVE IInv'
<1>1. /\ task' = task /\ ver' = ver /\ share' = share /\ comments' = comments + 1 /\ trail' = trail
      /\ cache' = cache /\ failures' = failures /\ lost' = lost /\ acked' = acked /\ excused' = excused
  BY DEF AddComment, board, history
<1>2. Mild
  BY <1>1 DEF Mild, IInv, TypeOK
<1>3. RestOK' /\ AcknowledgedWritesShow'
  BY <1>1, Parts DEF RestOK, AcknowledgedWritesShow, Comment
<1>4. req[r].op \in DOMAIN KindOf /\ Goto(r, "log")
  BY DEF AddComment, Acting, Doing, KindOf
<1>. QED
  BY <1>2, <1>3, <1>4, LogKeeps, Parts

LEMMA ActivityKeeps == ASSUME IInv, NEW r \in Requests, RecordActivity(r) PROVE IInv'
<1>1. /\ task' = task /\ ver' = ver /\ share' = share /\ comments' = comments
      /\ trail' = [trail EXCEPT ![KindOf[req[r].op]] = @ + 1] /\ Done(r)
      /\ cache' = cache /\ failures' = failures /\ lost' = lost /\ acked' = acked /\ excused' = excused
  BY DEF RecordActivity, board, history
<1>2. trail' \in Trail
  <2>1. req[r].op \in DOMAIN KindOf /\ trail \in Trail
    BY DEF RecordActivity, IInv, TypeOK
  <2>2. KindOf[req[r].op] \in Kinds
    BY <2>1 DEF KindOf, Kinds
  <2>. QED
    BY <1>1, <2>1, <2>2, CountEffect
<1>3. Mild
  BY <1>1 DEF Mild, IInv, TypeOK
<1>4. RestOK' /\ AcknowledgedWritesShow'
  BY <1>1, <1>2, Parts DEF RestOK, AcknowledgedWritesShow
<1>. QED
  BY <1>1, <1>3, <1>4, DoneKeeps, Parts

LEMMA AnswerKeeps == ASSUME IInv, NEW r \in Requests, Answer(r) PROVE IInv'
<1>1. /\ task' = task /\ ver' = ver /\ share' = share /\ comments' = comments /\ trail' = trail
      /\ cache' = cache /\ failures' = failures /\ lost' = lost /\ acked' = acked /\ excused' = excused
      /\ Done(r)
  BY DEF Answer, board, collab, history
<1>2. Mild
  BY <1>1 DEF Mild, IInv, TypeOK
<1>3. RestOK' /\ AcknowledgedWritesShow'
  BY <1>1, Parts DEF RestOK, AcknowledgedWritesShow
<1>. QED
  BY <1>1, <1>2, <1>3, DoneKeeps, Parts

LEMMA UpdateKeeps == ASSUME IInv, NEW r \in Requests, Update(r) PROVE IInv'
<1>1. /\ task' = task /\ share' = share /\ comments' = comments /\ trail' = trail
      /\ cache' = cache /\ failures' = failures /\ lost' = lost /\ acked' = acked /\ excused' = excused
      /\ Done(r) /\ ver' \in {ver, ver + 1}
  BY DEF Update, collab, history
<1>2. ver \in Nat /\ cache.ver \in Nat /\ acked \in Nat
  BY DEF IInv, TypeOK, Cache
<1>3. Mild
  BY <1>1, <1>2 DEF Mild
<1>4. RestOK' /\ AcknowledgedWritesShow'
  BY <1>1, <1>2, Parts DEF RestOK, AcknowledgedWritesShow
<1>. QED
  BY <1>1, <1>3, <1>4, DoneKeeps, Parts

-----------------------------------------------------------------------------
(* Steps that mark requests late: requests that acted are either still       *)
(* allowed or marked.                                                        *)
Marking(r, d, hit) ==
    req' = [q \in Requests |-> IF q = r THEN d ELSE [req[q] EXCEPT !.late = @ \/ q \in hit]]

LEMMA Marked ==
    ASSUME IInv, NEW r \in Requests, NEW hit, NEW d \in Request, Marking(r, d, hit)
    PROVE  /\ req' \in [Requests -> Request] /\ req'[r] = d
           /\ \A q \in Requests : q # r =>
                /\ req'[q].pc = req[q].pc /\ req'[q].op = req[q].op /\ req'[q].who = req[q].who
                /\ req'[q].to = req[q].to /\ req'[q].role = req[q].role /\ req'[q].val = req[q].val
                /\ req'[q].late = (req[q].late \/ q \in hit)
<1>1. \A q \in Requests : req[q] \in Request
  BY DEF IInv, TypeOK
<1>2. ASSUME NEW q \in Requests
      PROVE  LET e == [req[q] EXCEPT !.late = @ \/ q \in hit] IN
             /\ e \in Request /\ e.pc = req[q].pc /\ e.op = req[q].op /\ e.who = req[q].who
             /\ e.to = req[q].to /\ e.role = req[q].role /\ e.val = req[q].val /\ e.late = (req[q].late \/ q \in hit)
  BY <1>1, LateEffect
<1> DEFINE e(q) == [req[q] EXCEPT !.late = @ \/ q \in hit]
<1>3. /\ req' = [q \in Requests |-> IF q = r THEN d ELSE e(q)]
      /\ \A q \in Requests :
             /\ e(q) \in Request /\ e(q).pc = req[q].pc /\ e(q).op = req[q].op /\ e(q).who = req[q].who
             /\ e(q).to = req[q].to /\ e(q).role = req[q].role /\ e(q).val = req[q].val /\ e(q).late = (req[q].late \/ q \in hit)
  BY <1>2 DEF Marking
<1> HIDE DEF e
<1>. QED
  BY <1>3

LEMMA RevokeKeeps == ASSUME IInv, NEW r \in Requests, Revoke(r) PROVE IInv'
<1> DEFINE m == req[r].to
           hit == {q \in Requests : At(q, "act") /\ req[q].who = m}
<1>1. /\ task' = task /\ ver' = ver /\ comments' = comments /\ trail' = trail
      /\ cache' = cache /\ failures' = failures /\ lost' = lost /\ acked' = acked /\ excused' = excused
  BY DEF Revoke, board, history
<1>2. /\ m \in Members /\ share \in [Members -> Share] /\ ver \in Nat
      /\ req[r] \in Request /\ req[r].op = "revoke" /\ req[r].val <= ver
  BY DEF Revoke, Acting, Doing, IInv, NamesOK, TypeOK
<1>3. CASE share' = share /\ Done(r)
  <2>1. Mild
    BY <1>1, <1>2, <1>3 DEF Mild
  <2>2. RestOK' /\ AcknowledgedWritesShow'
    BY <1>1, <1>3, Parts DEF RestOK, AcknowledgedWritesShow
  <2>. QED
    BY <1>3, <2>1, <2>2, DoneKeeps, Parts
<1>4. CASE share' = [share EXCEPT ![m].role = "none"] /\ Step(r, "log", hit)
  <2> DEFINE d == [share[m] EXCEPT !.role = "none"]
             i == [req[r] EXCEPT !.pc = "log"]
  <2>1. d \in Share
    BY <1>2 DEF Share, Role
  <2>2. i \in Request /\ i.pc = "log" /\ i.op = "revoke" /\ i.to = m /\ i.val = req[r].val
    BY <1>2 DEF Request
  <2>3. share' = [share EXCEPT ![m] = d]
    BY <1>4
  <2>4. \A q \in Requests : q \in hit <=> At(q, "act") /\ req[q].who = m
    OBVIOUS
  <2>5. Marking(r, i, hit)
    BY <1>4 DEF Step, Marking
  <2> HIDE DEF d, i, m, hit
  <2>6. share' \in [Members -> Share] /\ \A k \in Members : k # m => share'[k] = share[k]
    BY <1>2, <2>1, <2>3
  <2>7. /\ req' \in [Requests -> Request] /\ req'[r] = i
        /\ \A q \in Requests : q # r =>
             /\ req'[q].pc = req[q].pc /\ req'[q].op = req[q].op /\ req'[q].who = req[q].who
             /\ req'[q].to = req[q].to /\ req'[q].val = req[q].val
             /\ req'[q].late = (req[q].late \/ q \in hit)
    BY <2>2, <2>4, <2>5, Marked
  <2>8. RestOK' /\ AcknowledgedWritesShow'
    BY <1>1, <2>6, Parts DEF RestOK, AcknowledgedWritesShow
  <2>9. ReqOK'
    <3>1. \A q \in Requests : req[q].val <= ver /\ (At(q, "log") => req[q].op \in DOMAIN KindOf)
      BY DEF IInv, TypeOK
    <3>2. "revoke" \in DOMAIN KindOf
      BY DEF KindOf
    <3>. QED
      BY <1>1, <1>2, <2>2, <2>7, <3>1, <3>2 DEF ReqOK, At
  <2>10. LoadOK' /\ NamesOK'
    BY <1>1, <1>2, <2>2, <2>7 DEF IInv, LoadOK, NamesOK, At
  <2>11. ASSUME NEW q \in Requests, req'[q].pc = "act", ~req'[q].late PROVE Allowed(q)'
    <3>1. q # r /\ req[q].pc = "act" /\ ~req[q].late /\ q \notin hit
      BY <2>2, <2>7, <2>11
    <3>2. Allowed(q) /\ req[q].who # m
      BY <2>4, <3>1 DEF IInv, AccessIsCurrent, At
    <3>3. req[q].who \in Users
      BY DEF IInv, TypeOK, Request
    <3>4. RankOf(req[q].who)' = RankOf(req[q].who)
      BY <2>6, <2>7, <3>1, <3>2, <3>3 DEF RankOf, Users
    <3>. QED
      BY <1>1, <2>7, <3>1, <3>2, <3>4 DEF Allowed
  <2>12. AccessIsCurrent'
    BY <2>11 DEF AccessIsCurrent, At
  <2>. QED
    BY <2>8, <2>9, <2>10, <2>12, Parts DEF ReqInv
<1>. QED
  BY <1>3, <1>4 DEF Revoke

-----------------------------------------------------------------------------
(* The owner's changes: those that take the task off the board mark every    *)
(* request that has loaded it.                                               *)
LEMMA ChangeKeeps ==
    ASSUME IInv, NEW r \in Requests, NEW hit, Change(r, hit),
           task' \in {"live", "trash", "gone"},
           \/ task = "live" => task' = "live"
           \/ \A q \in Requests : req[q].pc \in {"share", "act"} => q \in hit
    PROVE  IInv'
<1> DEFINE d == [Idle EXCEPT !.op = "write", !.pc = "del", !.val = ver + 1]
<1>1. /\ share' = share /\ comments' = comments /\ trail' = trail /\ ver' = ver + 1
      /\ cache' = cache /\ failures' = failures /\ lost' = lost /\ acked' = acked /\ excused' = excused
  BY DEF Change, collab, history
<1>2. /\ ver \in Nat /\ acked \in Nat /\ cache.ver \in Nat /\ cache.ver <= ver /\ acked <= ver
      /\ \A q \in Requests : req[q].val \in Nat /\ req[q].val <= ver
  BY DEF IInv, TypeOK, Cache, Request
<1>3. d \in Request /\ d.pc = "del" /\ d.op = "write" /\ d.val = ver + 1
  <2>1. ver + 1 \in Nat /\ "write" \in Ops
    BY <1>2 DEF Ops
  <2> DEFINE i == Idle
  <2>2. i \in Request /\ d = [i EXCEPT !.op = "write", !.pc = "del", !.val = ver + 1]
    BY IdleOK
  <2> HIDE DEF d, i
  <2>. QED
    BY <2>1, <2>2 DEF Request
<1>4. Marking(r, d, hit)
  BY DEF Change, Marking
<1> HIDE DEF d
<1>5. /\ req' \in [Requests -> Request] /\ req'[r] = d
      /\ \A q \in Requests : q # r =>
           /\ req'[q].pc = req[q].pc /\ req'[q].op = req[q].op /\ req'[q].who = req[q].who
           /\ req'[q].to = req[q].to /\ req'[q].val = req[q].val
           /\ req'[q].late = (req[q].late \/ q \in hit)
  BY <1>3, <1>4, Marked
<1>6. cache'.ver <= ver' /\ acked' <= ver' /\ ver' \in Nat
  BY <1>1, <1>2
<1>7. RestOK' /\ AcknowledgedWritesShow'
  BY <1>1, <1>6, Parts DEF RestOK, AcknowledgedWritesShow
<1>8. ReqOK'
  <2>1. \A q \in Requests : At(q, "log") => req[q].op \in DOMAIN KindOf
    BY DEF IInv, TypeOK
  <2>2. \A q \in Requests : req'[q].val <= ver'
    BY <1>1, <1>2, <1>3, <1>5
  <2>. QED
    BY <1>3, <1>5, <2>1, <2>2 DEF ReqOK, At
<1>9. ASSUME NEW q \in Requests, req'[q].pc \in {"share", "act"}, ~req'[q].late
      PROVE  q # r /\ req[q].pc = req'[q].pc /\ ~req[q].late /\ (task = "live" => task' = "live")
  BY <1>3, <1>5, <1>9
<1>10. LoadOK'
  <2>1. ASSUME NEW q \in Requests, req'[q].pc = "share" PROVE req'[q].who \in Members
    BY <1>3, <1>5, <2>1 DEF IInv, LoadOK, At
  <2>2. ASSUME NEW q \in Requests, req'[q].pc = "share", ~req'[q].late PROVE task' = "live"
    BY <1>9, <2>2 DEF IInv, LoadOK, At
  <2>. QED
    BY <2>1, <2>2 DEF LoadOK, At
<1>11. NamesOK'
  BY <1>3, <1>5 DEF IInv, NamesOK
<1>12. ASSUME NEW q \in Requests, req'[q].pc = "act", ~req'[q].late PROVE Allowed(q)'
  <2>1. q # r /\ req[q].pc = "act" /\ ~req[q].late /\ (task = "live" => task' = "live")
    BY <1>9, <1>12
  <2>2. Allowed(q)
    BY <2>1 DEF IInv, AccessIsCurrent, At
  <2>. QED
    BY <1>1, <1>5, <2>1, <2>2 DEF Allowed, RankOf
<1>13. AccessIsCurrent'
  BY <1>12 DEF AccessIsCurrent, At
<1>. QED
  BY <1>7, <1>8, <1>10, <1>11, <1>13, Parts DEF ReqInv

LEMMA WritesKeep ==
    ASSUME IInv, NEW r \in Requests,
           createTask(r) \/ importTasks(r) \/ deleteTask(r) \/ bulkTasks(r)
    PROVE  IInv'
<1>1. task \in {"live", "trash", "gone"}
  BY DEF IInv, TypeOK
<1>2. CASE Change(r, {}) /\ task' = task
  BY <1>1, <1>2, ChangeKeeps
<1>3. CASE task = "trash" /\ task' = "live" /\ Change(r, {})
  BY <1>3, ChangeKeeps
<1>4. CASE deleteTask(r)
  <2>1. \A q \in Requests : req[q].pc \in {"share", "act"} => q \in Loaded
    BY DEF Loaded, At
  <2>2. Change(r, Loaded) /\ task' = "trash"
    BY <1>4 DEF deleteTask
  <2>. QED
    BY <2>1, <2>2, ChangeKeeps
<1>. QED
  BY <1>2, <1>3, <1>4 DEF createTask, importTasks, bulkTasks

(* Steps that leave every request alone *)
LEMMA AllStay == ASSUME IInv, Mild, req' = req PROVE ReqInv'
<1>1. \A m \in Members : share[m].role \in Role
  BY DEF IInv, TypeOK, Share
<1>2. ASSUME NEW q \in Requests
      PROVE  /\ At(q, "share")' => req'[q].who \in Members /\ (task' = "live" \/ req'[q].late)
             /\ req'[q].op \in {"grant", "revoke"} => req'[q].to \in Members
             /\ At(q, "act")' => Allowed(q)' \/ req'[q].late
  BY <1>1, OthersStay DEF Mild
<1>3. ASSUME NEW q \in Requests
      PROVE  req'[q].val <= ver' /\ (At(q, "log")' => req'[q].op \in DOMAIN KindOf)
  <2>1. req[q].val \in Nat /\ req[q].val <= ver
    BY DEF IInv, TypeOK, Request
  <2>2. At(q, "log") => req[q].op \in DOMAIN KindOf
    BY DEF IInv, TypeOK
  <2>. QED
    BY <2>1, <2>2 DEF Mild, At
<1>4. ReqOK'
  BY <1>3 DEF ReqOK, IInv, TypeOK
<1>5. LoadOK' /\ NamesOK' /\ AccessIsCurrent'
  BY <1>2 DEF LoadOK, NamesOK, AccessIsCurrent, At
<1>. QED
  BY <1>4, <1>5 DEF ReqInv

LEMMA ClearTrashKeeps == ASSUME IInv, clearTrash PROVE IInv'
<1>1. /\ task = "trash" /\ task' = "gone" /\ req' = req
      /\ ver' = ver /\ share' = share /\ comments' = comments /\ trail' = trail
      /\ cache' = cache /\ failures' = failures /\ lost' = lost /\ acked' = acked /\ excused' = excused
  BY DEF clearTrash, collab, history
<1>2. Mild
  BY <1>1 DEF Mild, IInv, TypeOK
<1>3. RestOK' /\ AcknowledgedWritesShow'
  BY <1>1, Parts DEF RestOK, AcknowledgedWritesShow
<1>. QED
  BY <1>1, <1>2, <1>3, AllStay, Parts

-----------------------------------------------------------------------------
(* The cache *)
LEMMA DropEffect ==
    ASSUME NEW c \in Cache
    PROVE  LET d == [c EXCEPT !.held = FALSE] IN d \in Cache /\ d.ver = c.ver /\ ~d.held
BY DEF Cache

LEMMA ExpireKeeps == ASSUME IInv, Expire PROVE IInv'
<1>1. /\ task' = task /\ req' = req /\ excused' = FALSE /\ cache' = [cache EXCEPT !.held = FALSE]
      /\ ver' = ver /\ share' = share /\ comments' = comments /\ trail' = trail
      /\ failures' = failures /\ lost' = lost /\ acked' = acked
  BY DEF Expire, board, collab
<1>2. cache' \in Cache /\ cache'.ver = cache.ver /\ ~cache'.held
  BY <1>1, DropEffect DEF IInv, TypeOK
<1>3. Mild
  BY <1>1 DEF Mild, IInv, TypeOK
<1>4. RestOK'
  BY <1>1, <1>2, Parts DEF RestOK
<1>5. AcknowledgedWritesShow'
  BY <1>2 DEF AcknowledgedWritesShow
<1>. QED
  BY <1>1, <1>3, <1>4, <1>5, AllStay, Parts

LEMMA InvalidateKeeps == ASSUME IInv, NEW r \in Requests, InvalidateStatsCache(r) PROVE IInv'
<1>1. /\ task' = task /\ Done(r) /\ excused' = FALSE /\ cache' = [cache EXCEPT !.held = FALSE]
      /\ ver' = ver /\ share' = share /\ comments' = comments /\ trail' = trail
      /\ failures' = failures /\ lost' = lost /\ acked' \in {acked, req[r].val}
  BY DEF InvalidateStatsCache, board, collab
<1>2. cache' \in Cache /\ cache'.ver = cache.ver /\ ~cache'.held
  BY <1>1, DropEffect DEF IInv, TypeOK
<1>3. acked' \in Nat /\ acked' <= ver
  BY <1>1 DEF IInv, TypeOK, Request
<1>4. Mild
  BY <1>1 DEF Mild, IInv, TypeOK
<1>5. RestOK'
  BY <1>1, <1>2, <1>3, Parts DEF RestOK
<1>6. AcknowledgedWritesShow'
  BY <1>2 DEF AcknowledgedWritesShow
<1>. QED
  BY <1>1, <1>4, <1>5, <1>6, DoneKeeps, Parts

LEMMA StatsKeeps == ASSUME IInv, NEW r \in Requests, getStats(r) PROVE IInv'
<1> DEFINE d == [Asks("stats") EXCEPT !.pc = "compute"]
<1>1. /\ task' = task /\ ver' = ver /\ share' = share /\ comments' = comments /\ trail' = trail
      /\ cache' = cache /\ failures' = failures /\ lost' = lost /\ acked' = acked /\ excused' = excused
  BY DEF getStats, board, collab, history
<1>2. req' = [req EXCEPT ![r] = d]
  BY DEF getStats
<1>3. d \in Request /\ d.pc = "compute" /\ d.op = "stats" /\ d.val = 0
  BY DEF Asks, Idle, Request, Ops, Users, Role
<1> HIDE DEF d
<1>4. req' \in [Requests -> Request] /\ req'[r] = d /\ \A q \in Requests : q # r => req'[q] = req[q]
  BY <1>2, <1>3 DEF IInv, TypeOK
<1>5. Mild
  BY <1>1 DEF Mild, IInv, TypeOK
<1>6. ReqInv'
  BY <1>3, <1>4, <1>5, OneMoves DEF Mild
<1>7. RestOK' /\ AcknowledgedWritesShow'
  BY <1>1, Parts DEF RestOK, AcknowledgedWritesShow
<1>. QED
  BY <1>6, <1>7, Parts

LEMMA ComputeKeeps == ASSUME IInv, NEW r \in Requests, Compute(r) PROVE IInv'
<1> DEFINE d == [req[r] EXCEPT !.pc = "set", !.val = ver]
<1>1. /\ task' = task /\ ver' = ver /\ share' = share /\ comments' = comments /\ trail' = trail
      /\ cache' = cache /\ failures' = failures /\ lost' = lost /\ acked' = acked /\ excused' = excused
  BY DEF Compute, board, collab, history
<1>2. req' = [req EXCEPT ![r] = d]
  BY DEF Compute
<1>3. req[r] \in Request /\ ver \in Nat /\ ver <= ver
  BY DEF IInv, TypeOK
<1>4. d \in Request /\ d.pc = "set" /\ d.op = req[r].op /\ d.to = req[r].to /\ d.val = ver
  BY <1>3 DEF Request
<1>5. req[r].op \in {"grant", "revoke"} => req[r].to \in Members
  BY DEF IInv, NamesOK
<1> HIDE DEF d
<1>6. req' \in [Requests -> Request] /\ req'[r] = d /\ \A q \in Requests : q # r => req'[q] = req[q]
  BY <1>2, <1>4 DEF IInv, TypeOK
<1>7. Mild
  BY <1>1 DEF Mild, IInv, TypeOK
<1>8. ReqInv'
  BY <1>1, <1>3, <1>4, <1>5, <1>6, <1>7, OneMoves
<1>9. RestOK' /\ AcknowledgedWritesShow'
  BY <1>1, Parts DEF RestOK, AcknowledgedWritesShow
<1>. QED
  BY <1>8, <1>9, Parts

(* A value older than an acknowledged change is older than the board.        *)
LEMMA SetKeeps == ASSUME IInv, NEW r \in Requests, SetCached(r) PROVE IInv'
<1>1. /\ task' = task /\ Done(r) /\ cache' = [held |-> TRUE, ver |-> req[r].val]
      /\ ver' = ver /\ share' = share /\ comments' = comments /\ trail' = trail
      /\ failures' = failures /\ lost' = lost /\ acked' = acked
  BY DEF SetCached, board, collab
<1>2. req[r].val \in Nat /\ req[r].val <= ver /\ ver \in Nat /\ acked \in Nat /\ acked <= ver
  BY DEF IInv, TypeOK, Request
<1>3. cache' \in Cache /\ cache'.ver = req[r].val
  BY <1>1, <1>2 DEF Cache
<1>4. excused' \in BOOLEAN
  <2>1. excused' = (req[r].val < ver)
    BY DEF SetCached
  <2>2. (req[r].val < ver) \in BOOLEAN
    BY <1>2, SMT
  <2>. QED
    BY <2>1, <2>2, Zenon
<1>5. Mild
  BY <1>1, <1>2 DEF Mild
<1>6. RestOK'
  BY <1>1, <1>2, <1>3, <1>4, Parts DEF RestOK
<1>7. AcknowledgedWritesShow'
  <2>1. cache'.ver < acked' => req[r].val < ver
    BY <1>1, <1>2, <1>3
  <2>2. (req[r].val < ver) => excused'
    BY DEF SetCached
  <2>. QED
    BY <2>1, <2>2 DEF AcknowledgedWritesShow
<1>. QED
  BY <1>1, <1>5, <1>6, <1>7, DoneKeeps, Parts

-----------------------------------------------------------------------------
LEMMA FailKeeps == ASSUME IInv, NEW r \in Requests, Fail(r) PROVE IInv'
<1>1. /\ task' = task /\ ver' = ver /\ share' = share /\ comments' = comments /\ trail' = trail
      /\ cache' = cache /\ failures' = failures + 1 /\ Done(r)
  BY DEF Fail, board, collab
<1>2. lost' \in Trail
  <2>1. lost \in Trail /\ (At(r, "log") => req[r].op \in DOMAIN KindOf)
    BY DEF IInv, TypeOK
  <2>2. req[r].op \in DOMAIN KindOf => KindOf[req[r].op] \in Kinds
    BY DEF KindOf, Kinds
  <2>3. CASE At(r, "log")
    <3>1. lost' = [lost EXCEPT ![KindOf[req[r].op]] = @ + 1]
      BY <2>3 DEF Fail
    <3>. QED
      BY <2>1, <2>2, <2>3, <3>1, CountEffect
  <2>4. CASE ~At(r, "log")
    BY <2>1, <2>4 DEF Fail
  <2>. QED
    BY <2>3, <2>4
<1>3. acked' \in Nat /\ acked' <= ver
  <2>1. acked' \in {acked, req[r].val}
    BY DEF Fail
  <2>. QED
    BY <2>1 DEF IInv, TypeOK, Request
<1>4. excused' \in BOOLEAN /\ AcknowledgedWritesShow'
  <2>1. CASE At(r, "del")
    <3>1. excused' = (excused \/ cache.held)
      BY <2>1 DEF Fail
    <3>2. excused' \in BOOLEAN
      BY <3>1, Zenon
    <3>3. AcknowledgedWritesShow'
      BY <1>1, <3>1 DEF AcknowledgedWritesShow
    <3>. QED
      BY <3>2, <3>3
  <2>2. CASE ~At(r, "del")
    <3>1. excused' = excused /\ acked' = acked
      BY <2>2 DEF Fail
    <3>2. excused' \in BOOLEAN
      BY <3>1 DEF IInv, TypeOK
    <3>3. AcknowledgedWritesShow'
      BY <1>1, <3>1 DEF IInv, AcknowledgedWritesShow
    <3>. QED
      BY <3>2, <3>3
  <2>. QED
    BY <2>1, <2>2
<1>5. failures' \in Nat
  BY <1>1 DEF IInv, TypeOK
<1>6. Mild
  BY <1>1 DEF Mild, IInv, TypeOK
<1>7. RestOK'
  BY <1>1, <1>2, <1>3, <1>4, <1>5, Parts DEF RestOK
<1>. QED
  BY <1>1, <1>4, <1>6, <1>7, DoneKeeps, Parts

LEMMA StutterKeeps == ASSUME IInv, UNCHANGED vars PROVE IInv'
<1>1. /\ task' = task /\ share' = share /\ comments' = comments /\ trail' = trail /\ ver' = ver
      /\ cache' = cache /\ req' = req /\ failures' = failures
      /\ lost' = lost /\ acked' = acked /\ excused' = excused
  BY DEF vars
<1>2. Mild
  BY <1>1 DEF Mild, IInv, TypeOK
<1>3. RestOK' /\ AcknowledgedWritesShow'
  BY <1>1, Parts DEF RestOK, AcknowledgedWritesShow
<1>. QED
  BY <1>1, <1>2, <1>3, AllStay, Parts

LEMMA StepInv == IInv /\ [Next]_vars => IInv'
<1> SUFFICES ASSUME IInv, [Next]_vars PROVE IInv'
  OBVIOUS
<1>1. CASE clearTrash
  BY <1>1, ClearTrashKeeps
<1>2. CASE Expire
  BY <1>2, ExpireKeeps
<1>3. ASSUME NEW r \in Requests, Arrival(r) PROVE IInv'
  BY <1>3, ArrivesKeeps, StatsKeeps, WritesKeep DEF Arrival
<1>4. ASSUME NEW r \in Requests, Continue(r) PROVE IInv'
  BY <1>4, LoadShareKeeps, GrantKeeps, RevokeKeeps, CommentKeeps, ActivityKeeps, AnswerKeeps,
     UpdateKeeps, InvalidateKeeps, ComputeKeeps, SetKeeps DEF Continue
<1>5. ASSUME NEW r \in Requests, Fail(r) PROVE IInv'
  BY <1>5, FailKeeps
<1>6. CASE UNCHANGED vars
  BY <1>6, StutterKeeps
<1>. QED
  BY <1>1, <1>2, <1>3, <1>4, <1>5, <1>6 DEF Next

LEMMA Invariance == Spec => []IInv
BY InitInv, StepInv, PTL DEF Spec

-----------------------------------------------------------------------------
(* The collections, the key and every request keep their shape; the cache    *)
(* never runs ahead of the board.                                            *)
THEOREM TypeCorrect == Spec => []TypeOK
<1>1. IInv => TypeOK
  BY DEF IInv
<1>. QED
  BY <1>1, Invariance, PTL

(* loadTaskWithAccess holds: what a request does to a shared task it may do, *)
(* unless its right was taken from it while it was under way.                *)
THEOREM SharingIsCurrent == Spec => []AccessIsCurrent
<1>1. IInv => AccessIsCurrent
  BY DEF IInv
<1>. QED
  BY <1>1, Invariance, PTL

(* The statistics a client reads count every change that was answered before *)
(* it, but for the two excuses the code has: a computation the change        *)
(* overtook, and a Redis that failed.                                        *)
THEOREM AcknowledgedWritesAreCounted == Spec => []AcknowledgedWritesShow
<1>1. IInv => AcknowledgedWritesShow
  BY DEF IInv
<1>. QED
  BY <1>1, Invariance, PTL

-----------------------------------------------------------------------------
(* Sums over a finite set: SumFunction is a choice of a table; the table is  *)
(* shown to exist, and the sum to grow with one of its terms.                *)
Pick(s) == CHOOSE x \in s : TRUE
Table(S, f, h) == h = [s \in SUBSET S |-> IF s = {} THEN 0 ELSE f[Pick(s)] + h[s \ {Pick(s)}]]

LEMMA Summed ==
    ASSUME NEW f PROVE SumFunction(f) = (CHOOSE h : Table(DOMAIN f, f, h))[DOMAIN f]
BY DEF SumFunction, SumFunctionOnSet, FoldFunctionOnSet, MapThenFoldSet, Pick, Table

LEMMA Picked == \A s : s # {} => Pick(s) \in s
BY DEF Pick

(* A set of subsets of a finite set has a smallest member. *)
LEMMA Smallest ==
    ASSUME NEW S, IsFiniteSet(S), NEW T \in SUBSET SUBSET S, T # {}
    PROVE  \E A \in T : \A B \in T : ~(B \subseteq A /\ B # A)
<1>1. T \subseteq FiniteSubsetsOf(S)
  BY FS_Subset DEF FiniteSubsetsOf
<1>2. PICK A \in T : \A B \in T : <<B, A>> \notin StrictSubsetOrdering(S)
  BY <1>1, FS_StrictSubsetOrderingWellFounded, WFMin
<1>. QED
  BY <1>2 DEF StrictSubsetOrdering

(* The table exists: it can be built for the subsets of each size. *)
Upto(S, n) == {s \in SUBSET S : Cardinality(s) <= n}
Partial(S, f, n, h) ==
    /\ h \in [Upto(S, n) -> Nat]
    /\ \A s \in Upto(S, n) : h[s] = IF s = {} THEN 0 ELSE f[Pick(s)] + h[s \ {Pick(s)}]

LEMMA TableExists ==
    ASSUME NEW S, IsFiniteSet(S), NEW f \in [S -> Nat]
    PROVE  \E h \in [SUBSET S -> Nat] : Table(S, f, h)
<1>a. \A s \in SUBSET S : IsFiniteSet(s) /\ Cardinality(s) \in Nat /\ Cardinality(s) <= Cardinality(S)
  BY FS_Subset, FS_CardinalityType
<1>b. Cardinality(S) \in Nat
  BY FS_CardinalityType
<1>c. ASSUME NEW s \in SUBSET S, s # {}
      PROVE  /\ s \ {Pick(s)} \in SUBSET S /\ Pick(s) \in S
             /\ Cardinality(s \ {Pick(s)}) = Cardinality(s) - 1
  BY <1>a, <1>c, Picked, FS_RemoveElement
<1>. DEFINE P(n) == \E h : Partial(S, f, n, h)
<1>1. P(0)
  <2>1. Upto(S, 0) = {{}}
    <3>1. \A s \in SUBSET S : Cardinality(s) <= 0 => s = {}
      BY <1>a, FS_EmptySet
    <3>. QED
      BY <3>1, FS_EmptySet DEF Upto
  <2>. DEFINE h == [s \in Upto(S, 0) |-> 0]
  <2>2. Partial(S, f, 0, h)
    BY <2>1 DEF Partial
  <2>. QED
    BY <2>2
<1>2. ASSUME NEW n \in Nat, P(n) PROVE P(n + 1)
  <2>1. PICK g : Partial(S, f, n, g)
    BY <1>2
  <2>. DEFINE v(s) == IF s = {} THEN 0 ELSE f[Pick(s)] + g[s \ {Pick(s)}]
              h == [s \in Upto(S, n + 1) |-> v(s)]
  <2>2. ASSUME NEW s \in Upto(S, n + 1), s # {}
        PROVE  /\ s \ {Pick(s)} \in Upto(S, n) /\ Pick(s) \in S
               /\ s \ {Pick(s)} \in Upto(S, n + 1)
    BY <1>a, <1>c, <2>2 DEF Upto
  <2>3. \A s \in Upto(S, n) : s \in Upto(S, n + 1) /\ g[s] = v(s)
    BY <1>a, <2>1 DEF Partial, Upto
  <2>4. \A s \in Upto(S, n + 1) : v(s) \in Nat
    BY <2>1, <2>2 DEF Partial
  <2>5. \A s \in Upto(S, n + 1) :
           h[s] = IF s = {} THEN 0 ELSE f[Pick(s)] + h[s \ {Pick(s)}]
    BY <2>2, <2>3
  <2>. HIDE DEF v
  <2>6. h \in [Upto(S, n + 1) -> Nat]
    BY <2>4
  <2>. QED
    BY <2>5, <2>6 DEF Partial
<1>3. P(Cardinality(S))
  <2>. DEFINE T == {n \in Nat : ~P(n)}
  <2>1. SUFFICES ASSUME T # {} PROVE FALSE
    BY <1>b
  <2>. HIDE DEF P
  <2>2. PICK m \in T : \A n \in T : <<n, m>> \notin OpToRel(<, Nat)
    BY <2>1, NatLessThanWellFounded, WFMin
  <2>3. \A n \in Nat : n < m => P(n)
    BY <2>2 DEF OpToRel
  <2>4. m # 0 /\ m \in Nat /\ ~P(m)
    BY <1>1
  <2>5. m - 1 \in Nat /\ m - 1 < m /\ (m - 1) + 1 = m
    BY <2>4
  <2>6. P(m - 1)
    BY <2>3, <2>5
  <2>. QED
    BY <1>2, <2>4, <2>5, <2>6
<1>4. Upto(S, Cardinality(S)) = SUBSET S
  BY <1>a DEF Upto
<1>5. PICK h : Partial(S, f, Cardinality(S), h)
  BY <1>3
<1>6. h \in [SUBSET S -> Nat]
  BY <1>4, <1>5 DEF Partial
<1>7. h = [s \in SUBSET S |-> IF s = {} THEN 0 ELSE f[Pick(s)] + h[s \ {Pick(s)}]]
  BY <1>4, <1>5 DEF Partial
<1>. QED
  BY <1>6, <1>7 DEF Table

(* A property of subsets that one element less carries over holds of all. *)
LEMMA OneLess ==
    ASSUME NEW S, IsFiniteSet(S), NEW T \in SUBSET SUBSET S, {} \in T,
           \A s \in SUBSET S : s # {} /\ s \ {Pick(s)} \in T => s \in T
    PROVE  T = SUBSET S
<1>. DEFINE U == (SUBSET S) \ T
<1>1. SUFFICES ASSUME U # {} PROVE FALSE
  OBVIOUS
<1>2. U \in SUBSET SUBSET S
  OBVIOUS
<1>3. \E A \in U : \A B \in U : ~(B \subseteq A /\ B # A)
  <2>. HIDE DEF U
  <2>. QED
    BY <1>1, <1>2, Smallest
<1>4. PICK A \in U : \A B \in U : ~(B \subseteq A /\ B # A)
  BY <1>3
<1>5. A \in SUBSET S /\ A \notin T /\ A # {}
  OBVIOUS
<1>6. Pick(A) \in A
  BY <1>5, Picked
<1>7. /\ A \ {Pick(A)} \in SUBSET S /\ A \ {Pick(A)} \subseteq A
      /\ A \ {Pick(A)} # A
  BY <1>5, <1>6
<1>8. A \ {Pick(A)} \in T
  BY <1>4, <1>7
<1>. QED
  BY <1>5, <1>8

(* What the sum is, for a finite domain. *)
Added(S, f, h) ==
    /\ h \in [SUBSET S -> Nat]
    /\ \A s \in SUBSET S : h[s] = IF s = {} THEN 0 ELSE f[Pick(s)] + h[s \ {Pick(s)}]

LEMMA SumTable ==
    ASSUME NEW S, IsFiniteSet(S), NEW f \in [S -> Nat]
    PROVE  \E h : Added(S, f, h) /\ SumFunction(f) = h[S]
<1>. DEFINE c == CHOOSE h : Table(S, f, h)
<1>1. \E h : Table(S, f, h)
  BY TableExists
<1>2. Table(S, f, c)
  BY <1>1
<1>3. DOMAIN f = S
  OBVIOUS
<1>4. SumFunction(f) = c[S]
  BY <1>3, Summed
<1>. HIDE DEF c
<1>5. \A s \in SUBSET S : c[s] = IF s = {} THEN 0 ELSE f[Pick(s)] + c[s \ {Pick(s)}]
  BY <1>2 DEF Table
<1>. DEFINE T == {s \in SUBSET S : c[s] \in Nat}
<1>6. {} \in T
  BY <1>5
<1>7. ASSUME NEW s \in SUBSET S, s # {}, s \ {Pick(s)} \in T PROVE s \in T
  <2>1. f[Pick(s)] \in Nat
    BY <1>7, Picked
  <2>2. c[s] = f[Pick(s)] + c[s \ {Pick(s)}]
    BY <1>5, <1>7
  <2>. QED
    BY <1>7, <2>1, <2>2
<1>8. T \in SUBSET SUBSET S
  OBVIOUS
<1>9. T = SUBSET S
  <2>. HIDE DEF T
  <2>. QED
    BY <1>6, <1>7, <1>8, OneLess
<1>10. \A s \in SUBSET S : c[s] \in Nat
  BY <1>9
<1>11. c \in [SUBSET S -> Nat]
  <2>1. c = [s \in SUBSET S |-> IF s = {} THEN 0 ELSE f[Pick(s)] + c[s \ {Pick(s)}]]
    BY <1>2 DEF Table
  <2>2. \A s \in SUBSET S : (IF s = {} THEN 0 ELSE f[Pick(s)] + c[s \ {Pick(s)}]) \in Nat
    BY <1>5, <1>10
  <2>. QED
    BY <2>1, <2>2
<1>12. Added(S, f, c)
  BY <1>5, <1>11 DEF Added
<1>. QED
  BY <1>4, <1>12

LEMMA SumType ==
    ASSUME NEW S, IsFiniteSet(S), NEW f \in [S -> Nat] PROVE SumFunction(f) \in Nat
<1>1. PICK h : Added(S, f, h) /\ SumFunction(f) = h[S]
  BY SumTable
<1>. QED
  BY <1>1 DEF Added

LEMMA SumZero ==
    ASSUME NEW S, IsFiniteSet(S), NEW f \in [S -> Nat], \A x \in S : f[x] = 0
    PROVE  SumFunction(f) = 0
<1>1. PICK h : Added(S, f, h) /\ SumFunction(f) = h[S]
  BY SumTable
<1>. DEFINE T == {s \in SUBSET S : h[s] = 0}
<1>2. {} \in T
  BY <1>1 DEF Added
<1>3. ASSUME NEW s \in SUBSET S, s # {}, s \ {Pick(s)} \in T PROVE s \in T
  <2>1. f[Pick(s)] = 0
    BY <1>3, Picked
  <2>2. h[s] = f[Pick(s)] + h[s \ {Pick(s)}]
    BY <1>1, <1>3 DEF Added
  <2>. QED
    BY <1>3, <2>1, <2>2
<1>4. T \in SUBSET SUBSET S
  OBVIOUS
<1>5. T = SUBSET S
  <2>. HIDE DEF T
  <2>. QED
    BY <1>2, <1>3, <1>4, OneLess
<1>6. S \in T
  BY <1>5
<1>. QED
  BY <1>1, <1>6

(* One more in one place is one more in the sum. *)
LEMMA SumOneMore ==
    ASSUME NEW S, IsFiniteSet(S), NEW f \in [S -> Nat], NEW g \in [S -> Nat], NEW m \in S,
           g[m] = f[m] + 1, \A x \in S \ {m} : g[x] = f[x]
    PROVE  SumFunction(g) = SumFunction(f) + 1
<1>1. PICK h : Added(S, f, h) /\ SumFunction(f) = h[S]
  BY SumTable
<1>2. PICK k : Added(S, g, k) /\ SumFunction(g) = k[S]
  BY SumTable
<1>. DEFINE over(s) == IF m \in s THEN 1 ELSE 0
            T == {s \in SUBSET S : k[s] = h[s] + over(s)}
<1>3. {} \in T
  <2>1. k[{}] = 0 /\ h[{}] = 0
    BY <1>1, <1>2 DEF Added
  <2>. QED
    BY <2>1
<1>4. ASSUME NEW s \in SUBSET S, s # {}, s \ {Pick(s)} \in T PROVE s \in T
  <2>. DEFINE p == Pick(s)
              b == s \ {p}
  <2>1. p \in s /\ p \in S /\ b \in SUBSET S
    BY <1>4, Picked
  <2>. HIDE DEF p
  <2>2. k[s] = g[p] + k[b] /\ h[s] = f[p] + h[b]
    BY <1>1, <1>2, <1>4 DEF Added, p
  <2>3. k[b] \in Nat /\ h[b] \in Nat /\ f[p] \in Nat /\ g[p] \in Nat
    BY <1>1, <1>2, <2>1 DEF Added
  <2>4. k[b] = h[b] + over(b)
    BY <1>4 DEF p
  <2>5. CASE p = m
    <3>1. over(b) = 0 /\ over(s) = 1 /\ g[p] = f[p] + 1
      BY <2>1, <2>5
    <3>2. k[s] = h[s] + over(s)
      <4>. HIDE DEF over, b
      <4>. QED
        BY <2>2, <2>3, <2>4, <3>1
    <3>. QED
      BY <3>2
  <2>6. CASE p # m
    <3>1. over(b) = over(s) /\ over(s) \in Nat /\ g[p] = f[p]
      BY <2>1, <2>6
    <3>2. k[s] = h[s] + over(s)
      <4>. HIDE DEF over, b
      <4>. QED
        BY <2>2, <2>3, <2>4, <3>1
    <3>. QED
      BY <3>2
  <2>. QED
    BY <2>5, <2>6
<1>5. T \in SUBSET SUBSET S
  OBVIOUS
<1>6. T = SUBSET S
  <2>. HIDE DEF T
  <2>. QED
    BY <1>3, <1>4, <1>5, OneLess
<1>7. S \in T
  BY <1>6
<1>. QED
  BY <1>1, <1>2, <1>7

-----------------------------------------------------------------------------
(* The activity trail: a second invariant on top of the first.               *)
(* Who is asked to be granted something is granted something, and whoever    *)
(* has a share was given one; the entries under way are finitely many.       *)
RolesOK ==
    /\ \A r \in Requests : req[r].op = "grant" => req[r].role # "none"
    /\ \A m \in Members : share[m].role # "none" => share[m].n >= 1
Logging(k) == {r \in Requests : At(r, "log") /\ KindOf[req[r].op] = k}
Balanced ==
    \A k \in Kinds : /\ IsFiniteSet(Logging(k))
                     /\ trail[k] + Cardinality(Logging(k)) + lost[k] = Made[k]
Trailed == RolesOK /\ Balanced

LEMMA TrailedEnough == Trailed => TrailAccounts
BY DEF Trailed, Balanced, TrailAccounts, Pending, Logging

-----------------------------------------------------------------------------
(* How many things were done *)
Given == [m \in Members |-> share[m].n]
Taken == [m \in Members |-> IF share[m].role = "none" THEN share[m].n ELSE share[m].n - 1]

LEMMA MadeIs ==
    /\ Made["granted"] = SumFunction(Given) /\ Made["revoked"] = SumFunction(Taken)
    /\ Made["commented"] = comments
    /\ Made'["granted"] = SumFunction(Given') /\ Made'["revoked"] = SumFunction(Taken')
    /\ Made'["commented"] = comments'
BY DEF Made, Given, Taken

LEMMA MadeStays ==
    ASSUME share' = share, comments' = comments
    PROVE  \A k \in Kinds : Made'[k] = Made[k]
<1>1. Given' = Given /\ Taken' = Taken
  BY DEF Given, Taken
<1>. QED
  BY <1>1, MadeIs DEF Kinds

LEMMA MadeComment ==
    ASSUME share' = share, comments' = comments + 1
    PROVE  /\ Made'["commented"] = Made["commented"] + 1
           /\ \A k \in Kinds \ {"commented"} : Made'[k] = Made[k]
<1>1. Given' = Given /\ Taken' = Taken
  BY DEF Given, Taken
<1>. QED
  BY <1>1, MadeIs DEF Kinds

LEMMA SharesAdd ==
    ASSUME IInv, RolesOK
    PROVE  Given \in [Members -> Nat] /\ Taken \in [Members -> Nat] /\ IsFiniteSet(Members)
<1>1. \A m \in Members : /\ share[m].n \in Nat
                         /\ share[m].role # "none" => share[m].n - 1 \in Nat
  BY DEF IInv, TypeOK, Share, RolesOK
<1>2. Given \in [Members -> Nat]
  BY <1>1 DEF Given
<1>3. Taken \in [Members -> Nat]
  BY <1>1 DEF Taken
<1>. QED
  BY <1>2, <1>3, SharedTasksAssumption

(* one share more *)
LEMMA MadeGrant ==
    ASSUME IInv, RolesOK, NEW m \in Members, NEW d \in Share, share' = [share EXCEPT ![m] = d],
           share[m].role = "none", d.role # "none", d.n = share[m].n + 1, comments' = comments
    PROVE  /\ Made'["granted"] = Made["granted"] + 1
           /\ \A k \in Kinds \ {"granted"} : Made'[k] = Made[k]
<1>1. share \in [Members -> Share] /\ share[m].n \in Nat
  BY DEF IInv, TypeOK, Share
<1>2. share'[m] = d /\ \A x \in Members \ {m} : share'[x] = share[x]
  BY <1>1
<1>3. /\ \A x \in Members : share'[x].n \in Nat
      /\ \A x \in Members : share'[x].role # "none" => share'[x].n - 1 \in Nat
  BY <1>1, <1>2 DEF RolesOK, Share
<1>4. Given' \in [Members -> Nat]
  BY <1>3 DEF Given
<1>5. Given'[m] = Given[m] + 1 /\ \A x \in Members \ {m} : Given'[x] = Given[x]
  BY <1>2 DEF Given
<1>6. SumFunction(Given') = SumFunction(Given) + 1
  BY <1>4, <1>5, SharesAdd, SumOneMore
<1>7. \A x \in Members : Taken'[x] = Taken[x]
  BY <1>1, <1>2 DEF Taken
<1>8. Taken' = Taken
  BY <1>7 DEF Taken
<1>. QED
  BY <1>6, <1>8, MadeIs DEF Kinds

(* one share less *)
LEMMA MadeRevoke ==
    ASSUME IInv, RolesOK, NEW m \in Members, NEW d \in Share, share' = [share EXCEPT ![m] = d],
           share[m].role # "none", d.role = "none", d.n = share[m].n, comments' = comments
    PROVE  /\ Made'["revoked"] = Made["revoked"] + 1
           /\ \A k \in Kinds \ {"revoked"} : Made'[k] = Made[k]
<1>1. share \in [Members -> Share] /\ share[m].n \in Nat
  BY DEF IInv, TypeOK, Share
<1>2. share'[m] = d /\ \A x \in Members \ {m} : share'[x] = share[x]
  BY <1>1
<1>3. /\ \A x \in Members : share'[x].n \in Nat
      /\ \A x \in Members : share'[x].role # "none" => share'[x].n - 1 \in Nat
  BY <1>1, <1>2 DEF RolesOK, Share, IInv, TypeOK
<1>4. Taken' \in [Members -> Nat]
  BY <1>3 DEF Taken
<1>5. Taken'[m] = Taken[m] + 1 /\ \A x \in Members \ {m} : Taken'[x] = Taken[x]
  BY <1>1, <1>2 DEF Taken
<1>6. SumFunction(Taken') = SumFunction(Taken) + 1
  BY <1>4, <1>5, SharesAdd, SumOneMore
<1>7. \A x \in Members : Given'[x] = Given[x]
  BY <1>1, <1>2 DEF Given
<1>8. Given' = Given
  BY <1>7 DEF Given
<1>. QED
  BY <1>6, <1>8, MadeIs DEF Kinds

-----------------------------------------------------------------------------
(* A request begins to owe an entry, or ends to *)
LEMMA QuietBalance ==
    ASSUME Balanced, \A k \in Kinds : Logging(k)' = Logging(k) /\ Made'[k] = Made[k],
           trail' = trail, lost' = lost
    PROVE  Balanced'
BY DEF Balanced

LEMMA BeginBalance ==
    ASSUME IInv, Balanced, NEW k0 \in Kinds, NEW r, r \notin Logging(k0),
           Logging(k0)' = Logging(k0) \cup {r}, Made'[k0] = Made[k0] + 1,
           \A k \in Kinds \ {k0} : Logging(k)' = Logging(k) /\ Made'[k] = Made[k],
           trail' = trail, lost' = lost
    PROVE  Balanced'
<1>1. trail \in [Kinds -> Nat] /\ lost \in [Kinds -> Nat]
  BY DEF IInv, TypeOK, Trail
<1>2. IsFiniteSet(Logging(k0)) /\ trail[k0] + Cardinality(Logging(k0)) + lost[k0] = Made[k0]
  BY DEF Balanced
<1>. DEFINE L == Logging(k0)
<1>3. Cardinality(L) \in Nat
  BY <1>2, FS_CardinalityType
<1>4. IsFiniteSet(L \cup {r}) /\ Cardinality(L \cup {r}) = Cardinality(L) + 1
  BY <1>2, FS_AddElement
<1>5. trail'[k0] + Cardinality(L') + lost'[k0] = Made'[k0] /\ IsFiniteSet(L')
  <2>1. L' = L \cup {r}
    OBVIOUS
  <2>. HIDE DEF L
  <2>2. trail[k0] + Cardinality(L) + lost[k0] = Made[k0]
    BY <1>2 DEF L
  <2>. QED
    BY <1>1, <1>3, <1>4, <2>1, <2>2
<1>6. \A k \in Kinds \ {k0} : /\ IsFiniteSet(Logging(k)')
                              /\ trail'[k] + Cardinality(Logging(k)') + lost'[k] = Made'[k]
  BY DEF Balanced
<1>. QED
  BY <1>5, <1>6 DEF Balanced

LEMMA EndBalance ==
    ASSUME IInv, Balanced, NEW k0 \in Kinds, NEW r, r \in Logging(k0),
           Logging(k0)' = Logging(k0) \ {r},
           \A k \in Kinds \ {k0} : Logging(k)' = Logging(k),
           \A k \in Kinds : Made'[k] = Made[k],
           \/ trail' = [trail EXCEPT ![k0] = @ + 1] /\ lost' = lost
           \/ lost' = [lost EXCEPT ![k0] = @ + 1] /\ trail' = trail
    PROVE  Balanced'
<1>1. trail \in [Kinds -> Nat] /\ lost \in [Kinds -> Nat]
  BY DEF IInv, TypeOK, Trail
<1>2. IsFiniteSet(Logging(k0)) /\ trail[k0] + Cardinality(Logging(k0)) + lost[k0] = Made[k0]
  BY DEF Balanced
<1>. DEFINE L == Logging(k0)
<1>3. Cardinality(L) \in Nat
  BY <1>2, FS_CardinalityType
<1>4. IsFiniteSet(L \ {r}) /\ Cardinality(L \ {r}) = Cardinality(L) - 1
  BY <1>2, FS_RemoveElement
<1>5. trail'[k0] + lost'[k0] = trail[k0] + lost[k0] + 1 /\ trail'[k0] \in Nat /\ lost'[k0] \in Nat
  BY <1>1
<1>6. trail'[k0] + Cardinality(L') + lost'[k0] = Made'[k0] /\ IsFiniteSet(L')
  <2>1. L' = L \ {r}
    OBVIOUS
  <2>. HIDE DEF L
  <2>2. trail[k0] + Cardinality(L) + lost[k0] = Made[k0] /\ Made'[k0] = Made[k0]
    BY <1>2 DEF L
  <2>3. trail[k0] \in Nat /\ lost[k0] \in Nat
    BY <1>1
  <2>4. Cardinality(L') = Cardinality(L) - 1 /\ IsFiniteSet(L')
    BY <1>4, <2>1
  <2>. QED
    BY <1>3, <1>5, <2>2, <2>3, <2>4
<1>7. \A k \in Kinds \ {k0} : trail'[k] = trail[k] /\ lost'[k] = lost[k]
  BY <1>1
<1>8. \A k \in Kinds \ {k0} : /\ IsFiniteSet(Logging(k)')
                              /\ trail'[k] + Cardinality(Logging(k)') + lost'[k] = Made'[k]
  BY <1>7 DEF Balanced
<1>. QED
  BY <1>6, <1>8 DEF Balanced

(* Which requests owe an entry, when one of them moves *)
Others(r) == \A q \in Requests : q # r => req'[q].pc = req[q].pc /\ req'[q].op = req[q].op
                                          /\ req'[q].role = req[q].role

LEMMA LoggingMoves ==
    ASSUME NEW r \in Requests, Others(r), NEW k
    PROVE  /\ ~At(r, "log") /\ req'[r].pc # "log" => Logging(k)' = Logging(k)
           /\ ~At(r, "log") /\ req'[r].pc = "log" /\ KindOf[req'[r].op] = k
                => Logging(k)' = Logging(k) \cup {r} /\ r \notin Logging(k)
           /\ ~At(r, "log") /\ req'[r].pc = "log" /\ KindOf[req'[r].op] # k
                => Logging(k)' = Logging(k)
           /\ At(r, "log") /\ req'[r].pc # "log" /\ KindOf[req[r].op] = k
                => Logging(k)' = Logging(k) \ {r} /\ r \in Logging(k)
           /\ At(r, "log") /\ req'[r].pc # "log" /\ KindOf[req[r].op] # k
                => Logging(k)' = Logging(k)
<1>1. \A q \in Requests : q # r => (q \in Logging(k)' <=> q \in Logging(k))
  BY DEF Others, Logging, At
<1>2. /\ r \in Logging(k) <=> At(r, "log") /\ KindOf[req[r].op] = k
      /\ r \in Logging(k)' <=> req'[r].pc = "log" /\ KindOf[req'[r].op] = k
  BY DEF Logging, At
<1>3. Logging(k) \subseteq Requests /\ Logging(k)' \subseteq Requests
  BY DEF Logging
<1>. DEFINE A == Logging(k)
            B == Logging(k)'
<1>4. /\ \A q \in Requests : q # r => (q \in B <=> q \in A)
      /\ A \subseteq Requests /\ B \subseteq Requests
  BY <1>1, <1>3
<1>5. /\ (r \in B <=> r \in A) => B = A
      /\ r \in B /\ r \notin A => B = A \cup {r}
      /\ r \notin B /\ r \in A => B = A \ {r}
  <2>. HIDE DEF A, B
  <2>. QED
    BY <1>4
<1>. QED
  BY <1>2, <1>5

-----------------------------------------------------------------------------
(* Steps after which as much is owed as before *)
LEMMA QuietKeeps ==
    ASSUME IInv, Trailed, NEW r \in Requests, Others(r), ~At(r, "log"), req'[r].pc # "log",
           req'[r].op = "grant" => req'[r].role # "none",
           share' = share, comments' = comments, trail' = trail, lost' = lost
    PROVE  Trailed'
<1>1. Balanced'
  <2>1. \A k \in Kinds : Logging(k)' = Logging(k) /\ Made'[k] = Made[k]
    BY LoggingMoves, MadeStays
  <2>. QED
    BY <2>1, QuietBalance DEF Trailed
<1>2. RolesOK'
  BY DEF Trailed, RolesOK, Others
<1>. QED
  BY <1>1, <1>2 DEF Trailed

LEMMA StillKeeps ==
    ASSUME Trailed, req' = req, share' = share, comments' = comments,
           trail' = trail, lost' = lost
    PROVE  Trailed'
<1>1. Balanced'
  <2>1. \A k \in Kinds : Logging(k)' = Logging(k)
    BY DEF Logging, At
  <2>. QED
    BY <2>1, MadeStays, QuietBalance DEF Trailed
<1>2. RolesOK'
  BY DEF Trailed, RolesOK
<1>. QED
  BY <1>1, <1>2 DEF Trailed

LEMMA DoneMoves ==
    ASSUME IInv, NEW r \in Requests, Done(r)
    PROVE  Others(r) /\ req'[r].pc = "idle" /\ req'[r].op = "idle"
BY DoneEffect, IdleOK DEF IInv, Others

LEMMA DoneQuiet ==
    ASSUME IInv, Trailed, NEW r \in Requests, Done(r), ~At(r, "log"),
           share' = share, comments' = comments, trail' = trail, lost' = lost
    PROVE  Trailed'
BY DoneMoves, QuietKeeps

LEMMA LoadTaskTrail ==
    ASSUME IInv, Trailed, NEW r \in Requests, NEW u \in Users, NEW q \in Request,
           LoadTask(r, u, q), q.op = "grant" => q.role # "none"
    PROVE  Trailed'
<1>. DEFINE pc == IF u = Owner THEN "act" ELSE "share"
            d == [q EXCEPT !.who = u, !.pc = pc]
<1>1. d \in Request /\ d.pc = pc /\ d.op = q.op /\ d.role = q.role
  BY DEF Request
<1>2. req' = [req EXCEPT ![r] = d] /\ At(r, "idle")
  BY DEF LoadTask
<1>3. share' = share /\ comments' = comments /\ trail' = trail /\ lost' = lost
  BY DEF LoadTask, collab, history
<1>4. pc # "log"
  OBVIOUS
<1>. HIDE DEF d, pc
<1>5. req'[r] = d /\ \A p \in Requests : p # r => req'[p] = req[p]
  BY <1>1, <1>2 DEF IInv, TypeOK
<1>6. ~At(r, "log")
  BY <1>2 DEF At
<1>. QED
  BY <1>1, <1>3, <1>4, <1>5, <1>6, QuietKeeps DEF Others

LEMMA ArrivesTrail ==
    ASSUME IInv, Trailed, NEW r \in Requests, NEW u \in Users,
           \/ \E m \in Members : \/ \E role \in {"viewer", "editor"} : createShare(r, u, m, role)
                                 \/ \E n \in 1..share[m].n : revokeShare(r, u, m, n)
           \/ listShares(r, u) \/ listComments(r, u) \/ getActivity(r, u)
           \/ addComment(r, u) \/ updateTask(r, u)
    PROVE  Trailed'
<1>1. ASSUME NEW m \in Members, NEW role \in {"viewer", "editor"}, createShare(r, u, m, role)
      PROVE  Trailed'
  <2>. DEFINE q == [Asks("grant") EXCEPT !.to = m, !.role = role]
  <2>1. q \in Request /\ q.role = role
    <3>. DEFINE a == Asks("grant")
    <3>1. a \in Request
      BY AsksOK DEF Ops
    <3>2. m \in Users /\ role \in Role
      BY DEF Users, Role
    <3>3. q = [a EXCEPT !.to = m, !.role = role]
      OBVIOUS
    <3>. HIDE DEF a, q
    <3>. QED
      BY <3>1, <3>2, <3>3 DEF Request
  <2>2. LoadTask(r, u, q)
    BY <1>1 DEF createShare
  <2>. HIDE DEF q
  <2>. QED
    BY <2>1, <2>2, LoadTaskTrail
<1>2. ASSUME NEW m \in Members, NEW n \in 1..share[m].n, revokeShare(r, u, m, n)
      PROVE  Trailed'
  <2>. DEFINE q == [Asks("revoke") EXCEPT !.to = m, !.n = n]
  <2>1. share[m].n \in Nat
    BY DEF IInv, TypeOK, Share
  <2>2. n \in Nat
    BY <2>1
  <2>3. q \in Request /\ q.op = "revoke"
    BY <2>2 DEF Asks, Idle, Request, Users, Role, Ops
  <2>4. LoadTask(r, u, q)
    BY <1>2 DEF revokeShare
  <2>. HIDE DEF q
  <2>. QED
    BY <2>3, <2>4, LoadTaskTrail
<1>3. ASSUME NEW op \in {"shares", "look", "comment", "update"}, LoadTask(r, u, Asks(op))
      PROVE  Trailed'
  <2>1. op \in Ops /\ op # "grant"
    BY DEF Ops
  <2>. QED
    BY <1>3, <2>1, AsksOK, LoadTaskTrail
<1>. QED
  BY <1>1, <1>2, <1>3 DEF listShares, listComments, getActivity, addComment, updateTask

LEMMA GotoMoves ==
    ASSUME IInv, NEW r \in Requests, NEW pc \in {"share", "act", "log", "del"}, Goto(r, pc)
    PROVE  /\ Others(r) /\ req'[r].pc = pc /\ req'[r].op = req[r].op
           /\ req'[r].role = req[r].role
BY GotoEffect DEF IInv, Others

LEMMA LoadShareTrail ==
    ASSUME IInv, Trailed, NEW r \in Requests, LoadShare(r) PROVE Trailed'
<1>1. share' = share /\ comments' = comments /\ trail' = trail /\ lost' = lost
  BY DEF LoadShare, collab, history
<1>2. ~At(r, "log")
  BY DEF LoadShare, At
<1>3. CASE Done(r)
  BY <1>1, <1>2, <1>3, DoneQuiet
<1>4. CASE Goto(r, "act")
  <2>1. req[r].op = "grant" => req[r].role # "none"
    BY DEF Trailed, RolesOK
  <2>. QED
    BY <1>1, <1>2, <1>4, <2>1, GotoMoves, QuietKeeps
<1>. QED
  BY <1>3, <1>4 DEF LoadShare

LEMMA CacheTrail ==
    ASSUME IInv, Trailed, NEW r \in Requests,
           \/ Answer(r) \/ Update(r) \/ InvalidateStatsCache(r) \/ SetCached(r)
    PROVE  Trailed'
<1>1. share' = share /\ comments' = comments /\ trail' = trail /\ lost' = lost /\ Done(r)
  BY DEF Answer, Update, InvalidateStatsCache, SetCached, collab, history
<1>2. ~At(r, "log")
  BY DEF Answer, Update, InvalidateStatsCache, SetCached, Acting, At
<1>. QED
  BY <1>1, <1>2, DoneQuiet

LEMMA StatsTrail ==
    ASSUME IInv, Trailed, NEW r \in Requests, getStats(r) \/ Compute(r) PROVE Trailed'
<1>1. share' = share /\ comments' = comments /\ trail' = trail /\ lost' = lost
  BY DEF getStats, Compute, collab, history
<1>2. ~At(r, "log")
  BY DEF getStats, Compute, At
<1>3. CASE getStats(r)
  <2>. DEFINE d == [Asks("stats") EXCEPT !.pc = "compute"]
  <2>1. req' = [req EXCEPT ![r] = d]
    BY <1>3 DEF getStats
  <2>2. d.pc = "compute" /\ d.op = "stats"
    BY DEF Asks, Idle
  <2>. HIDE DEF d
  <2>3. req'[r] = d /\ \A q \in Requests : q # r => req'[q] = req[q]
    BY <2>1 DEF IInv, TypeOK
  <2>. QED
    BY <1>1, <1>2, <2>2, <2>3, QuietKeeps DEF Others
<1>4. CASE Compute(r)
  <2>. DEFINE d == [req[r] EXCEPT !.pc = "set", !.val = ver]
  <2>1. req' = [req EXCEPT ![r] = d]
    BY <1>4 DEF Compute
  <2>2. req[r] \in Request
    BY DEF IInv, TypeOK
  <2>3. d.pc = "set" /\ d.op = req[r].op /\ d.role = req[r].role
    BY <2>2 DEF Request
  <2>. HIDE DEF d
  <2>4. req'[r] = d /\ \A q \in Requests : q # r => req'[q] = req[q]
    BY <2>1 DEF IInv, TypeOK
  <2>5. req[r].op = "grant" => req[r].role # "none"
    BY DEF Trailed, RolesOK
  <2>. QED
    BY <1>1, <1>2, <2>3, <2>4, <2>5, QuietKeeps DEF Others
<1>. QED
  BY <1>3, <1>4

LEMMA ChangeTrail ==
    ASSUME IInv, Trailed, NEW r \in Requests, NEW hit, Change(r, hit) PROVE Trailed'
<1>. DEFINE d == [Idle EXCEPT !.op = "write", !.pc = "del", !.val = ver + 1]
<1>1. share' = share /\ comments' = comments /\ trail' = trail /\ lost' = lost
  BY DEF Change, collab, history
<1>2. ~At(r, "log")
  BY DEF Change, At
<1>3. d \in Request /\ d.pc = "del" /\ d.op = "write"
  <2>1. ver + 1 \in Nat /\ "write" \in Ops
    BY DEF IInv, TypeOK, Ops
  <2>. DEFINE i == Idle
  <2>2. i \in Request /\ d = [i EXCEPT !.op = "write", !.pc = "del", !.val = ver + 1]
    BY IdleOK
  <2>. HIDE DEF d, i
  <2>. QED
    BY <2>1, <2>2 DEF Request
<1>4. Marking(r, d, hit)
  BY DEF Change, Marking
<1>. HIDE DEF d
<1>5. Others(r) /\ req'[r] = d
  BY <1>3, <1>4, Marked DEF Others
<1>. QED
  BY <1>1, <1>2, <1>3, <1>5, QuietKeeps

LEMMA WritesTrail ==
    ASSUME IInv, Trailed, NEW r \in Requests,
           createTask(r) \/ importTasks(r) \/ deleteTask(r) \/ bulkTasks(r)
    PROVE  Trailed'
<1>1. Change(r, {}) \/ Change(r, Loaded)
  BY DEF createTask, importTasks, deleteTask, bulkTasks
<1>. QED
  BY <1>1, ChangeTrail

-----------------------------------------------------------------------------
(* What is done and then told of *)
LEMMA GrantTrail ==
    ASSUME IInv, Trailed, NEW r \in Requests, Grant(r) PROVE Trailed'
<1>. DEFINE m == req[r].to
<1>1. comments' = comments /\ trail' = trail /\ lost' = lost
  BY DEF Grant, history
<1>2. /\ m \in Members /\ req[r].role \in Role /\ req[r].role # "none" /\ req[r].op = "grant"
      /\ share \in [Members -> Share] /\ ~At(r, "log")
  BY DEF Grant, Acting, Doing, At, IInv, NamesOK, TypeOK, Request, Trailed, RolesOK
<1>3. CASE share' = share /\ Done(r)
  BY <1>1, <1>2, <1>3, DoneQuiet
<1>4. CASE /\ share[m].role = "none" /\ Goto(r, "log")
           /\ share' = [share EXCEPT ![m].role = req[r].role, ![m].n = @ + 1]
  <2>. DEFINE d == [share[m] EXCEPT !.role = req[r].role, !.n = @ + 1]
  <2>1. share[m] \in Share /\ share[m].n \in Nat
    BY <1>2 DEF Share
  <2>2. d \in Share
    BY <1>2, <2>1, GivenEffect
  <2>3. share' = [share EXCEPT ![m] = d]
    BY <1>4
  <2>4. d.role = req[r].role /\ d.n = share[m].n + 1
    BY <2>1 DEF Share
  <2>. HIDE DEF d, m
  <2>5. /\ Others(r) /\ req'[r].pc = "log" /\ req'[r].op = "grant"
        /\ req'[r].role = req[r].role
    BY <1>2, <1>4, GotoMoves
  <2>6. /\ Made'["granted"] = Made["granted"] + 1
        /\ \A k \in Kinds \ {"granted"} : Made'[k] = Made[k]
    BY <1>1, <1>2, <1>4, <2>2, <2>3, <2>4, MadeGrant DEF Trailed
  <2>7. /\ Logging("granted")' = Logging("granted") \cup {r} /\ r \notin Logging("granted")
        /\ \A k \in Kinds \ {"granted"} : Logging(k)' = Logging(k)
    <3>1. KindOf["grant"] = "granted"
      BY DEF KindOf
    <3>. QED
      BY <1>2, <2>5, <3>1, LoggingMoves
  <2>8. Balanced'
    <3>1. "granted" \in Kinds
      BY DEF Kinds
    <3>. QED
      BY <1>1, <2>6, <2>7, <3>1, BeginBalance DEF Trailed
  <2>9. RolesOK'
    <3>1. share'[m] = d /\ \A x \in Members \ {m} : share'[x] = share[x]
      BY <1>2, <2>3
    <3>2. d.n >= 1
      BY <2>1, <2>4
    <3>. QED
      BY <1>2, <2>5, <3>1, <3>2 DEF Trailed, RolesOK, Others
  <2>. QED
    BY <2>8, <2>9 DEF Trailed
<1>. QED
  BY <1>3, <1>4 DEF Grant

LEMMA RevokeTrail ==
    ASSUME IInv, Trailed, NEW r \in Requests, Revoke(r) PROVE Trailed'
<1>. DEFINE m == req[r].to
            hit == {q \in Requests : At(q, "act") /\ req[q].who = m}
<1>1. comments' = comments /\ trail' = trail /\ lost' = lost
  BY DEF Revoke, history
<1>2. /\ m \in Members /\ req[r].op = "revoke" /\ req[r] \in Request
      /\ share \in [Members -> Share] /\ ~At(r, "log")
  BY DEF Revoke, Acting, Doing, At, IInv, NamesOK, TypeOK
<1>3. CASE share' = share /\ Done(r)
  BY <1>1, <1>2, <1>3, DoneQuiet
<1>4. CASE /\ share[m].role # "none"
           /\ share' = [share EXCEPT ![m].role = "none"] /\ Step(r, "log", hit)
  <2>. DEFINE d == [share[m] EXCEPT !.role = "none"]
              i == [req[r] EXCEPT !.pc = "log"]
  <2>1. d \in Share /\ d.role = "none" /\ d.n = share[m].n
    BY <1>2 DEF Share, Role
  <2>2. i \in Request /\ i.pc = "log" /\ i.op = "revoke"
    BY <1>2 DEF Request
  <2>3. share' = [share EXCEPT ![m] = d]
    BY <1>4
  <2>4. Marking(r, i, hit)
    BY <1>4 DEF Step, Marking
  <2>. HIDE DEF d, i, m, hit
  <2>5. Others(r) /\ req'[r] = i
    BY <2>2, <2>4, Marked DEF Others
  <2>6. /\ Made'["revoked"] = Made["revoked"] + 1
        /\ \A k \in Kinds \ {"revoked"} : Made'[k] = Made[k]
    BY <1>1, <1>2, <1>4, <2>1, <2>3, MadeRevoke DEF Trailed
  <2>7. /\ Logging("revoked")' = Logging("revoked") \cup {r} /\ r \notin Logging("revoked")
        /\ \A k \in Kinds \ {"revoked"} : Logging(k)' = Logging(k)
    <3>1. KindOf["revoke"] = "revoked"
      BY DEF KindOf
    <3>. QED
      BY <1>2, <2>2, <2>5, <3>1, LoggingMoves
  <2>8. Balanced'
    <3>1. "revoked" \in Kinds
      BY DEF Kinds
    <3>. QED
      BY <1>1, <2>6, <2>7, <3>1, BeginBalance DEF Trailed
  <2>9. RolesOK'
    <3>1. share'[m] = d /\ \A x \in Members \ {m} : share'[x] = share[x]
      BY <1>2, <2>3
    <3>. QED
      BY <2>1, <2>2, <2>5, <3>1 DEF Trailed, RolesOK, Others
  <2>. QED
    BY <2>8, <2>9 DEF Trailed
<1>. QED
  BY <1>3, <1>4 DEF Revoke

LEMMA CommentTrail ==
    ASSUME IInv, Trailed, NEW r \in Requests, AddComment(r) PROVE Trailed'
<1>1. share' = share /\ comments' = comments + 1 /\ trail' = trail /\ lost' = lost
  BY DEF AddComment, history
<1>2. req[r].op = "comment" /\ ~At(r, "log") /\ Goto(r, "log")
  BY DEF AddComment, Acting, Doing, At
<1>3. Others(r) /\ req'[r].pc = "log" /\ req'[r].op = "comment"
  BY <1>2, GotoMoves
<1>4. /\ Logging("commented")' = Logging("commented") \cup {r} /\ r \notin Logging("commented")
      /\ \A k \in Kinds \ {"commented"} : Logging(k)' = Logging(k)
  <2>1. KindOf["comment"] = "commented"
    BY DEF KindOf
  <2>. QED
    BY <1>2, <1>3, <2>1, LoggingMoves
<1>5. Balanced'
  <2>1. "commented" \in Kinds
    BY DEF Kinds
  <2>. QED
    BY <1>1, <1>4, <2>1, MadeComment, BeginBalance DEF Trailed
<1>6. RolesOK'
  BY <1>1, <1>3 DEF Trailed, RolesOK, Others
<1>. QED
  BY <1>5, <1>6 DEF Trailed

(* ... and the entry, or the fault that keeps it out *)
LEMMA EndTrail ==
    ASSUME IInv, Trailed, NEW r \in Requests, At(r, "log"), Done(r),
           share' = share, comments' = comments,
           LET k == KindOf[req[r].op] IN
           \/ trail' = [trail EXCEPT ![k] = @ + 1] /\ lost' = lost
           \/ lost' = [lost EXCEPT ![k] = @ + 1] /\ trail' = trail
    PROVE  Trailed'
<1>0. KindOf[req[r].op] \in Kinds
  BY DEF IInv, TypeOK, KindOf, Kinds
<1>1. PICK k0 \in Kinds : k0 = KindOf[req[r].op]
  BY <1>0
<1>2. Others(r) /\ req'[r].pc = "idle" /\ req'[r].op = "idle"
  BY DoneMoves
<1>3. /\ Logging(k0)' = Logging(k0) \ {r} /\ r \in Logging(k0)
      /\ \A k \in Kinds \ {k0} : Logging(k)' = Logging(k)
  BY <1>1, <1>2, LoggingMoves
<1>4. /\ \/ trail' = [trail EXCEPT ![k0] = @ + 1] /\ lost' = lost
         \/ lost' = [lost EXCEPT ![k0] = @ + 1] /\ trail' = trail
  BY <1>1
<1>5. Balanced'
  BY <1>1, <1>3, <1>4, MadeStays, EndBalance DEF Trailed
<1>6. RolesOK'
  BY <1>2 DEF Trailed, RolesOK, Others
<1>. QED
  BY <1>5, <1>6 DEF Trailed

LEMMA ActivityTrail ==
    ASSUME IInv, Trailed, NEW r \in Requests, RecordActivity(r) PROVE Trailed'
<1>1. /\ share' = share /\ comments' = comments /\ lost' = lost /\ Done(r) /\ At(r, "log")
      /\ trail' = [trail EXCEPT ![KindOf[req[r].op]] = @ + 1]
  BY DEF RecordActivity, history
<1>. QED
  BY <1>1, EndTrail

LEMMA FailTrail ==
    ASSUME IInv, Trailed, NEW r \in Requests, Fail(r) PROVE Trailed'
<1>1. share' = share /\ comments' = comments /\ trail' = trail /\ Done(r)
  BY DEF Fail, collab
<1>2. CASE At(r, "log")
  <2>1. lost' = [lost EXCEPT ![KindOf[req[r].op]] = @ + 1]
    BY <1>2 DEF Fail
  <2>. QED
    BY <1>1, <1>2, <2>1, EndTrail
<1>3. CASE ~At(r, "log")
  <2>1. lost' = lost
    BY <1>3 DEF Fail
  <2>. QED
    BY <1>1, <1>3, <2>1, DoneQuiet
<1>. QED
  BY <1>2, <1>3

-----------------------------------------------------------------------------
LEMMA InitTrail == Init => Trailed
<1>. SUFFICES ASSUME Init PROVE Trailed
  OBVIOUS
<1>1. RolesOK
  BY IdleOK DEF Init, RolesOK
<1>2. \A k \in Kinds : Logging(k) = {}
  BY IdleOK DEF Init, Logging, At
<1>3. \A k \in Kinds : trail[k] = 0 /\ lost[k] = 0
  BY DEF Init
<1>4. comments = 0 /\ \A m \in Members : share[m].role = "none" /\ share[m].n = 0
  BY DEF Init
<1>5. SumFunction(Given) = 0 /\ SumFunction(Taken) = 0
  <2>1. \A m \in Members : Given[m] = 0 /\ Taken[m] = 0
    BY <1>4 DEF Given, Taken
  <2>2. Given \in [Members -> Nat] /\ Taken \in [Members -> Nat]
    BY InitInv, <1>1, SharesAdd
  <2>. QED
    BY <2>1, <2>2, SharedTasksAssumption, SumZero
<1>6. \A k \in Kinds : Made[k] = 0
  BY <1>4, <1>5, MadeIs DEF Kinds
<1>7. IsFiniteSet({}) /\ Cardinality({}) = 0
  BY FS_EmptySet
<1>8. Balanced
  BY <1>2, <1>3, <1>6, <1>7 DEF Balanced
<1>. QED
  BY <1>1, <1>8 DEF Trailed

LEMMA StepTrail == IInv /\ Trailed /\ [Next]_vars => Trailed'
<1>. SUFFICES ASSUME IInv, Trailed, [Next]_vars PROVE Trailed'
  OBVIOUS
<1>1. CASE clearTrash \/ Expire \/ UNCHANGED vars
  <2>1. /\ req' = req /\ share' = share /\ comments' = comments /\ trail' = trail
        /\ lost' = lost
    BY <1>1 DEF clearTrash, Expire, vars, collab, history
  <2>. QED
    BY <2>1, StillKeeps
<1>2. ASSUME NEW r \in Requests, Arrival(r) PROVE Trailed'
  BY <1>2, ArrivesTrail, StatsTrail, WritesTrail DEF Arrival
<1>3. ASSUME NEW r \in Requests, Continue(r) PROVE Trailed'
  BY <1>3, LoadShareTrail, GrantTrail, RevokeTrail, CommentTrail, ActivityTrail, CacheTrail,
     StatsTrail DEF Continue
<1>4. ASSUME NEW r \in Requests, Fail(r) PROVE Trailed'
  BY <1>4, FailTrail
<1>. QED
  BY <1>1, <1>2, <1>3, <1>4 DEF Next

LEMMA TrailInvariance == Spec => []Trailed
<1>1. IInv /\ Trailed /\ [Next]_vars => Trailed'
  BY StepTrail
<1>. QED
  BY <1>1, InitTrail, Invariance, PTL DEF Spec

(* The activity trail tells of every share granted, share revoked and        *)
(* comment made once and of nothing else, up to the entries under way and    *)
(* those a fault kept out, for any number of members and requests.           *)
THEOREM TrailIsComplete == Spec => []TrailAccounts
BY TrailedEnough, TrailInvariance, PTL
=============================================================================
