------------------------------ MODULE Accounts ------------------------------
(* Accounts, their roles, addresses and calendar feed URLs: the handlers of  *)
(* user.controller.ts and admin.controller.ts that write the User document,  *)
(* registration and verification in auth.controller.ts, and the feed token   *)
(* functions of auth.service.ts, behind protect and authorize.               *)
(*                                                                           *)
(* A request first passes protect, which loads the account and its role;     *)
(* its handler runs later, on whatever the collection holds then.  One       *)
(* command of a handler is one step.  Sessions and tokens of the accounts    *)
(* are the subject of Sessions.                                              *)
EXTENDS Naturals, FiniteSets

CONSTANTS
    Users,          \* account ids
    Admins,         \* accounts that were made administrators by hand
    Emails,         \* addresses
    NoUser, NoEmail,
    Requests,       \* requests in flight
    MaxChanges,     \* bound: registrations, new addresses and roles, feed tokens
    MaxFailures     \* bound: handlers that throw, and processes that die

ASSUME AccountsAssumption ==
    /\ Admins \subseteq Users
    /\ NoUser \notin Users /\ NoEmail \notin Emails
    /\ MaxChanges \in Nat /\ MaxFailures \in Nat

VARIABLES
    user,           \* the User collection
    links,          \* addresses a verification link was mailed to
    req,            \* local state of each request
    changes, failures,  \* changes and faults so far
    opened,         \* history: addresses a mailed link was opened from
    shown,          \* history: feed tokens answered since the last rotation
    burnt,          \* history: feed tokens answered or stored before a rotation
    crossed,        \* history: accounts whose feed token was made twice at once
    raced,          \* history: a role was used by one who had lost it
    resigned        \* history: an administrator deleted the own account

vars == <<user, links, req, changes, failures, opened, shown, burnt, crossed, raced, resigned>>
feedHistory == <<shown, burnt, crossed>>
roleHistory == <<raced, resigned>>

-----------------------------------------------------------------------------
User == [st : {"absent", "present", "deleted"}, email : Emails \cup {NoEmail},
         emailVerified : BOOLEAN, admin : BOOLEAN, calendarFeedToken : Nat]

Ops == {"mail", "email", "role", "delete", "leave", "feed", "save", "rotate"}
Request == [op : Ops \cup {"idle"}, who : Users \cup {NoUser}, whom : Users \cup {NoUser},
            email : Emails \cup {NoEmail}, admin : BOOLEAN]
Idle == [op |-> "idle", who |-> NoUser, whom |-> NoUser, email |-> NoEmail, admin |-> FALSE]

Present(u) == user[u].st = "present"
Taken(e)   == {u \in Users : Present(u) /\ user[u].email = e}
Doing(r, op) == req[r].op = op
Done(r)    == req' = [req EXCEPT ![r] = Idle]
Counted    == changes < MaxChanges /\ changes' = changes + 1

(* The administrators are there from the start, one address each. *)
Init ==
    /\ \E e \in [Admins -> Emails] :
         /\ \A u, v \in Admins : e[u] = e[v] => u = v
         /\ user = [u \in Users |->
                      [st |-> IF u \in Admins THEN "present" ELSE "absent",
                       email |-> IF u \in Admins THEN e[u] ELSE NoEmail,
                       emailVerified |-> FALSE, admin |-> u \in Admins,
                       calendarFeedToken |-> 0]]
    /\ links = {} /\ opened = {}
    /\ req = [r \in Requests |-> Idle]
    /\ changes = 0 /\ failures = 0
    /\ shown = [u \in Users |-> {}] /\ burnt = [u \in Users |-> {}]
    /\ crossed = {} /\ raced = FALSE /\ resigned = FALSE

-----------------------------------------------------------------------------
(* Seeded fault: the index on the address is missing. *)
register_AnyEmail(r, u, e) ==
    /\ Doing(r, "idle") /\ user[u].st = "absent"
    /\ Counted
    /\ user' = [user EXCEPT ![u].st = "present", ![u].email = e]
    /\ req' = [req EXCEPT ![r] = [Idle EXCEPT !.op = "mail", !.who = u, !.email = e]]
    /\ UNCHANGED <<links, failures, opened, feedHistory, roleHistory>>

(* register: User.create, refused by the unique indexes ... *)
register(r, u, e) ==
    /\ Doing(r, "idle") /\ user[u].st = "absent" /\ Taken(e) = {}
    /\ Counted
    /\ user' = [user EXCEPT ![u].st = "present", ![u].email = e]
    /\ req' = [req EXCEPT ![r] = [Idle EXCEPT !.op = "mail", !.who = u, !.email = e]]
    /\ UNCHANGED <<links, failures, opened, feedHistory, roleHistory>>

(* ... and then the link, to the address the account was registered with *)
SendVerificationEmail(r) ==
    /\ Doing(r, "mail")
    /\ links' = links \cup {req[r].email}
    /\ Done(r)
    /\ UNCHANGED <<user, changes, failures, opened, feedHistory, roleHistory>>

(* verifyEmail: a link names an address, not an account *)
verifyEmail(e) ==
    /\ e \in links
    /\ \E u \in Taken(e) :
         /\ ~user[u].emailVerified
         /\ user' = [user EXCEPT ![u].emailVerified = TRUE]
    /\ opened' = opened \cup {e}
    /\ UNCHANGED <<links, req, changes, failures, feedHistory, roleHistory>>

-----------------------------------------------------------------------------
(* protect, and authorize("admin") in front of the handlers of roles *)
AdminOnly == {"role", "delete"}
Protect(r, q) ==
    /\ Doing(r, "idle") /\ Present(q.who)
    /\ q.op \in AdminOnly => user[q.who].admin
    /\ req' = [req EXCEPT ![r] = q]
    /\ UNCHANGED <<user, links, changes, failures, opened, feedHistory, roleHistory>>

(* Seeded fault: the own account is not refused. *)
Inputs_Self(u) == {[Idle EXCEPT !.op = "role", !.who = u, !.whom = v] : v \in Users}

(* The requests of u, and their inputs; nobody may name the own account to   *)
(* updateUserRole or deleteUser.                                             *)
Of(u, op) == [Idle EXCEPT !.op = op, !.who = u]
Inputs(u) ==
    {Of(u, op) : op \in {"leave", "feed", "rotate"}}
    \cup {[Of(u, "email") EXCEPT !.email = e] : e \in Emails}
    \cup [op : {"role"}, who : {u}, whom : Users \ {u}, email : {NoEmail}, admin : BOOLEAN]
    \cup {[Of(u, "delete") EXCEPT !.whom = v] : v \in Users \ {u}}

(* Seeded fault: the new address keeps the old one's mark. *)
updateMe_KeepsMark(r) ==
    LET u == req[r].who IN
    /\ Doing(r, "email")
    /\ Present(u) /\ Taken(req[r].email) \subseteq {u} /\ Counted
    /\ user' = [user EXCEPT ![u].email = req[r].email]
    /\ Done(r)
    /\ UNCHANGED <<links, failures, opened, feedHistory, roleHistory>>

(* updateMe with an address, be it the same: no link is mailed *)
updateMe(r) ==
    LET u == req[r].who IN
    /\ Doing(r, "email")
    /\ IF Present(u) /\ Taken(req[r].email) \subseteq {u}
       THEN Counted /\ user' = [user EXCEPT ![u].email = req[r].email, ![u].emailVerified = FALSE]
       ELSE UNCHANGED <<user, changes>>
    /\ Done(r)
    /\ UNCHANGED <<links, failures, opened, feedHistory, roleHistory>>

(* updateUserRole *)
updateUserRole(r) ==
    LET v == req[r].whom IN
    /\ Doing(r, "role")
    /\ IF Present(v)
       THEN /\ Counted /\ user' = [user EXCEPT ![v].admin = req[r].admin]
            /\ raced' = (raced \/ ~Present(req[r].who) \/ ~user[req[r].who].admin)
       ELSE UNCHANGED <<user, changes, raced>>
    /\ Done(r)
    /\ UNCHANGED <<links, failures, opened, feedHistory, resigned>>

(* deleteUser, up to the removal of tasks and tokens *)
deleteUser(r) ==
    LET v == req[r].whom IN
    /\ Doing(r, "delete")
    /\ IF Present(v)
       THEN /\ user' = [user EXCEPT ![v].st = "deleted"]
            /\ raced' = (raced \/ ~Present(req[r].who) \/ ~user[req[r].who].admin)
       ELSE UNCHANGED <<user, raced>>
    /\ Done(r)
    /\ UNCHANGED <<links, changes, failures, opened, feedHistory, resigned>>

(* deleteMe: anyone may leave *)
deleteMe(r) ==
    LET u == req[r].who IN
    /\ Doing(r, "leave")
    /\ user' = [user EXCEPT ![u].st = IF Present(u) THEN "deleted" ELSE @]
    /\ resigned' = (resigned \/ user[u].admin)
    /\ Done(r)
    /\ UNCHANGED <<links, changes, failures, opened, feedHistory, raced>>

-----------------------------------------------------------------------------
(* Feed tokens are numbered as they are drawn; 0 is null. *)
NewFeedToken == 1 + changes
Saving(u) == {r \in Requests : Doing(r, "save") /\ req[r].who = u}

(* Seeded fault: a token is made whether there is one or not. *)
ReadFeedToken_Always(r) ==
    /\ Doing(r, "feed")
    /\ req' = [req EXCEPT ![r].op = "save"]
    /\ crossed' = IF Saving(req[r].who) # {} THEN crossed \cup {req[r].who} ELSE crossed
    /\ UNCHANGED <<user, links, changes, failures, opened, shown, burnt, roleHistory>>

(* getOrCreateFeedToken: the read, which answers a token that is there *)
ReadFeedToken(r) ==
    LET u == req[r].who IN
    /\ Doing(r, "feed")
    /\ IF Present(u) /\ user[u].calendarFeedToken = 0
       THEN /\ req' = [req EXCEPT ![r].op = "save"]
            /\ crossed' = IF Saving(u) # {} THEN crossed \cup {u} ELSE crossed
            /\ UNCHANGED shown
       ELSE /\ Done(r)
            /\ shown' = [shown EXCEPT ![u] = IF Present(u) THEN @ \cup {user[u].calendarFeedToken} ELSE @]
            /\ UNCHANGED crossed
    /\ UNCHANGED <<user, links, changes, failures, opened, burnt, roleHistory>>

(* ... and the save of a new one; it throws when the account is gone *)
SaveFeedToken(r) ==
    LET u == req[r].who IN
    /\ Doing(r, "save")
    /\ IF Present(u)
       THEN /\ Counted
            /\ user' = [user EXCEPT ![u].calendarFeedToken = NewFeedToken]
            /\ shown' = [shown EXCEPT ![u] = @ \cup {NewFeedToken}]
       ELSE UNCHANGED <<user, changes, shown>>
    /\ Done(r)
    /\ UNCHANGED <<links, failures, opened, burnt, crossed, roleHistory>>

Rotated(u) ==
    /\ shown' = [shown EXCEPT ![u] = {NewFeedToken}]
    /\ burnt' = [burnt EXCEPT ![u] = @ \cup shown[u] \cup ({user[u].calendarFeedToken} \ {0})]
    /\ crossed' = IF Saving(u) # {} THEN crossed \cup {u} ELSE crossed \ {u}

(* Seeded fault: the new token is answered and not stored. *)
RotateFeedToken_Unsaved(r) ==
    /\ Doing(r, "rotate") /\ Present(req[r].who)
    /\ Counted /\ Rotated(req[r].who)
    /\ Done(r)
    /\ UNCHANGED <<user, links, failures, opened, roleHistory>>

(* rotateFeedToken: one updateOne *)
RotateFeedToken(r) ==
    LET u == req[r].who IN
    /\ Doing(r, "rotate")
    /\ IF Present(u)
       THEN /\ Counted /\ Rotated(u)
            /\ user' = [user EXCEPT ![u].calendarFeedToken = NewFeedToken]
       ELSE UNCHANGED <<user, changes, feedHistory>>
    /\ Done(r)
    /\ UNCHANGED <<links, failures, opened, roleHistory>>

(* A handler throws, or its process dies, between two commands. *)
Fail(r) ==
    /\ Doing(r, "mail") \/ Doing(r, "save")
    /\ failures < MaxFailures /\ failures' = failures + 1
    /\ Done(r)
    /\ UNCHANGED <<user, links, changes, opened, feedHistory, roleHistory>>

Handle(r) ==
    \/ SendVerificationEmail(r) \/ updateMe(r)
    \/ updateUserRole(r) \/ deleteUser(r) \/ deleteMe(r)
    \/ ReadFeedToken(r) \/ SaveFeedToken(r) \/ RotateFeedToken(r)

Next ==
    \/ \E r \in Requests :
         \/ \E u \in Users : \/ \E e \in Emails : register(r, u, e)
                             \/ \E q \in Inputs(u) : Protect(r, q)
         \/ Handle(r) \/ Fail(r)
    \/ \E e \in Emails : verifyEmail(e)

Spec == Init /\ [][Next]_vars

-----------------------------------------------------------------------------
(* Documents and requests keep their shape; addresses and feed tokens are    *)
(* unique among the accounts.                                                *)
TypeOK ==
    /\ user \in [Users -> User] /\ links \subseteq Emails /\ req \in [Requests -> Request]
    /\ changes \in Nat /\ failures \in Nat /\ opened \subseteq Emails
    /\ shown \in [Users -> SUBSET Nat] /\ burnt \in [Users -> SUBSET Nat]
    /\ crossed \subseteq Users /\ raced \in BOOLEAN /\ resigned \in BOOLEAN
    /\ \A e \in Emails : Cardinality(Taken(e)) <= 1
    /\ \A u, v \in Users : user[u].calendarFeedToken = user[v].calendarFeedToken
                           => u = v \/ user[u].calendarFeedToken = 0

(* An address counts as verified only if a link mailed to it was opened:     *)
(* neither a change of address nor another account's link carries the mark   *)
(* over.                                                                     *)
VerifiedWasMailed == \A u \in Users : Present(u) /\ user[u].emailVerified => user[u].email \in opened

(* The last administrator is never demoted or deleted by another, although   *)
(* the handlers only look at the own account, unless two of them did it to   *)
(* each other at the same time, or one left by deleting the own account.     *)
AdminRemains ==
    Admins # {} /\ ~raced /\ ~resigned => \E u \in Users : Present(u) /\ user[u].admin

(* A feed URL that was answered works until the next rotation, unless two    *)
(* requests made the account's first token at the same time.                 *)
FeedUrlLives ==
    \A u \in Users : Present(u) /\ u \notin crossed => shown[u] \subseteq {user[u].calendarFeedToken}

(* Once a rotation is answered no URL from before it works again.            *)
RotationKills == \A u \in Users : Present(u) => user[u].calendarFeedToken \notin burnt[u]

(* The feed's URL, over its first reads and its rotations. *)
FeedUrlSafety == FeedUrlLives /\ RotationKills
=============================================================================
