-------------------------- MODULE Accounts_proofs --------------------------
(* Proofs about accounts, their addresses, roles and feed URLs, for any      *)
(* number of accounts, addresses and requests.                               *)
EXTENDS Accounts, FiniteSetTheorems, TLAPS

Shape ==
    /\ user \in [Users -> User] /\ links \subseteq Emails /\ req \in [Requests -> Request]
    /\ changes \in Nat /\ failures \in Nat /\ opened \subseteq Emails
    /\ shown \in [Users -> SUBSET Nat] /\ burnt \in [Users -> SUBSET Nat]
    /\ crossed \subseteq Users /\ raced \in BOOLEAN /\ resigned \in BOOLEAN

(* the unique index on the address *)
EmailsUnique ==
    \A u, v \in Users : Present(u) /\ Present(v) /\ user[u].email = user[v].email => u = v

(* Feed tokens are numbered by the changes, so a new one is none of the old. *)
TokensUnique ==
    \A u \in Users :
        /\ user[u].calendarFeedToken <= changes
        /\ \A v \in Users : user[u].calendarFeedToken = user[v].calendarFeedToken
                            => u = v \/ user[u].calendarFeedToken = 0

FeedsKnown == \A u \in Users : shown[u] \subseteq 1..changes /\ burnt[u] \subseteq 1..changes

(* A request is made by an account that is or was there, and an              *)
(* administrator's names another account.                                    *)
RequestsOK ==
    \A r \in Requests : ~Doing(r, "idle") =>
        /\ req[r].who \in Users /\ user[req[r].who].st # "absent"
        /\ req[r].op = "mail" => req[r].email \in Emails
        /\ req[r].op \in AdminOnly => req[r].whom \in Users /\ req[r].whom # req[r].who

(* An account that is still to be registered has no marks. *)
NewOK ==
    \A u \in Users : user[u].st = "absent" =>
        /\ ~user[u].emailVerified /\ user[u].calendarFeedToken = 0
        /\ shown[u] = {} /\ burnt[u] = {}

(* A request about to save the first feed token of an account is the only    *)
(* one, and no token was answered before, unless the account is crossed.     *)
SavesOK ==
    \A r \in Requests : Doing(r, "save") /\ Present(req[r].who) /\ req[r].who \notin crossed =>
        /\ user[req[r].who].calendarFeedToken = 0 /\ shown[req[r].who] = {}
        /\ \A q \in Requests : Doing(q, "save") /\ req[q].who = req[r].who => q = r

IInv ==
    /\ Shape /\ EmailsUnique /\ TokensUnique /\ FeedsKnown
    /\ RequestsOK /\ NewOK /\ SavesOK
    /\ VerifiedWasMailed /\ AdminRemains /\ FeedUrlLives /\ RotationKills

LEMMA InitInv == Init => IInv
<1> SUFFICES ASSUME Init PROVE IInv
  OBVIOUS
<1>1. PICK e \in [Admins -> Emails] :
        /\ \A u, v \in Admins : e[u] = e[v] => u = v
        /\ user = [u \in Users |->
                      [st |-> IF u \in Admins THEN "present" ELSE "absent",
                       email |-> IF u \in Admins THEN e[u] ELSE NoEmail,
                       emailVerified |-> FALSE, admin |-> u \in Admins,
                       calendarFeedToken |-> 0]]
  BY DEF Init
<1>2. \A u \in Users : /\ user[u].st = IF u \in Admins THEN "present" ELSE "absent"
                       /\ user[u].email = IF u \in Admins THEN e[u] ELSE NoEmail
                       /\ user[u].emailVerified = FALSE /\ user[u].admin = (u \in Admins)
                       /\ user[u].calendarFeedToken = 0
  BY <1>1
<1>3. \A r \in Requests : req[r] = Idle
  BY DEF Init
<1>4. user \in [Users -> User]
  BY <1>1 DEF User
<1>5. Idle \in Request
  BY DEF Idle, Request
<1>6. Shape
  BY <1>4, <1>5 DEF Init, Shape
<1>7. EmailsUnique
  BY <1>1, <1>2 DEF EmailsUnique, Present
<1>8. TokensUnique /\ FeedsKnown /\ NewOK
  BY <1>2 DEF TokensUnique, FeedsKnown, NewOK, Init
<1>9. RequestsOK /\ SavesOK
  BY <1>3 DEF RequestsOK, SavesOK, Doing, Idle
<1>10. VerifiedWasMailed /\ FeedUrlLives /\ RotationKills
  BY <1>2 DEF Init, VerifiedWasMailed, FeedUrlLives, RotationKills
<1>11. AdminRemains
  BY <1>2, AccountsAssumption DEF AdminRemains, Present
<1>. QED
  BY <1>6, <1>7, <1>8, <1>9, <1>10, <1>11 DEF IInv

-----------------------------------------------------------------------------
(* What a handler does to its own record: it ends. *)
LEMMA DoneEffect ==
    ASSUME Shape, NEW r \in Requests, Done(r)
    PROVE  /\ req' \in [Requests -> Request]
           /\ req'[r].op = "idle"
           /\ \A q \in Requests : q # r => req'[q] = req[q]
<1>1. Idle \in Request /\ Idle.op = "idle"
  BY DEF Idle, Request
<1>. QED
  BY <1>1 DEF Done, Shape

(* A document in which one account is written. *)
Wrote(u) ==
    /\ user' \in [Users -> User]
    /\ \A v \in Users : v # u => user'[v] = user[v]

LEMMA AdminEffect ==
    ASSUME Shape, NEW u \in Users, NEW a \in BOOLEAN, user' = [user EXCEPT ![u].admin = a]
    PROVE  /\ Wrote(u) /\ user'[u].admin = a
           /\ user'[u].st = user[u].st /\ user'[u].email = user[u].email
           /\ user'[u].emailVerified = user[u].emailVerified
           /\ user'[u].calendarFeedToken = user[u].calendarFeedToken
<1> DEFINE d == [user[u] EXCEPT !.admin = a]
<1>1. user[u] \in User /\ user \in [Users -> User]
  BY DEF Shape
<1>2. /\ d \in User /\ d.admin = a /\ d.st = user[u].st /\ d.email = user[u].email
      /\ d.emailVerified = user[u].emailVerified /\ d.calendarFeedToken = user[u].calendarFeedToken
  BY <1>1 DEF User
<1>3. user' = [user EXCEPT ![u] = d]
  OBVIOUS
<1> HIDE DEF d
<1>. QED
  BY <1>1, <1>2, <1>3 DEF Wrote

LEMMA StatusEffect ==
    ASSUME Shape, NEW u \in Users, NEW s \in {"absent", "present", "deleted"},
           user' = [user EXCEPT ![u].st = s]
    PROVE  /\ Wrote(u) /\ user'[u].st = s
           /\ user'[u].admin = user[u].admin /\ user'[u].email = user[u].email
           /\ user'[u].emailVerified = user[u].emailVerified
           /\ user'[u].calendarFeedToken = user[u].calendarFeedToken
<1> DEFINE d == [user[u] EXCEPT !.st = s]
<1>1. user[u] \in User /\ user \in [Users -> User]
  BY DEF Shape
<1>2. /\ d \in User /\ d.st = s /\ d.admin = user[u].admin /\ d.email = user[u].email
      /\ d.emailVerified = user[u].emailVerified /\ d.calendarFeedToken = user[u].calendarFeedToken
  BY <1>1 DEF User
<1>3. user' = [user EXCEPT ![u] = d]
  OBVIOUS
<1> HIDE DEF d
<1>. QED
  BY <1>1, <1>2, <1>3 DEF Wrote

LEMMA TokenEffect ==
    ASSUME Shape, NEW u \in Users, NEW n \in Nat,
           user' = [user EXCEPT ![u].calendarFeedToken = n]
    PROVE  /\ Wrote(u) /\ user'[u].calendarFeedToken = n
           /\ user'[u].st = user[u].st /\ user'[u].email = user[u].email
           /\ user'[u].emailVerified = user[u].emailVerified
           /\ user'[u].admin = user[u].admin
<1> DEFINE d == [user[u] EXCEPT !.calendarFeedToken = n]
<1>1. user[u] \in User /\ user \in [Users -> User]
  BY DEF Shape
<1>2. /\ d \in User /\ d.calendarFeedToken = n /\ d.st = user[u].st /\ d.email = user[u].email
      /\ d.emailVerified = user[u].emailVerified /\ d.admin = user[u].admin
  BY <1>1 DEF User
<1>3. user' = [user EXCEPT ![u] = d]
  OBVIOUS
<1> HIDE DEF d
<1>. QED
  BY <1>1, <1>2, <1>3 DEF Wrote

-----------------------------------------------------------------------------
(* A handler that ends elsewhere leaves SavesOK alone. *)
LEMMA SavesStay ==
    ASSUME IInv, NEW r \in Requests, Done(r), shown' = shown, crossed' = crossed,
           \A v \in Users : /\ user'[v].calendarFeedToken = user[v].calendarFeedToken
                            /\ user'[v].st = "present" => user[v].st = "present"
    PROVE  SavesOK'
<1> USE DEF IInv
<1>1. /\ req' \in [Requests -> Request] /\ req'[r].op = "idle"
      /\ \A q \in Requests : q # r => req'[q] = req[q]
  BY DoneEffect
<1>2. ASSUME NEW q \in Requests, req'[q].op = "save",
             req'[q].who \notin crossed', user'[req'[q].who].st = "present"
      PROVE  /\ user'[req'[q].who].calendarFeedToken = 0 /\ shown'[req'[q].who] = {}
             /\ \A p \in Requests : req'[p].op = "save" /\ req'[p].who = req'[q].who => p = q
  <2>1. q # r /\ req'[q] = req[q] /\ Doing(q, "save") /\ req[q].who \in Users
    BY <1>1, <1>2 DEF Doing, RequestsOK
  <2>2. Present(req[q].who) /\ req[q].who \notin crossed
    BY <1>2, <2>1 DEF Present
  <2>. QED
    BY <1>1, <2>1, <2>2 DEF SavesOK, Doing
<1>. QED
  BY <1>2 DEF SavesOK, Doing, Present

-----------------------------------------------------------------------------
(* Addresses and their marks *)
LEMMA RegisterKeeps ==
    ASSUME IInv, NEW r \in Requests, NEW u \in Users, NEW e \in Emails, register(r, u, e)
    PROVE  IInv'
<1> USE DEF IInv
<1> DEFINE d == [user[u] EXCEPT !.st = "present", !.email = e]
           i == [Idle EXCEPT !.op = "mail", !.who = u, !.email = e]
<1>1. user[u] \in User /\ user \in [Users -> User] /\ req \in [Requests -> Request]
  BY DEF Shape
<1>2. /\ d \in User /\ d.st = "present" /\ d.email = e /\ d.admin = user[u].admin
      /\ d.emailVerified = user[u].emailVerified /\ d.calendarFeedToken = user[u].calendarFeedToken
  BY <1>1 DEF User
<1>3. user' = [user EXCEPT ![u] = d] /\ req' = [req EXCEPT ![r] = i]
  BY DEF register
<1>4. i \in Request /\ i.op = "mail" /\ i.who = u /\ i.email = e
  BY DEF Idle, Request, Ops
<1> HIDE DEF d, i
<1>5. /\ Wrote(u) /\ user'[u].st = "present" /\ user'[u].email = e
      /\ user'[u].emailVerified = user[u].emailVerified /\ user'[u].admin = user[u].admin
      /\ user'[u].calendarFeedToken = user[u].calendarFeedToken
  BY <1>1, <1>2, <1>3 DEF Wrote
<1>6. /\ req' \in [Requests -> Request]
      /\ req'[r].op = "mail" /\ req'[r].who = u /\ req'[r].email = e
      /\ \A q \in Requests : q # r => req'[q] = req[q]
  BY <1>1, <1>3, <1>4
<1>7. /\ user[u].st = "absent" /\ Taken(e) = {}
      /\ changes' = changes + 1 /\ links' = links /\ failures' = failures /\ opened' = opened
      /\ shown' = shown /\ burnt' = burnt /\ crossed' = crossed /\ raced' = raced /\ resigned' = resigned
  BY DEF register, Counted, feedHistory, roleHistory
<1>8. Shape'
  BY <1>5, <1>6, <1>7 DEF Shape, Wrote
<1>9. EmailsUnique'
  <2>1. \A v \in Users : Present(v) => user[v].email # e
    BY <1>7 DEF Taken
  <2>. QED
    BY <2>1, <1>5 DEF EmailsUnique, Present, Wrote
<1>10. TokensUnique' /\ FeedsKnown'
  <2>1. \A v \in Users : user'[v].calendarFeedToken = user[v].calendarFeedToken
    BY <1>5 DEF Wrote
  <2>2. \A v \in Users : user[v].calendarFeedToken \in Nat
    BY <1>1 DEF User
  <2>. QED
    BY <2>1, <2>2, <1>7 DEF TokensUnique, FeedsKnown, Shape
<1>11. RequestsOK' /\ SavesOK'
  <2>1. RequestsOK'
    BY <1>5, <1>6 DEF RequestsOK, Doing, Wrote, AdminOnly
  <2>2. ASSUME NEW q \in Requests, req'[q].op = "save"
        PROVE  q # r /\ req'[q] = req[q] /\ req[q].who \in Users /\ user'[req[q].who] = user[req[q].who]
    BY <1>5, <1>6, <1>7, <2>2 DEF RequestsOK, Doing, Wrote
  <2>3. SavesOK'
    BY <2>2, <1>7 DEF SavesOK, Doing, Present
  <2>. QED
    BY <2>1, <2>3
<1>12. NewOK' /\ VerifiedWasMailed' /\ FeedUrlLives' /\ RotationKills'
  BY <1>5, <1>7 DEF NewOK, VerifiedWasMailed, FeedUrlLives, RotationKills, Present, Wrote
<1>13. AdminRemains'
  BY <1>5, <1>7 DEF AdminRemains, Present, Wrote
<1>. QED
  BY <1>8, <1>9, <1>10, <1>11, <1>12, <1>13

LEMMA MailKeeps ==
    ASSUME IInv, NEW r \in Requests, SendVerificationEmail(r)
    PROVE  IInv'
<1> USE DEF IInv
<1>1. /\ req' \in [Requests -> Request] /\ req'[r].op = "idle"
      /\ \A q \in Requests : q # r => req'[q] = req[q]
  BY DoneEffect DEF SendVerificationEmail
<1>2. req[r].email \in Emails
  BY DEF SendVerificationEmail, RequestsOK, Doing
<1>3. /\ user' = user /\ changes' = changes /\ failures' = failures /\ opened' = opened
      /\ shown' = shown /\ burnt' = burnt /\ crossed' = crossed /\ raced' = raced /\ resigned' = resigned
      /\ links' = links \cup {req[r].email}
  BY DEF SendVerificationEmail, feedHistory, roleHistory
<1>4. Shape'
  BY <1>1, <1>2, <1>3 DEF Shape
<1>5. RequestsOK' /\ SavesOK'
  BY <1>1, <1>3 DEF RequestsOK, SavesOK, Doing, Present
<1>6. EmailsUnique' /\ TokensUnique' /\ FeedsKnown' /\ NewOK'
  BY <1>3 DEF EmailsUnique, TokensUnique, FeedsKnown, NewOK, Present
<1>7. VerifiedWasMailed' /\ AdminRemains' /\ FeedUrlLives' /\ RotationKills'
  BY <1>3 DEF VerifiedWasMailed, AdminRemains, FeedUrlLives, RotationKills, Present
<1>. QED
  BY <1>4, <1>5, <1>6, <1>7

LEMMA VerifyKeeps ==
    ASSUME IInv, NEW e \in Emails, verifyEmail(e)
    PROVE  IInv'
<1> USE DEF IInv
<1>1. PICK u \in Taken(e) : user' = [user EXCEPT ![u].emailVerified = TRUE]
  BY DEF verifyEmail
<1> DEFINE d == [user[u] EXCEPT !.emailVerified = TRUE]
<1>2. u \in Users /\ Present(u) /\ user[u].email = e
  BY DEF Taken
<1>3. user[u] \in User /\ user \in [Users -> User]
  BY <1>2 DEF Shape
<1>4. /\ d \in User /\ d.st = user[u].st /\ d.email = e /\ d.admin = user[u].admin
      /\ d.calendarFeedToken = user[u].calendarFeedToken
  BY <1>2, <1>3 DEF User
<1>5. user' = [user EXCEPT ![u] = d]
  BY <1>1
<1> HIDE DEF d
<1>6. /\ Wrote(u) /\ user'[u].st = user[u].st /\ user'[u].email = e
      /\ user'[u].admin = user[u].admin /\ user'[u].calendarFeedToken = user[u].calendarFeedToken
  BY <1>2, <1>3, <1>4, <1>5 DEF Wrote
<1>7. /\ req' = req /\ changes' = changes /\ failures' = failures /\ opened' = opened \cup {e}
      /\ shown' = shown /\ burnt' = burnt /\ crossed' = crossed /\ raced' = raced /\ resigned' = resigned
      /\ links' = links
  BY DEF verifyEmail, feedHistory, roleHistory
<1>8. \A v \in Users : /\ user'[v].st = user[v].st /\ user'[v].email = user[v].email
                       /\ user'[v].admin = user[v].admin
                       /\ user'[v].calendarFeedToken = user[v].calendarFeedToken
  BY <1>2, <1>6 DEF Wrote
<1>9. Shape'
  BY <1>6, <1>7 DEF Shape, Wrote
<1>10. EmailsUnique' /\ TokensUnique' /\ FeedsKnown'
  BY <1>7, <1>8 DEF EmailsUnique, TokensUnique, FeedsKnown, Present
<1>11. RequestsOK' /\ SavesOK'
  BY <1>7, <1>8 DEF RequestsOK, SavesOK, Doing, Present
<1>12. NewOK' /\ VerifiedWasMailed'
  BY <1>2, <1>6, <1>7 DEF NewOK, VerifiedWasMailed, Present, Wrote
<1>13. AdminRemains' /\ FeedUrlLives' /\ RotationKills'
  BY <1>7, <1>8 DEF AdminRemains, FeedUrlLives, RotationKills, Present
<1>. QED
  BY <1>9, <1>10, <1>11, <1>12, <1>13

LEMMA UpdateMeKeeps ==
    ASSUME IInv, NEW r \in Requests, updateMe(r)
    PROVE  IInv'
<1> USE DEF IInv
<1> DEFINE u == req[r].who
           e == req[r].email
           d == [user[u] EXCEPT !.email = e, !.emailVerified = FALSE]
<1>1. /\ req' \in [Requests -> Request] /\ req'[r].op = "idle"
      /\ \A q \in Requests : q # r => req'[q] = req[q]
  BY DoneEffect DEF updateMe
<1>2. /\ failures' = failures /\ opened' = opened /\ links' = links
      /\ shown' = shown /\ burnt' = burnt /\ crossed' = crossed /\ raced' = raced /\ resigned' = resigned
  BY DEF updateMe, feedHistory, roleHistory
<1>3. u \in Users /\ e \in Emails \cup {NoEmail} /\ user[u] \in User /\ user \in [Users -> User]
  BY DEF updateMe, RequestsOK, Doing, Shape, Request
<1>4. CASE ~(Present(u) /\ Taken(e) \subseteq {u})
  <2>1. user' = user /\ changes' = changes
    BY <1>4 DEF updateMe
  <2>2. Shape'
    BY <1>1, <1>2, <2>1 DEF Shape
  <2>3. RequestsOK' /\ SavesOK'
    BY <1>1, <1>2, <2>1 DEF RequestsOK, SavesOK, Doing, Present
  <2>4. EmailsUnique' /\ TokensUnique' /\ FeedsKnown' /\ NewOK'
    BY <1>2, <2>1 DEF EmailsUnique, TokensUnique, FeedsKnown, NewOK, Present
  <2>5. VerifiedWasMailed' /\ AdminRemains' /\ FeedUrlLives' /\ RotationKills'
    BY <1>2, <2>1 DEF VerifiedWasMailed, AdminRemains, FeedUrlLives, RotationKills, Present
  <2>. QED
    BY <2>2, <2>3, <2>4, <2>5
<1>5. CASE Present(u) /\ Taken(e) \subseteq {u}
  <2>1. user' = [user EXCEPT ![u] = d] /\ changes' = changes + 1
    BY <1>5 DEF updateMe, Counted
  <2>2. /\ d \in User /\ d.st = user[u].st /\ d.email = e /\ d.admin = user[u].admin
        /\ d.calendarFeedToken = user[u].calendarFeedToken /\ d.emailVerified = FALSE
    BY <1>3 DEF User
  <2> HIDE DEF d
  <2>3. /\ Wrote(u) /\ user'[u].email = e /\ user'[u].emailVerified = FALSE
        /\ \A v \in Users : /\ user'[v].st = user[v].st /\ user'[v].admin = user[v].admin
                            /\ user'[v].calendarFeedToken = user[v].calendarFeedToken
    BY <1>3, <2>1, <2>2 DEF Wrote
  <2>4. \A v \in Users : Present(v) /\ user[v].email = e => v = u
    BY <1>5 DEF Taken
  <2> HIDE DEF u, e
  <2>5. Shape'
    BY <1>1, <1>2, <2>1, <2>3 DEF Shape, Wrote
  <2>6. EmailsUnique'
    BY <1>3, <2>3, <2>4 DEF EmailsUnique, Present, Wrote
  <2>7. TokensUnique' /\ FeedsKnown'
    <3>1. \A v \in Users : user[v].calendarFeedToken \in Nat
      BY <1>3 DEF User
    <3>. QED
      BY <3>1, <1>2, <2>1, <2>3 DEF TokensUnique, FeedsKnown, Shape
  <2>8. RequestsOK' /\ SavesOK'
    <3>1. RequestsOK'
      BY <1>1, <2>3 DEF RequestsOK, Doing
    <3>2. Done(r)
      BY DEF updateMe
    <3>. QED
      BY <1>2, <2>3, <3>1, <3>2, SavesStay
  <2>9. NewOK'
    BY <1>2, <1>3, <1>5, <2>3 DEF NewOK, Wrote, Present
  <2>10. VerifiedWasMailed'
    BY <1>2, <1>3, <2>3 DEF VerifiedWasMailed, Wrote, Present
  <2>11. AdminRemains' /\ FeedUrlLives' /\ RotationKills'
    BY <1>2, <2>3 DEF AdminRemains, FeedUrlLives, RotationKills, Present
  <2>. QED
    BY <2>5, <2>6, <2>7, <2>8, <2>9, <2>10, <2>11
<1>. QED
  BY <1>4, <1>5

-----------------------------------------------------------------------------
(* Requests that pass protect *)
LEMMA InputsOK ==
    ASSUME NEW u \in Users, NEW q \in Inputs(u)
    PROVE  /\ q \in Request /\ q.who = u
           /\ q.op \in {"leave", "feed", "rotate", "email", "role", "delete"}
           /\ q.op \in AdminOnly => q.whom \in Users /\ q.whom # u
<1> DEFINE A == {Of(u, op) : op \in {"leave", "feed", "rotate"}}
           B == {[Of(u, "email") EXCEPT !.email = e] : e \in Emails}
           C == [op : {"role"}, who : {u}, whom : Users \ {u}, email : {NoEmail}, admin : BOOLEAN]
           D == {[Of(u, "delete") EXCEPT !.whom = v] : v \in Users \ {u}}
<1>1. ASSUME q \in A PROVE q \in Request /\ q.who = u /\ q.op \in {"leave", "feed", "rotate"}
  BY <1>1 DEF Of, Idle, Request, Ops
<1>2. ASSUME q \in B PROVE q \in Request /\ q.who = u /\ q.op = "email"
  BY <1>2 DEF Of, Idle, Request, Ops
<1>3. ASSUME q \in C PROVE q \in Request /\ q.who = u /\ q.op = "role" /\ q.whom \in Users \ {u}
  BY <1>3 DEF Request, Ops
<1>4. ASSUME q \in D PROVE q \in Request /\ q.who = u /\ q.op = "delete" /\ q.whom \in Users \ {u}
  BY <1>4 DEF Of, Idle, Request, Ops
<1>5. Inputs(u) = A \cup B \cup C \cup D
  BY DEF Inputs
<1> HIDE DEF A, B, C, D
<1>6. q \in A \/ q \in B \/ q \in C \/ q \in D
  BY <1>5
<1>. QED
  BY <1>1, <1>2, <1>3, <1>4, <1>6 DEF AdminOnly

LEMMA ProtectKeeps ==
    ASSUME IInv, NEW r \in Requests, NEW u \in Users, NEW q \in Inputs(u), Protect(r, q)
    PROVE  IInv'
<1> USE DEF IInv
<1>1. /\ q \in Request /\ q.who = u
      /\ q.op \in {"leave", "feed", "rotate", "email", "role", "delete"}
      /\ q.op \in AdminOnly => q.whom \in Users /\ q.whom # u
  BY InputsOK
<1>2. /\ req' \in [Requests -> Request] /\ req'[r] = q
      /\ \A p \in Requests : p # r => req'[p] = req[p]
  BY <1>1 DEF Protect, Shape
<1>3. /\ user' = user /\ changes' = changes /\ failures' = failures /\ opened' = opened
      /\ shown' = shown /\ burnt' = burnt /\ crossed' = crossed /\ raced' = raced /\ resigned' = resigned
      /\ links' = links
  BY DEF Protect, feedHistory, roleHistory
<1>4. user[u].st # "absent"
  BY <1>1 DEF Protect, Present
<1>5. Shape'
  BY <1>2, <1>3 DEF Shape
<1>6. RequestsOK'
  BY <1>1, <1>2, <1>3, <1>4 DEF RequestsOK, Doing
<1>7. SavesOK'
  BY <1>1, <1>2, <1>3 DEF SavesOK, Doing, Present
<1>8. EmailsUnique' /\ TokensUnique' /\ FeedsKnown' /\ NewOK'
  BY <1>3 DEF EmailsUnique, TokensUnique, FeedsKnown, NewOK, Present
<1>9. VerifiedWasMailed' /\ AdminRemains' /\ FeedUrlLives' /\ RotationKills'
  BY <1>3 DEF VerifiedWasMailed, AdminRemains, FeedUrlLives, RotationKills, Present
<1>. QED
  BY <1>5, <1>6, <1>7, <1>8, <1>9

(* A handler that ends without having written anything *)
LEMMA RefusedKeeps ==
    ASSUME IInv, NEW r \in Requests, Done(r),
           user' = user, changes' = changes, failures' \in Nat, opened' = opened,
           shown' = shown, burnt' = burnt, crossed' = crossed, links' = links,
           raced' \in BOOLEAN, raced => raced', resigned' \in BOOLEAN, resigned => resigned'
    PROVE  IInv'
<1> USE DEF IInv
<1>1. /\ req' \in [Requests -> Request] /\ req'[r].op = "idle"
      /\ \A q \in Requests : q # r => req'[q] = req[q]
  BY DoneEffect
<1>2. Shape'
  BY <1>1 DEF Shape
<1>3. RequestsOK' /\ SavesOK'
  BY <1>1 DEF RequestsOK, SavesOK, Doing, Present
<1>4. EmailsUnique' /\ TokensUnique' /\ FeedsKnown' /\ NewOK'
  BY DEF EmailsUnique, TokensUnique, FeedsKnown, NewOK, Present
<1>5. VerifiedWasMailed' /\ AdminRemains' /\ FeedUrlLives' /\ RotationKills'
  BY DEF VerifiedWasMailed, AdminRemains, FeedUrlLives, RotationKills, Present
<1>. QED
  BY <1>2, <1>3, <1>4, <1>5

(* A handler that writes the role of an account, or deletes it *)
LEMMA RoleOrStatusKeeps ==
    ASSUME IInv, NEW r \in Requests, Done(r), NEW u \in Users,
           Wrote(u), user'[u].email = user[u].email,
           user'[u].emailVerified = user[u].emailVerified,
           user'[u].calendarFeedToken = user[u].calendarFeedToken,
           Present(u), user'[u].st \in {"present", "deleted"},
           changes' \in {changes, changes + 1}, failures' = failures, opened' = opened,
           shown' = shown, burnt' = burnt, crossed' = crossed, links' = links,
           raced' \in BOOLEAN, resigned' \in BOOLEAN,
           AdminRemains'
    PROVE  IInv'
<1> USE DEF IInv
<1>1. /\ req' \in [Requests -> Request] /\ req'[r].op = "idle"
      /\ \A q \in Requests : q # r => req'[q] = req[q]
  BY DoneEffect
<1>2. \A v \in Users : /\ user'[v].email = user[v].email
                       /\ user'[v].emailVerified = user[v].emailVerified
                       /\ user'[v].calendarFeedToken = user[v].calendarFeedToken
                       /\ user'[v].st = "present" => user[v].st = "present"
                       /\ user'[v].st = "absent" <=> user[v].st = "absent"
  BY DEF Wrote, Present
<1>3. Shape'
  BY <1>1 DEF Shape, Wrote
<1>4. RequestsOK' /\ SavesOK'
  <2>1. RequestsOK'
    BY <1>1, <1>2 DEF RequestsOK, Doing
  <2>. QED
    BY <1>2, <2>1, SavesStay
<1>5. EmailsUnique' /\ NewOK'
  BY <1>2 DEF EmailsUnique, NewOK, Present
<1>6. TokensUnique' /\ FeedsKnown'
  <2>1. \A v \in Users : user[v].calendarFeedToken \in Nat
    BY DEF User, Shape
  <2>. QED
    BY <2>1, <1>2 DEF TokensUnique, FeedsKnown, Shape
<1>7. VerifiedWasMailed' /\ FeedUrlLives' /\ RotationKills'
  BY <1>2 DEF VerifiedWasMailed, FeedUrlLives, RotationKills, Present
<1>. QED
  BY <1>3, <1>4, <1>5, <1>6, <1>7

LEMMA RoleKeeps ==
    ASSUME IInv, NEW r \in Requests, updateUserRole(r)
    PROVE  IInv'
<1> USE DEF IInv
<1> DEFINE v == req[r].whom
           w == req[r].who
<1>1. v \in Users /\ w \in Users /\ v # w
  BY DEF updateUserRole, RequestsOK, Doing, AdminOnly
<1>2. /\ Done(r) /\ failures' = failures /\ opened' = opened /\ shown' = shown
      /\ burnt' = burnt /\ crossed' = crossed /\ links' = links /\ resigned' = resigned
  BY DEF updateUserRole, feedHistory
<1>3. raced \in BOOLEAN /\ resigned \in BOOLEAN /\ failures \in Nat
  BY DEF Shape
<1>4. CASE ~Present(v)
  <2>1. user' = user /\ changes' = changes /\ raced' = raced
    BY <1>4 DEF updateUserRole
  <2>. QED
    BY <1>2, <1>3, <2>1, RefusedKeeps
<1>5. CASE Present(v)
  <2>1. req[r].admin \in BOOLEAN
    BY DEF Shape, Request
  <2>2. /\ user' = [user EXCEPT ![v].admin = req[r].admin] /\ changes' = changes + 1
        /\ raced' = (raced \/ ~Present(w) \/ ~user[w].admin)
    BY <1>5 DEF updateUserRole, Counted
  <2>3. /\ Wrote(v) /\ user'[v].st = user[v].st /\ user'[v].email = user[v].email
        /\ user'[v].emailVerified = user[v].emailVerified
        /\ user'[v].calendarFeedToken = user[v].calendarFeedToken
    BY <1>1, <2>1, <2>2, AdminEffect
  <2>4. AdminRemains'
    BY <1>1, <2>2, <2>3 DEF AdminRemains, Present, Wrote
  <2>5. raced' \in BOOLEAN
    BY <2>2
  <2> HIDE DEF v, w
  <2>. QED
    BY <1>1, <1>2, <1>3, <1>5, <2>2, <2>3, <2>4, <2>5, RoleOrStatusKeeps DEF Present
<1>. QED
  BY <1>4, <1>5

LEMMA DeleteKeeps ==
    ASSUME IInv, NEW r \in Requests, deleteUser(r)
    PROVE  IInv'
<1> USE DEF IInv
<1> DEFINE v == req[r].whom
           w == req[r].who
<1>1. v \in Users /\ w \in Users /\ v # w
  BY DEF deleteUser, RequestsOK, Doing, AdminOnly
<1>2. /\ Done(r) /\ failures' = failures /\ opened' = opened /\ shown' = shown /\ changes' = changes
      /\ burnt' = burnt /\ crossed' = crossed /\ links' = links /\ resigned' = resigned
  BY DEF deleteUser, feedHistory
<1>3. raced \in BOOLEAN /\ resigned \in BOOLEAN /\ failures \in Nat
  BY DEF Shape
<1>4. CASE ~Present(v)
  <2>1. user' = user /\ raced' = raced
    BY <1>4 DEF deleteUser
  <2>. QED
    BY <1>2, <1>3, <2>1, RefusedKeeps
<1>5. CASE Present(v)
  <2>1. /\ user' = [user EXCEPT ![v].st = "deleted"]
        /\ raced' = (raced \/ ~Present(w) \/ ~user[w].admin)
    BY <1>5 DEF deleteUser
  <2>2. /\ Wrote(v) /\ user'[v].st = "deleted" /\ user'[v].email = user[v].email
        /\ user'[v].emailVerified = user[v].emailVerified
        /\ user'[v].calendarFeedToken = user[v].calendarFeedToken
    BY <1>1, <2>1, StatusEffect
  <2>3. AdminRemains'
    BY <1>1, <2>1, <2>2 DEF AdminRemains, Present, Wrote
  <2>4. raced' \in BOOLEAN
    BY <2>1
  <2> HIDE DEF v, w
  <2>. QED
    BY <1>1, <1>2, <1>3, <1>5, <2>2, <2>3, <2>4, RoleOrStatusKeeps
<1>. QED
  BY <1>4, <1>5

LEMMA LeaveKeeps ==
    ASSUME IInv, NEW r \in Requests, deleteMe(r)
    PROVE  IInv'
<1> USE DEF IInv
<1> DEFINE u == req[r].who
           s == IF Present(u) THEN "deleted" ELSE user[u].st
<1>1. u \in Users /\ user[u].st # "absent" /\ user \in [Users -> User] /\ user[u] \in User
  BY DEF deleteMe, RequestsOK, Doing, Shape
<1>2. /\ Done(r) /\ failures' = failures /\ opened' = opened /\ shown' = shown /\ changes' = changes
      /\ burnt' = burnt /\ crossed' = crossed /\ links' = links /\ raced' = raced
      /\ resigned' = (resigned \/ user[u].admin)
      /\ user' = [user EXCEPT ![u].st = IF Present(u) THEN "deleted" ELSE @]
  BY DEF deleteMe, feedHistory
<1>3. raced \in BOOLEAN /\ resigned \in BOOLEAN /\ failures \in Nat /\ resigned' \in BOOLEAN
  BY <1>2 DEF Shape
<1>4. user' = [user EXCEPT ![u].st = s]
  BY <1>2
<1>5. s \in {"absent", "present", "deleted"}
  BY <1>1 DEF User
<1>6. /\ Wrote(u) /\ user'[u].st = s /\ user'[u].email = user[u].email
      /\ user'[u].emailVerified = user[u].emailVerified /\ user'[u].admin = user[u].admin
      /\ user'[u].calendarFeedToken = user[u].calendarFeedToken
  <2> HIDE DEF s
  <2>. QED
    BY <1>1, <1>4, <1>5, StatusEffect
<1>7. CASE ~Present(u)
  <2>1. user' = user
    <3>1. user'[u].st = user[u].st
      BY <1>6, <1>7
    <3>2. user'[u] \in User
      BY <1>1, <1>6 DEF Wrote
    <3>3. user'[u] = user[u]
      BY <1>1, <1>6, <3>1, <3>2 DEF User
    <3>. QED
      BY <1>1, <1>6, <3>3 DEF Wrote
  <2> HIDE DEF u
  <2>. QED
    BY <1>2, <1>3, <2>1, RefusedKeeps
<1>8. CASE Present(u)
  <2>1. AdminRemains'
    BY <1>1, <1>2, <1>6 DEF AdminRemains, Present, Wrote
  <2>2. user'[u].st = "deleted"
    BY <1>6, <1>8
  <2> HIDE DEF u, s
  <2>. QED
    BY <1>1, <1>2, <1>3, <1>6, <1>8, <2>1, <2>2, RoleOrStatusKeeps
<1>. QED
  BY <1>7, <1>8

-----------------------------------------------------------------------------
(* The feed URL *)
LEMMA ReadFeedKeeps ==
    ASSUME IInv, NEW r \in Requests, ReadFeedToken(r)
    PROVE  IInv'
<1> USE DEF IInv
<1> DEFINE u == req[r].who
<1>1. u \in Users /\ user[u].st # "absent" /\ user[u] \in User
  BY DEF ReadFeedToken, RequestsOK, Doing, Shape
<1>2. /\ user' = user /\ changes' = changes /\ failures' = failures /\ opened' = opened
      /\ burnt' = burnt /\ links' = links /\ raced' = raced /\ resigned' = resigned
  BY DEF ReadFeedToken, roleHistory
<1>3. EmailsUnique' /\ TokensUnique' /\ VerifiedWasMailed' /\ AdminRemains' /\ RotationKills'
  BY <1>2 DEF EmailsUnique, TokensUnique, VerifiedWasMailed, AdminRemains, RotationKills, Present
<1>4. CASE Present(u) /\ user[u].calendarFeedToken = 0
  <2> DEFINE d == [req[r] EXCEPT !.op = "save"]
  <2>1. /\ req' = [req EXCEPT ![r] = d] /\ shown' = shown
        /\ crossed' = IF Saving(u) # {} THEN crossed \cup {u} ELSE crossed
    BY <1>4 DEF ReadFeedToken
  <2>2. req[r] \in Request /\ req \in [Requests -> Request]
    BY DEF Shape
  <2>3. d \in Request /\ d.op = "save" /\ d.who = u
    BY <2>2 DEF Request, Ops
  <2> HIDE DEF d
  <2>4. /\ req' \in [Requests -> Request] /\ req'[r].op = "save" /\ req'[r].who = u
        /\ \A q \in Requests : q # r => req'[q] = req[q]
    BY <2>1, <2>2, <2>3
  <2> HIDE DEF u
  <2>5. Shape'
    BY <1>1, <1>2, <2>1, <2>4 DEF Shape
  <2>6. FeedsKnown' /\ NewOK' /\ FeedUrlLives'
    BY <1>2, <2>1 DEF FeedsKnown, NewOK, FeedUrlLives, Present
  <2>7. RequestsOK'
    BY <1>1, <1>2, <2>4 DEF RequestsOK, Doing, AdminOnly
  <2>8. SavesOK'
    <3>1. ASSUME u \notin crossed' PROVE Saving(u) = {} /\ shown[u] = {}
      <4>1. Saving(u) = {} /\ u \notin crossed
        BY <2>1, <3>1
      <4>2. shown[u] \subseteq {0} /\ shown[u] \subseteq 1..changes /\ changes \in Nat
        BY <1>1, <1>4, <4>1 DEF FeedUrlLives, FeedsKnown, Shape
      <4>3. \A n \in shown[u] : FALSE
        BY <4>2
      <4>. QED
        BY <4>1, <4>3
    <3>2. ASSUME NEW q \in Requests, req'[q].op = "save",
                 req'[q].who \notin crossed', user'[req'[q].who].st = "present"
          PROVE  /\ user'[req'[q].who].calendarFeedToken = 0 /\ shown'[req'[q].who] = {}
                 /\ \A p \in Requests : req'[p].op = "save" /\ req'[p].who = req'[q].who => p = q
      <4>1. CASE req'[q].who = u
        <5>1. \A p \in Requests : ~(Doing(p, "save") /\ req[p].who = u)
          BY <3>1, <3>2, <4>1 DEF Saving
        <5>. QED
          BY <5>1, <3>1, <3>2, <4>1, <1>2, <1>4, <2>1, <2>4 DEF Doing
      <4>2. CASE req'[q].who # u
        <5>1. q # r /\ req'[q] = req[q] /\ req[q].who \notin crossed
          BY <3>2, <4>2, <2>1, <2>4
        <5>. QED
          BY <5>1, <3>2, <4>2, <1>2, <2>1, <2>4 DEF SavesOK, Doing, Present
      <4>. QED
        BY <4>1, <4>2
    <3>. QED
      BY <3>2 DEF SavesOK, Doing, Present
  <2>. QED
    BY <1>3, <2>5, <2>6, <2>7, <2>8
<1>5. CASE ~(Present(u) /\ user[u].calendarFeedToken = 0)
  <2>1. /\ Done(r) /\ crossed' = crossed
        /\ shown' = [shown EXCEPT ![u] = IF Present(u) THEN @ \cup {user[u].calendarFeedToken} ELSE @]
    BY <1>5 DEF ReadFeedToken
  <2>2. /\ req' \in [Requests -> Request] /\ req'[r].op = "idle"
        /\ \A q \in Requests : q # r => req'[q] = req[q]
    BY <2>1, DoneEffect
  <2>3. user[u].calendarFeedToken \in Nat /\ shown \in [Users -> SUBSET Nat] /\ changes \in Nat
    BY <1>1 DEF User, Shape
  <2> HIDE DEF u
  <2>4. /\ shown' \in [Users -> SUBSET Nat]
        /\ \A v \in Users : v # u => shown'[v] = shown[v]
        /\ shown'[u] = IF Present(u) THEN shown[u] \cup {user[u].calendarFeedToken} ELSE shown[u]
    BY <1>1, <2>1, <2>3
  <2>5. Shape'
    BY <1>2, <2>1, <2>2, <2>4 DEF Shape
  <2>6. FeedsKnown'
    <3>1. Present(u) => user[u].calendarFeedToken \in 1..changes
      BY <1>1, <1>5, <2>3 DEF TokensUnique
    <3>. QED
      BY <3>1, <1>2, <2>4 DEF FeedsKnown
  <2>7. NewOK' /\ FeedUrlLives'
    BY <1>1, <1>2, <2>1, <2>4 DEF NewOK, FeedUrlLives, Present
  <2>8. RequestsOK'
    BY <1>2, <2>2 DEF RequestsOK, Doing
  <2>9. SavesOK'
    <3>1. ASSUME NEW q \in Requests, req'[q].op = "save",
                 req'[q].who \notin crossed', user'[req'[q].who].st = "present"
          PROVE  /\ user'[req'[q].who].calendarFeedToken = 0 /\ shown'[req'[q].who] = {}
                 /\ \A p \in Requests : req'[p].op = "save" /\ req'[p].who = req'[q].who => p = q
      <4>1. q # r /\ req'[q] = req[q] /\ Doing(q, "save") /\ req[q].who \in Users
        BY <2>2, <3>1 DEF Doing, RequestsOK
      <4>2. Present(req[q].who) /\ req[q].who \notin crossed
        BY <1>2, <2>1, <3>1, <4>1 DEF Present
      <4>3. /\ user[req[q].who].calendarFeedToken = 0 /\ shown[req[q].who] = {}
            /\ \A p \in Requests : Doing(p, "save") /\ req[p].who = req[q].who => p = q
        BY <4>1, <4>2 DEF SavesOK
      <4>4. req[q].who # u
        BY <1>5, <4>2, <4>3
      <4>. QED
        BY <1>1, <1>2, <2>2, <2>4, <4>1, <4>2, <4>3, <4>4 DEF Doing
    <3>. QED
      BY <3>1 DEF SavesOK, Doing, Present
  <2>. QED
    BY <1>3, <2>5, <2>6, <2>7, <2>8, <2>9
<1>. QED
  BY <1>4, <1>5

LEMMA SaveFeedKeeps ==
    ASSUME IInv, NEW r \in Requests, SaveFeedToken(r)
    PROVE  IInv'
<1> USE DEF IInv
<1> DEFINE u == req[r].who
<1>1. u \in Users /\ user[u].st # "absent" /\ Doing(r, "save")
  BY DEF SaveFeedToken, RequestsOK, Doing
<1>2. /\ Done(r) /\ failures' = failures /\ opened' = opened /\ burnt' = burnt
      /\ links' = links /\ crossed' = crossed /\ raced' = raced /\ resigned' = resigned
  BY DEF SaveFeedToken, roleHistory
<1>3. raced \in BOOLEAN /\ resigned \in BOOLEAN /\ failures \in Nat /\ changes \in Nat
      /\ shown \in [Users -> SUBSET Nat]
  BY DEF Shape
<1>4. CASE ~Present(u)
  <2>1. user' = user /\ changes' = changes /\ shown' = shown
    BY <1>4 DEF SaveFeedToken
  <2>. QED
    BY <1>2, <1>3, <2>1, RefusedKeeps
<1>5. CASE Present(u)
  <2>1. /\ user' = [user EXCEPT ![u].calendarFeedToken = changes + 1] /\ changes' = changes + 1
        /\ shown' = [shown EXCEPT ![u] = @ \cup {changes + 1}]
    BY <1>3, <1>5 DEF SaveFeedToken, Counted, NewFeedToken
  <2>2. /\ Wrote(u) /\ user'[u].calendarFeedToken = changes + 1
        /\ user'[u].st = user[u].st /\ user'[u].email = user[u].email
        /\ user'[u].emailVerified = user[u].emailVerified /\ user'[u].admin = user[u].admin
    <3>1. changes + 1 \in Nat
      BY <1>3
    <3> HIDE DEF u
    <3>. QED
      BY <1>1, <2>1, <3>1, TokenEffect
  <2>3. /\ req' \in [Requests -> Request] /\ req'[r].op = "idle"
        /\ \A q \in Requests : q # r => req'[q] = req[q]
    BY <1>2, DoneEffect
  <2>4. /\ shown' \in [Users -> SUBSET Nat] /\ shown'[u] = shown[u] \cup {changes + 1}
        /\ \A v \in Users : v # u => shown'[v] = shown[v]
    BY <1>1, <1>3, <2>1
  <2>5. u \notin crossed => /\ shown[u] = {}
                            /\ \A q \in Requests : Doing(q, "save") /\ req[q].who = u => q = r
    BY <1>1, <1>5 DEF SavesOK
  <2> HIDE DEF u
  <2>6. \A v \in Users : /\ user'[v].st = user[v].st /\ user'[v].email = user[v].email
                         /\ user'[v].emailVerified = user[v].emailVerified /\ user'[v].admin = user[v].admin
    BY <1>1, <2>2 DEF Wrote
  <2>7. Shape'
    BY <1>2, <1>3, <2>1, <2>2, <2>3, <2>4 DEF Shape, Wrote
  <2>8. EmailsUnique' /\ VerifiedWasMailed' /\ AdminRemains'
    BY <1>2, <2>6 DEF EmailsUnique, VerifiedWasMailed, AdminRemains, Present
  <2>9. \A v \in Users : user[v].calendarFeedToken \in Nat /\ user[v].calendarFeedToken <= changes
    BY DEF TokensUnique, Shape, User
  <2>10. TokensUnique'
    BY <1>1, <1>3, <2>1, <2>2, <2>9 DEF TokensUnique, Wrote
  <2>11. FeedsKnown'
    BY <1>1, <1>2, <1>3, <2>1, <2>4 DEF FeedsKnown
  <2>12. NewOK'
    BY <1>1, <1>2, <2>2, <2>4 DEF NewOK, Wrote
  <2>13. RequestsOK'
    BY <2>3, <2>6 DEF RequestsOK, Doing
  <2>14. SavesOK'
    <3>1. ASSUME NEW q \in Requests, req'[q].op = "save",
                 req'[q].who \notin crossed', user'[req'[q].who].st = "present"
          PROVE  /\ user'[req'[q].who].calendarFeedToken = 0 /\ shown'[req'[q].who] = {}
                 /\ \A p \in Requests : req'[p].op = "save" /\ req'[p].who = req'[q].who => p = q
      <4>1. q # r /\ req'[q] = req[q] /\ Doing(q, "save") /\ req[q].who \in Users
        BY <2>3, <3>1 DEF Doing, RequestsOK
      <4>2. Present(req[q].who) /\ req[q].who \notin crossed
        BY <1>2, <2>6, <3>1, <4>1 DEF Present
      <4>3. /\ user[req[q].who].calendarFeedToken = 0 /\ shown[req[q].who] = {}
            /\ \A p \in Requests : Doing(p, "save") /\ req[p].who = req[q].who => p = q
        BY <4>1, <4>2 DEF SavesOK
      <4>4. req[q].who # u
        BY <2>5, <4>1, <4>2
      <4>. QED
        BY <2>2, <2>3, <2>4, <4>1, <4>3, <4>4 DEF Doing, Wrote
    <3>. QED
      BY <3>1 DEF SavesOK, Doing, Present
  <2>15. FeedUrlLives'
    BY <1>2, <2>2, <2>4, <2>5 DEF FeedUrlLives, Present, Wrote
  <2>16. RotationKills'
    <3>1. changes + 1 \notin burnt[u]
      BY <1>1, <1>3 DEF FeedsKnown
    <3>. QED
      BY <1>1, <1>2, <2>2, <3>1 DEF RotationKills, Present, Wrote
  <2>. QED
    BY <2>7, <2>8, <2>10, <2>11, <2>12, <2>13, <2>14, <2>15, <2>16
<1>. QED
  BY <1>4, <1>5

LEMMA RotateKeeps ==
    ASSUME IInv, NEW r \in Requests, RotateFeedToken(r)
    PROVE  IInv'
<1> USE DEF IInv
<1> DEFINE u == req[r].who
<1>1. u \in Users /\ user[u].st # "absent" /\ Doing(r, "rotate")
  BY DEF RotateFeedToken, RequestsOK, Doing
<1>2. /\ Done(r) /\ failures' = failures /\ opened' = opened
      /\ links' = links /\ raced' = raced /\ resigned' = resigned
  BY DEF RotateFeedToken, roleHistory
<1>3. raced \in BOOLEAN /\ resigned \in BOOLEAN /\ failures \in Nat /\ changes \in Nat
      /\ shown \in [Users -> SUBSET Nat] /\ burnt \in [Users -> SUBSET Nat]
  BY DEF Shape
<1>4. CASE ~Present(u)
  <2>1. user' = user /\ changes' = changes /\ shown' = shown /\ burnt' = burnt /\ crossed' = crossed
    BY <1>4 DEF RotateFeedToken, feedHistory
  <2>. QED
    BY <1>2, <1>3, <2>1, RefusedKeeps
<1>5. CASE Present(u)
  <2> DEFINE t == user[u].calendarFeedToken
             n == changes + 1
  <2>1. /\ user' = [user EXCEPT ![u].calendarFeedToken = n] /\ changes' = changes + 1
        /\ shown' = [shown EXCEPT ![u] = {n}]
        /\ burnt' = [burnt EXCEPT ![u] = @ \cup shown[u] \cup ({t} \ {0})]
        /\ crossed' = IF Saving(u) # {} THEN crossed \cup {u} ELSE crossed \ {u}
    BY <1>3, <1>5 DEF RotateFeedToken, Rotated, Counted, NewFeedToken
  <2>2. /\ Wrote(u) /\ user'[u].calendarFeedToken = n
        /\ user'[u].st = user[u].st /\ user'[u].email = user[u].email
        /\ user'[u].emailVerified = user[u].emailVerified /\ user'[u].admin = user[u].admin
    <3>1. n \in Nat
      BY <1>3
    <3> HIDE DEF u, n
    <3>. QED
      BY <1>1, <2>1, <3>1, TokenEffect
  <2>3. /\ req' \in [Requests -> Request] /\ req'[r].op = "idle"
        /\ \A q \in Requests : q # r => req'[q] = req[q]
    BY <1>2, DoneEffect
  <2>4. \A v \in Users : user[v].calendarFeedToken \in Nat /\ user[v].calendarFeedToken <= changes
    BY DEF TokensUnique, Shape, User
  <2>5. /\ shown' \in [Users -> SUBSET Nat] /\ burnt' \in [Users -> SUBSET Nat]
        /\ shown'[u] = {n} /\ burnt'[u] = burnt[u] \cup shown[u] \cup ({t} \ {0})
        /\ \A v \in Users : v # u => shown'[v] = shown[v] /\ burnt'[v] = burnt[v]
    BY <1>1, <1>3, <2>1, <2>4
  <2>6. \A v \in Users : v # u => (v \in crossed' <=> v \in crossed)
    BY <2>1
  <2>7. u \notin crossed' => \A q \in Requests : ~(Doing(q, "save") /\ req[q].who = u)
    BY <2>1 DEF Saving
  <2>8. crossed' \subseteq Users
    BY <1>1, <2>1 DEF Shape
  <2>9. /\ shown[u] \subseteq 1..changes /\ burnt[u] \subseteq 1..changes
        /\ t \in Nat /\ t <= changes
    BY <1>1, <2>4 DEF FeedsKnown
  <2> HIDE DEF u, t, n
  <2>10. n \in Nat /\ n = changes + 1
    BY <1>3 DEF n
  <2>11. \A v \in Users : /\ user'[v].st = user[v].st /\ user'[v].email = user[v].email
                          /\ user'[v].emailVerified = user[v].emailVerified /\ user'[v].admin = user[v].admin
    BY <1>1, <2>2 DEF Wrote
  <2>12. Shape'
    BY <1>2, <1>3, <2>1, <2>2, <2>3, <2>5, <2>8 DEF Shape, Wrote
  <2>13. EmailsUnique' /\ VerifiedWasMailed' /\ AdminRemains'
    BY <1>2, <2>11 DEF EmailsUnique, VerifiedWasMailed, AdminRemains, Present
  <2>14. TokensUnique'
    BY <1>1, <1>3, <2>1, <2>2, <2>4, <2>10 DEF TokensUnique, Wrote
  <2>15. FeedsKnown'
    <3>1. ASSUME NEW v \in Users, v # u
          PROVE  shown'[v] \subseteq 1..changes' /\ burnt'[v] \subseteq 1..changes'
      BY <1>3, <2>1, <2>5, <3>1 DEF FeedsKnown
    <3>2. shown'[u] \subseteq 1..changes' /\ burnt'[u] \subseteq 1..changes'
      BY <1>3, <2>1, <2>5, <2>9, <2>10
    <3>. QED
      BY <3>1, <3>2 DEF FeedsKnown
  <2>16. NewOK'
    BY <1>1, <2>2, <2>5 DEF NewOK, Wrote
  <2>17. RequestsOK'
    BY <2>3, <2>11 DEF RequestsOK, Doing
  <2>18. SavesOK'
    <3>1. ASSUME NEW q \in Requests, req'[q].op = "save",
                 req'[q].who \notin crossed', user'[req'[q].who].st = "present"
          PROVE  /\ user'[req'[q].who].calendarFeedToken = 0 /\ shown'[req'[q].who] = {}
                 /\ \A p \in Requests : req'[p].op = "save" /\ req'[p].who = req'[q].who => p = q
      <4>1. q # r /\ req'[q] = req[q] /\ Doing(q, "save") /\ req[q].who \in Users
        BY <2>3, <3>1 DEF Doing, RequestsOK
      <4>2. req[q].who # u
        BY <2>7, <3>1, <4>1
      <4>3. Present(req[q].who) /\ req[q].who \notin crossed
        BY <2>6, <2>11, <3>1, <4>1, <4>2 DEF Present
      <4>4. /\ user[req[q].who].calendarFeedToken = 0 /\ shown[req[q].who] = {}
            /\ \A p \in Requests : Doing(p, "save") /\ req[p].who = req[q].who => p = q
        BY <4>1, <4>3 DEF SavesOK
      <4>. QED
        BY <2>2, <2>3, <2>5, <4>1, <4>2, <4>4 DEF Doing, Wrote
    <3>. QED
      BY <3>1 DEF SavesOK, Doing, Present
  <2>19. FeedUrlLives'
    BY <2>2, <2>5, <2>6 DEF FeedUrlLives, Present, Wrote
  <2>20. RotationKills'
    <3>1. n \notin burnt'[u]
      BY <1>3, <2>5, <2>9, <2>10
    <3>. QED
      BY <1>1, <2>2, <2>5, <3>1 DEF RotationKills, Present, Wrote
  <2>. QED
    BY <2>12, <2>13, <2>14, <2>15, <2>16, <2>17, <2>18, <2>19, <2>20
<1>. QED
  BY <1>4, <1>5

LEMMA FailKeeps ==
    ASSUME IInv, NEW r \in Requests, Fail(r)
    PROVE  IInv'
<1>1. failures \in Nat /\ raced \in BOOLEAN /\ resigned \in BOOLEAN
  BY DEF IInv, Shape
<1>2. /\ Done(r) /\ failures' = failures + 1
      /\ user' = user /\ changes' = changes /\ opened' = opened /\ links' = links
      /\ shown' = shown /\ burnt' = burnt /\ crossed' = crossed /\ raced' = raced /\ resigned' = resigned
  BY DEF Fail, feedHistory, roleHistory
<1>. QED
  BY <1>1, <1>2, RefusedKeeps

-----------------------------------------------------------------------------
LEMMA StutterKeeps == ASSUME IInv, UNCHANGED vars PROVE IInv'
<1> USE DEF IInv, vars
<1>1. Shape' /\ RequestsOK' /\ SavesOK'
  BY DEF Shape, RequestsOK, SavesOK, Doing, Present
<1>2. EmailsUnique' /\ TokensUnique' /\ FeedsKnown' /\ NewOK'
  BY DEF EmailsUnique, TokensUnique, FeedsKnown, NewOK, Present
<1>3. VerifiedWasMailed' /\ AdminRemains' /\ FeedUrlLives' /\ RotationKills'
  BY DEF VerifiedWasMailed, AdminRemains, FeedUrlLives, RotationKills, Present
<1>. QED
  BY <1>1, <1>2, <1>3

LEMMA StepInv == IInv /\ [Next]_vars => IInv'
<1> SUFFICES ASSUME IInv, [Next]_vars PROVE IInv'
  OBVIOUS
<1>1. ASSUME NEW r \in Requests, NEW u \in Users, NEW e \in Emails, register(r, u, e) PROVE IInv'
  BY <1>1, RegisterKeeps
<1>2. ASSUME NEW r \in Requests, NEW u \in Users, NEW q \in Inputs(u), Protect(r, q) PROVE IInv'
  BY <1>2, ProtectKeeps
<1>3. ASSUME NEW r \in Requests, Handle(r) PROVE IInv'
  BY <1>3, MailKeeps, UpdateMeKeeps, RoleKeeps, DeleteKeeps, LeaveKeeps,
     ReadFeedKeeps, SaveFeedKeeps, RotateKeeps DEF Handle
<1>4. ASSUME NEW r \in Requests, Fail(r) PROVE IInv'
  BY <1>4, FailKeeps
<1>5. ASSUME NEW e \in Emails, verifyEmail(e) PROVE IInv'
  BY <1>5, VerifyKeeps
<1>6. CASE UNCHANGED vars
  BY <1>6, StutterKeeps
<1>. QED
  BY <1>1, <1>2, <1>3, <1>4, <1>5, <1>6 DEF Next

LEMMA Invariance == Spec => []IInv
<1>1. Init => IInv
  BY InitInv
<1>2. IInv /\ [Next]_vars => IInv'
  BY StepInv
<1>. QED
  BY <1>1, <1>2, PTL DEF Spec

(* Documents and requests keep their shape, and the indexes hold: no address *)
(* and no feed token belongs to two accounts.                                *)
THEOREM TypeCorrect == Spec => []TypeOK
<1>1. IInv => TypeOK
  <2> SUFFICES ASSUME IInv PROVE TypeOK
    OBVIOUS
  <2>1. ASSUME NEW e \in Emails PROVE Cardinality(Taken(e)) <= 1
    <3>1. CASE Taken(e) = {}
      BY <3>1, FS_EmptySet
    <3>2. CASE Taken(e) # {}
      <4>1. PICK u : Taken(e) = {u}
        BY <3>2 DEF IInv, EmailsUnique, Taken
      <4>. QED
        BY <4>1, FS_Singleton
    <3>. QED
      BY <3>1, <3>2
  <2>. QED
    BY <2>1 DEF IInv, Shape, TokensUnique, TypeOK
<1>. QED
  BY <1>1, Invariance, PTL

(* An address that counts as verified was verified by a mail to it.          *)
THEOREM MarksAreEarned == Spec => []VerifiedWasMailed
<1>1. IInv => VerifiedWasMailed
  BY DEF IInv
<1>. QED
  BY <1>1, Invariance, PTL

(* The last administrator is not lost to another, but for a role that was    *)
(* used after it was lost, and for resignation.                              *)
THEOREM SomeoneAdministers == Spec => []AdminRemains
<1>1. IInv => AdminRemains
  BY DEF IInv
<1>. QED
  BY <1>1, Invariance, PTL

(* A feed URL lives until a rotation and no longer, but for two first reads  *)
(* that overlapped.                                                          *)
THEOREM FeedUrlsAreSafe == Spec => []FeedUrlSafety
<1>1. IInv => FeedUrlSafety
  BY DEF IInv, FeedUrlSafety
<1>. QED
  BY <1>1, Invariance, PTL
=============================================================================
