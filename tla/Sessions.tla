------------------------------ MODULE Sessions ------------------------------
(* Refresh-token sessions of the API: the Token and User collections and the *)
(* request handlers of auth.service.ts, auth.controller.ts,                  *)
(* user.controller.ts and admin.controller.ts that read or write them.       *)
(*                                                                           *)
(* A handler is split at every database round trip it awaits: between two    *)
(* of its steps any other handler may run, on this server process or on      *)
(* another one.  One command of the database (findOne, updateOne, updateMany,*)
(* deleteMany, create, save) is one step.  An early return that writes       *)
(* nothing and keeps nothing (unknown or expired token, wrong password) is   *)
(* no step at all.                                                           *)
EXTENDS Naturals, FiniteSets

CONSTANTS
    Users,          \* user ids; an id is never given out twice
    Tokens,         \* refresh tokens; a token string is never drawn twice
    Requests,       \* the handlers that can be in flight at one time
    NoUser, NoToken,
    MaxPwd,         \* bound: password changes per user
    MaxFailures     \* bound: handlers that die half-way

ASSUME SessionsAssumption ==
    /\ NoUser \notin Users
    /\ NoToken \notin Tokens
    /\ MaxPwd \in Nat
    /\ MaxFailures \in Nat

VARIABLES
    user,           \* the User collection
    token,          \* the Token collection
    req,            \* local state of each handler
    raced,          \* history: tokens two refreshes held unrevoked at once
    failures        \* handlers that have died so far

vars == <<user, token, req, raced, failures>>

-----------------------------------------------------------------------------
(* Documents. pwd numbers the passwords a user has had; unswept is history:  *)
(* a new password is saved and no revokeAllUserTokens has run since.         *)
UserDoc == [st : {"absent", "present", "deleted"}, pwd : Nat, unswept : BOOLEAN]

(* parent: the token a refresh exchanged for this one.  cred: the password   *)
(* the login at the root of the chain was checked against.  at: the owner's  *)
(* password when the token was stored.  ownerSt: the owner's account then.   *)
(* The last four are history.                                                *)
TokenDoc ==
    [st : {"free", "live", "revoked", "deleted"}, expired : BOOLEAN,
     owner : Users \cup {NoUser}, parent : Tokens \cup {NoToken},
     cred : Nat, at : Nat, ownerSt : {"absent", "present", "deleted"}]

Points == {"idle", "loadUser", "rotate", "issue", "reuse", "setPassword",
           "revokeAll", "deleteBoth", "deleteUser", "deleteTokens"}

Request == [pc : Points, user : Users \cup {NoUser},
            token : Tokens \cup {NoToken}, cred : Nat]

Idle == [pc |-> "idle", user |-> NoUser, token |-> NoToken, cred |-> 0]

At(r, pc) == req[r].pc = pc
Live(t)   == token[t].st = "live"
Stored(t) == token[t].st \in {"live", "revoked"}
Present(u) == user[u].st = "present"

Start(r, pc, u, t, c) ==
    /\ At(r, "idle")
    /\ req' = [req EXCEPT ![r] = [pc |-> pc, user |-> u, token |-> t, cred |-> c]]
Goto(r, pc) == req' = [req EXCEPT ![r].pc = pc]
Finish(r)   == req' = [req EXCEPT ![r] = Idle]

(* A refresh that has read its token unrevoked and not yet saved it. *)
Holds(r, t) == req[r].token = t /\ req[r].pc \in {"loadUser", "rotate"}

(* Bound: every handler on its way to issueRefreshToken finds a free token. *)
Room ==
    Cardinality({r \in Requests : req[r].pc \in {"loadUser", "rotate", "issue"}})
        < Cardinality({t \in Tokens : token[t].st = "free"})

Init ==
    /\ user = [u \in Users |-> [st |-> "absent", pwd |-> 0, unswept |-> FALSE]]
    /\ token = [t \in Tokens |->
                  [st |-> "free", expired |-> FALSE, owner |-> NoUser,
                   parent |-> NoToken, cred |-> 0, at |-> 0, ownerSt |-> "absent"]]
    /\ req = [r \in Requests |-> Idle]
    /\ raced = {}
    /\ failures = 0

-----------------------------------------------------------------------------
(* register: User.create, then issueTokenPair *)
Register(r, u) ==
    /\ Room
    /\ user[u].st = "absent"
    /\ user' = [user EXCEPT ![u].st = "present"]
    /\ Start(r, "issue", u, NoToken, 0)
    /\ UNCHANGED <<token, raced, failures>>

(* login: findOne and comparePassword on the document it returned *)
Login(r, u) ==
    /\ Room
    /\ Present(u)
    /\ Start(r, "issue", u, NoToken, user[u].pwd)
    /\ UNCHANGED <<user, token, raced, failures>>

(* Seeded fault: the findOne forgets to look at revokedAt. *)
RefreshLive_NoRevokedCheck(r, t) ==
    /\ Room
    /\ Stored(t) /\ ~token[t].expired
    /\ raced' = IF \E q \in Requests : Holds(q, t) THEN raced \cup {t} ELSE raced
    /\ Start(r, "loadUser", token[t].owner, t, token[t].cred)
    /\ UNCHANGED <<user, token, failures>>

(* refreshAccessToken, the findOne: an unrevoked, unexpired token *)
RefreshLive(r, t) ==
    /\ Room
    /\ Live(t) /\ ~token[t].expired
    /\ raced' = IF \E q \in Requests : Holds(q, t) THEN raced \cup {t} ELSE raced
    /\ Start(r, "loadUser", token[t].owner, t, token[t].cred)
    /\ UNCHANGED <<user, token, failures>>

(* ... and a revoked one, expired or not *)
RefreshRevoked(r, t) ==
    /\ token[t].st = "revoked"
    /\ Start(r, "reuse", token[t].owner, t, 0)
    /\ UNCHANGED <<user, token, raced, failures>>

(* Seeded fault: the account is not looked up again. *)
LoadUser_NoCheck(r) ==
    /\ At(r, "loadUser")
    /\ Goto(r, "rotate")
    /\ UNCHANGED <<user, token, raced, failures>>

(* ... User.findById *)
LoadUser(r) ==
    /\ At(r, "loadUser")
    /\ IF Present(req[r].user) THEN Goto(r, "rotate") ELSE Finish(r)
    /\ UNCHANGED <<user, token, raced, failures>>

(* Seeded fault: the new token is issued, the old one is not revoked. *)
Rotate_NoSave(r) ==
    /\ At(r, "rotate")
    /\ Goto(r, "issue")
    /\ UNCHANGED <<user, token, raced, failures>>

(* Seeded fault: the save is an upsert and stores a deleted token again. *)
Rotate_Upsert(r) ==
    /\ At(r, "rotate")
    /\ token' = [token EXCEPT ![req[r].token].st = "revoked"]
    /\ Goto(r, "issue")
    /\ UNCHANGED <<user, raced, failures>>

(* ... tokenDoc.save(): an update by _id alone, which throws when no document *)
(* is left to update                                                          *)
Rotate(r) ==
    /\ At(r, "rotate")
    /\ LET t == req[r].token IN
         \/ /\ Stored(t)
            /\ token' = [token EXCEPT ![t].st = "revoked"]
            /\ Goto(r, "issue")
         \/ /\ ~Stored(t)
            /\ Finish(r)
            /\ UNCHANGED token
    /\ UNCHANGED <<user, raced, failures>>

(* issueRefreshToken: Token.create *)
Issue(r) ==
    /\ At(r, "issue")
    /\ \E t \in Tokens :
         /\ token[t].st = "free"
         /\ token' = [token EXCEPT ![t] =
              [st |-> "live", expired |-> FALSE, owner |-> req[r].user,
               parent |-> req[r].token, cred |-> req[r].cred,
               at |-> user[req[r].user].pwd,
               ownerSt |-> user[req[r].user].st]]
    /\ Finish(r)
    /\ UNCHANGED <<user, raced, failures>>

(* The guarded update logout and revokeSession share. *)
RevokeOne(t) ==
    /\ Live(t)
    /\ token' = [token EXCEPT ![t].st = "revoked"]
    /\ UNCHANGED <<user, req, raced, failures>>

(* logout: whoever holds the token string may end its session *)
Logout(t) == RevokeOne(t)

(* revokeSession: by the owner, past protect *)
RevokeSession(u, t) == Present(u) /\ token[t].owner = u /\ RevokeOne(t)

(* changePassword and resetPassword: findById, and the check of the current  *)
(* password or of the reset link                                             *)
BeginPasswordChange(r, u) ==
    /\ Present(u)
    /\ user[u].pwd
         + Cardinality({q \in Requests : At(q, "setPassword") /\ req[q].user = u})
         < MaxPwd
    /\ Start(r, "setPassword", u, NoToken, 0)
    /\ UNCHANGED <<user, token, raced, failures>>

(* Seeded fault: the handler answers without calling revokeAllUserTokens. *)
SetPassword_NoRevoke(r) ==
    /\ At(r, "setPassword")
    /\ LET u == req[r].user IN
         user' = IF Present(u)
                 THEN [user EXCEPT ![u].pwd = @ + 1, ![u].unswept = TRUE]
                 ELSE user
    /\ Finish(r)
    /\ UNCHANGED <<token, raced, failures>>

(* ... user.save(), which throws when the account is gone *)
SetPassword(r) ==
    /\ At(r, "setPassword")
    /\ LET u == req[r].user IN
         \/ /\ Present(u)
            /\ user' = [user EXCEPT ![u].pwd = @ + 1, ![u].unswept = TRUE]
            /\ Goto(r, "revokeAll")
         \/ /\ ~Present(u)
            /\ Finish(r)
            /\ UNCHANGED user
    /\ UNCHANGED <<token, raced, failures>>

(* Seeded fault: updateOne where updateMany is meant. *)
RevokeAll_One(r) ==
    /\ req[r].pc \in {"revokeAll", "reuse"}
    /\ LET mine == {t \in Tokens : Live(t) /\ token[t].owner = req[r].user} IN
         \/ mine = {} /\ UNCHANGED token
         \/ \E t \in mine : token' = [token EXCEPT ![t].st = "revoked"]
    /\ user' = [user EXCEPT ![req[r].user].unswept = FALSE]
    /\ Finish(r)
    /\ UNCHANGED <<raced, failures>>

(* Seeded fault: the filter lacks the user. *)
RevokeAll_AnyUser(r) ==
    /\ req[r].pc \in {"revokeAll", "reuse"}
    /\ token' = [t \in Tokens |->
                   IF Live(t) THEN [token[t] EXCEPT !.st = "revoked"] ELSE token[t]]
    /\ user' = [user EXCEPT ![req[r].user].unswept = FALSE]
    /\ Finish(r)
    /\ UNCHANGED <<raced, failures>>

(* Seeded fault: reuse is reported, and the sessions are left alone. *)
RevokeAll_ReuseOnlyThrows(r) ==
    /\ req[r].pc \in {"revokeAll", "reuse"}
    /\ LET u == req[r].user IN
         token' = [t \in Tokens |->
                     IF At(r, "revokeAll") /\ Live(t) /\ token[t].owner = u
                     THEN [token[t] EXCEPT !.st = "revoked"] ELSE token[t]]
    /\ user' = [user EXCEPT ![req[r].user].unswept = FALSE]
    /\ Finish(r)
    /\ UNCHANGED <<raced, failures>>

(* revokeAllUserTokens after a password change, and the updateMany of the    *)
(* reuse detection                                                           *)
RevokeAll(r) ==
    /\ req[r].pc \in {"revokeAll", "reuse"}
    /\ LET u == req[r].user IN
         /\ token' = [t \in Tokens |->
                        IF Live(t) /\ token[t].owner = u
                        THEN [token[t] EXCEPT !.st = "revoked"] ELSE token[t]]
         /\ user' = [user EXCEPT ![u].unswept = FALSE]
    /\ Finish(r)
    /\ UNCHANGED <<raced, failures>>

(* deleteMe: User.deleteOne and Token.deleteMany run side by side *)
DeleteMe(r, u) ==
    /\ Present(u)
    /\ Start(r, "deleteBoth", u, NoToken, 0)
    /\ UNCHANGED <<user, token, raced, failures>>

(* deleteUser (admin): the account first, its tokens next *)
AdminDelete(r, u) ==
    /\ Present(u)
    /\ user' = [user EXCEPT ![u].st = "deleted"]
    /\ Start(r, "deleteTokens", u, NoToken, 0)
    /\ UNCHANGED <<token, raced, failures>>

DropUser(r) ==
    /\ \/ At(r, "deleteBoth") /\ Goto(r, "deleteTokens")
       \/ At(r, "deleteUser") /\ Finish(r)
    /\ user' = [user EXCEPT ![req[r].user].st = "deleted"]
    /\ UNCHANGED <<token, raced, failures>>

DropTokens(r) ==
    /\ \/ At(r, "deleteBoth") /\ Goto(r, "deleteUser")
       \/ At(r, "deleteTokens") /\ Finish(r)
    /\ token' = [t \in Tokens |->
                   IF Stored(t) /\ token[t].owner = req[r].user
                   THEN [token[t] EXCEPT !.st = "deleted"] ELSE token[t]]
    /\ UNCHANGED <<user, raced, failures>>

(* REFRESH_TOKEN_TTL runs out *)
Expire(t) ==
    /\ Live(t) /\ ~token[t].expired
    /\ token' = [token EXCEPT ![t].expired = TRUE]
    /\ UNCHANGED <<user, req, raced, failures>>

(* The process dies, or a database call of the handler throws. *)
Fail(r) ==
    /\ ~At(r, "idle")
    /\ failures < MaxFailures
    /\ failures' = failures + 1
    /\ Finish(r)
    /\ UNCHANGED <<user, token, raced>>

-----------------------------------------------------------------------------
(* What a handler does once it has started. *)
Continue(r) ==
    \/ LoadUser(r) \/ Rotate(r) \/ Issue(r)
    \/ SetPassword(r) \/ RevokeAll(r)
    \/ DropUser(r) \/ DropTokens(r)

Next ==
    \/ \E r \in Requests :
         \/ Continue(r)
         \/ Fail(r)
         \/ \E u \in Users :
              \/ Register(r, u) \/ Login(r, u) \/ BeginPasswordChange(r, u)
              \/ DeleteMe(r, u) \/ AdminDelete(r, u)
         \/ \E t \in Tokens : RefreshLive(r, t) \/ RefreshRevoked(r, t)
    \/ \E t \in Tokens :
         \/ Logout(t) \/ Expire(t)
         \/ \E u \in Users : RevokeSession(u, t)

Spec == Init /\ [][Next]_vars

(* Node resumes a handler when the database has answered: a handler that has *)
(* started is not left waiting for ever.  Nothing forces a request to arrive.*)
FairSpec == Spec /\ \A r \in Requests : WF_vars(Continue(r))

-----------------------------------------------------------------------------
(* Every variable keeps the shape of its collection; a stored token and a    *)
(* running handler belong to a user.                                         *)
TypeOK ==
    /\ user \in [Users -> UserDoc]
    /\ token \in [Tokens -> TokenDoc]
    /\ req \in [Requests -> Request]
    /\ raced \subseteq Tokens
    /\ failures \in Nat
    /\ \A t \in Tokens : token[t].st # "free" => token[t].owner \in Users
    /\ \A r \in Requests : ~At(r, "idle") => req[r].user \in Users

(* A token that was exchanged for another is never usable again: whatever    *)
(* runs between tokenDoc.save and Token.create, a crash there included, a    *)
(* chain never has both ends live.                                           *)
RotatedTokenIsDead ==
    \A t \in Tokens : token[t].parent # NoToken => ~Live(token[t].parent)

(* refreshAccessToken hands out two successors of one token only when two    *)
(* refreshes had both read it before either of them saved it: without such   *)
(* an overlap, however long the history, a token is exchanged at most once.  *)
ForkNeedsOverlap ==
    \A s, t \in Tokens :
        (s # t /\ token[s].parent = token[t].parent /\ token[s].parent # NoToken)
            => token[s].parent \in raced

(* Once revokeAllUserTokens has run after the last save of a password, every *)
(* live session was stored under the password in force: no session that was  *)
(* stored before the change outlives it.                                     *)
SweptSessionsAreCurrent ==
    \A t \in Tokens :
        (Live(t) /\ ~user[token[t].owner].unswept)
            => token[t].at = user[token[t].owner].pwd

(* A session that a slow login or refresh stored after its account was       *)
(* deleted is never exchanged for another: it cannot be kept alive.          *)
OrphansAreBarren ==
    \A t \in Tokens :
        token[t].parent # NoToken => token[token[t].parent].ownerSt # "deleted"

(* Rotation, whatever overlaps or dies: one live end to a chain, forks only  *)
(* from overlaps, and no chain outlives its account by a refresh.            *)
RotationSafety == RotatedTokenIsDead /\ ForkNeedsOverlap /\ OrphansAreBarren

(* What a client has in its refresh token, however the handlers interleave.  *)
(* A refresh claims its token from the read to the Token.create, and may     *)
(* still complete when the token is revoked or deleted under it.             *)
Claims(r, t) == req[r].token = t /\ req[r].pc \in {"loadUser", "rotate", "issue"}
Current == {t \in Tokens : \/ Live(t) /\ ~token[t].expired
                           \/ \E r \in Requests : Claims(r, t)}

Chains == INSTANCE SessionChains WITH
    used      <- {t \in Tokens : token[t].st # "free"},
    current   <- Current,
    contested <- raced,
    owner     <- [t \in Tokens |-> token[t].owner],
    from      <- [t \in Tokens |-> token[t].parent]

(* refreshAccessToken, in all its steps, rotates or refuses: a token handed  *)
(* out is exchanged once, or twice if two refreshes overlapped; whatever     *)
(* ends it, it cannot be exchanged later; and what ends at once is one       *)
(* user's.                                                                   *)
RotatesOrRefuses == Chains!CSpec

(* What is revoked stays revoked until the account is deleted, a save of a   *)
(* stale tokenDoc by a concurrent refresh included, and a deleted token does *)
(* not come back.                                                            *)
RevokedForGood ==
    [][\A t \in Tokens :
         /\ token[t].st = "revoked" => token'[t].st \in {"revoked", "deleted"}
         /\ token[t].st = "deleted" => token'[t].st = "deleted"]_vars

(* No step ends sessions of two users: reuse detection, password changes and *)
(* account deletions never reach beyond the account they are about.          *)
SessionsEndPerUser ==
    [][\A s, t \in Tokens :
         (/\ Live(s) /\ token'[s].st # "live"
          /\ Live(t) /\ token'[t].st # "live")
             => token[s].owner = token[t].owner]_vars

(* Liveness, with MaxFailures = 0: a replayed token ends every session its   *)
(* owner had when the replay was noticed.                                    *)
ReplayEndsSessions ==
    \A r \in Requests, t \in Tokens :
        (At(r, "reuse") /\ Live(t) /\ token[t].owner = req[r].user) ~> ~Live(t)

(* ... and a saved password is always followed by the sweep of the sessions. *)
PasswordChangeSweeps ==
    \A u \in Users : user[u].unswept ~> ~user[u].unswept

(* A revocation that was decided on is carried out. *)
RevocationsHappen == ReplayEndsSessions /\ PasswordChangeSweeps
=============================================================================
