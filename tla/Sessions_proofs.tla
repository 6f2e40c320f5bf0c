--------------------------- MODULE Sessions_proofs ---------------------------
(* Proofs about Sessions: typing, and an inductive invariant from which      *)
(* every safety property of the module follows, for any number of users,     *)
(* tokens, handlers in flight and failures.                                  *)
EXTENDS Sessions, TLAPS

(* The parts of TypeOK, one per collection. *)
UserOK  == user \in [Users -> UserDoc]
TokenOK ==
    /\ token \in [Tokens -> TokenDoc]
    /\ \A t \in Tokens : token[t].st # "free" => token[t].owner \in Users
ReqOK   ==
    /\ req \in [Requests -> Request]
    /\ \A r \in Requests : ~At(r, "idle") => req[r].user \in Users

LEMMA TypeParts == TypeOK <=> UserOK /\ TokenOK /\ ReqOK /\ raced \subseteq Tokens /\ failures \in Nat
BY DEF TypeOK, UserOK, TokenOK, ReqOK

-----------------------------------------------------------------------------
(* How a handler moves. *)
LEMMA StartKeepsReq ==
    ASSUME ReqOK, NEW r \in Requests, NEW pc \in Points, NEW u \in Users,
           NEW t \in Tokens \cup {NoToken}, NEW c \in Nat, Start(r, pc, u, t, c)
    PROVE  ReqOK'
BY DEF ReqOK, Request, Start, At

LEMMA GotoKeepsReq ==
    ASSUME ReqOK, NEW r \in Requests, ~At(r, "idle"), NEW pc \in Points, Goto(r, pc)
    PROVE  ReqOK'
<1>1. req' = [req EXCEPT ![r] = [req[r] EXCEPT !.pc = pc]]
  BY DEF Goto
<1>2. [req[r] EXCEPT !.pc = pc] \in Request /\ [req[r] EXCEPT !.pc = pc].user = req[r].user
  BY DEF ReqOK, Request
<1>. QED
  BY <1>1, <1>2 DEF ReqOK, At

LEMMA FinishKeepsReq ==
    ASSUME ReqOK, NEW r \in Requests, Finish(r)
    PROVE  ReqOK'
<1>1. Idle \in Request /\ Idle.pc = "idle"
  BY DEF Idle, Request, Points
<1>. QED
  BY <1>1 DEF ReqOK, Finish, At

(* How a document changes: a status, a flag. *)
LEMMA StatusKeepsToken ==
    ASSUME TokenOK, NEW S \in SUBSET Tokens, NEW st \in {"revoked", "deleted"},
           \A t \in S : token[t].st # "free",
           token' = [t \in Tokens |->
                       IF t \in S THEN [token[t] EXCEPT !.st = st] ELSE token[t]]
    PROVE  TokenOK'
<1>1. ASSUME NEW t \in S
      PROVE  [token[t] EXCEPT !.st = st] \in TokenDoc
             /\ [token[t] EXCEPT !.st = st].owner = token[t].owner
  BY DEF TokenOK, TokenDoc
<1>. QED
  BY <1>1 DEF TokenOK

LEMMA OneStatusKeepsToken ==
    ASSUME TokenOK, NEW t \in Tokens, NEW st \in {"revoked", "deleted"},
           token[t].st # "free", token' = [token EXCEPT ![t].st = st]
    PROVE  TokenOK'
<1>1. token' = [s \in Tokens |->
                  IF s \in {t} THEN [token[s] EXCEPT !.st = st] ELSE token[s]]
  BY DEF TokenOK
<1>. QED
  BY <1>1, StatusKeepsToken

LEMMA UserDocKept ==
    ASSUME UserOK, NEW u \in Users, NEW d \in UserDoc, user' = [user EXCEPT ![u] = d]
    PROVE  UserOK'
BY DEF UserOK

-----------------------------------------------------------------------------
LEMMA InitType == Init => TypeOK
BY SessionsAssumption DEF Init, TypeOK, UserDoc, TokenDoc, Request, Points, Idle, At

LEMMA StepType == TypeOK /\ [Next]_vars => TypeOK'
<1> SUFFICES ASSUME UserOK, TokenOK, ReqOK, raced \subseteq Tokens, failures \in Nat,
                    [Next]_vars
             PROVE  UserOK' /\ TokenOK' /\ ReqOK' /\ (raced \subseteq Tokens)'
                    /\ (failures \in Nat)'
  BY TypeParts DEF TypeOK, UserOK, TokenOK, ReqOK, At
<1> DEFINE TypeKept == UserOK' /\ TokenOK' /\ ReqOK' /\ (raced \subseteq Tokens)'
                       /\ (failures \in Nat)'
<1>a. /\ UNCHANGED user => UserOK'
      /\ UNCHANGED token => TokenOK'
      /\ UNCHANGED req => ReqOK'
  BY DEF UserOK, TokenOK, ReqOK, At
<1>b. ASSUME NEW u \in Users, NEW st \in {"present", "deleted"},
             user' = [user EXCEPT ![u].st = st]
      PROVE  UserOK'
  <2>1. [user[u] EXCEPT !.st = st] \in UserDoc
    BY DEF UserOK, UserDoc
  <2>. QED
    BY <1>b, <2>1 DEF UserOK
<1>1. ASSUME NEW r \in Requests, NEW u \in Users, Register(r, u) PROVE TypeKept
  BY <1>1, <1>a, <1>b, StartKeepsReq DEF Register, Points
<1>2. ASSUME NEW r \in Requests, NEW u \in Users, Login(r, u) PROVE TypeKept
  <2>1. user[u].pwd \in Nat
    BY DEF UserOK, UserDoc
  <2>. QED
    BY <1>2, <2>1, <1>a, StartKeepsReq DEF Login, Points
<1>3. ASSUME NEW r \in Requests, NEW t \in Tokens, RefreshLive(r, t) PROVE TypeKept
  <2>1. token[t].owner \in Users /\ token[t].cred \in Nat
    BY <1>3 DEF RefreshLive, Live, TokenOK, TokenDoc
  <2>. QED
    BY <1>3, <2>1, <1>a, StartKeepsReq DEF RefreshLive, Points
<1>4. ASSUME NEW r \in Requests, NEW t \in Tokens, RefreshRevoked(r, t) PROVE TypeKept
  <2>1. token[t].owner \in Users
    BY <1>4 DEF RefreshRevoked, TokenOK
  <2>. QED
    BY <1>4, <2>1, <1>a, StartKeepsReq DEF RefreshRevoked, Points
<1>5. ASSUME NEW r \in Requests, LoadUser(r) PROVE TypeKept
  BY <1>5, <1>a, GotoKeepsReq, FinishKeepsReq DEF LoadUser, Points, At
<1>6. ASSUME NEW r \in Requests, Rotate(r) PROVE TypeKept
  <2>1. req[r].token \in Tokens \cup {NoToken}
    BY DEF ReqOK, Request
  <2>2. ReqOK'
    BY <1>6, GotoKeepsReq, FinishKeepsReq DEF Rotate, Points, At
  <2>3. CASE UNCHANGED token
    BY <1>6, <2>2, <2>3, <1>a DEF Rotate
  <2>4. CASE req[r].token \in Tokens /\ Stored(req[r].token)
             /\ token' = [token EXCEPT ![req[r].token].st = "revoked"]
    BY <1>6, <2>2, <2>4, <1>a, OneStatusKeepsToken DEF Rotate, Stored
  <2>5. CASE req[r].token \notin Tokens
             /\ token' = [token EXCEPT ![req[r].token].st = "revoked"]
    <3>1. token' = token
      BY <2>5 DEF TokenOK
    <3>. QED
      BY <1>6, <2>2, <3>1, <1>a DEF Rotate
  <2>. QED
    BY <1>6, <2>1, <2>3, <2>4, <2>5 DEF Rotate
<1>7. ASSUME NEW r \in Requests, Issue(r) PROVE TypeKept
  <2>1. req[r] \in Request /\ req[r].user \in Users
    BY <1>7 DEF Issue, ReqOK, At
  <2>2. user[req[r].user].pwd \in Nat /\ user[req[r].user].st \in {"absent", "present", "deleted"}
    BY <2>1 DEF UserOK, UserDoc
  <2> DEFINE d == [st |-> "live", expired |-> FALSE, owner |-> req[r].user,
                   parent |-> req[r].token, cred |-> req[r].cred,
                   at |-> user[req[r].user].pwd, ownerSt |-> user[req[r].user].st]
  <2>3. PICK t \in Tokens : token' = [token EXCEPT ![t] = d]
    BY <1>7 DEF Issue
  <2>4. d \in TokenDoc /\ d.owner \in Users
    BY <2>1, <2>2 DEF TokenDoc, Request
  <2>5. TokenOK'
    <3> HIDE DEF d
    <3>. QED
      BY <2>3, <2>4 DEF TokenOK
  <2>. QED
    BY <1>7, <2>5, <1>a, FinishKeepsReq DEF Issue
<1>8. ASSUME NEW t \in Tokens, RevokeOne(t) PROVE TypeKept
  BY <1>8, <1>a, OneStatusKeepsToken DEF RevokeOne, Live
<1>9. ASSUME NEW r \in Requests, NEW u \in Users, BeginPasswordChange(r, u) PROVE TypeKept
  BY <1>9, <1>a, StartKeepsReq DEF BeginPasswordChange, Points
<1>10. ASSUME NEW r \in Requests, SetPassword(r) PROVE TypeKept
  <2>1. req[r].user \in Users
    BY <1>10 DEF SetPassword, ReqOK, At
  <2>2. [user[req[r].user] EXCEPT !.pwd = @ + 1, !.unswept = TRUE] \in UserDoc
    <3>1. PICK d \in UserDoc : d = user[req[r].user]
      BY <2>1 DEF UserOK
    <3>2. d.pwd + 1 \in Nat
      BY DEF UserDoc
    <3>3. [d EXCEPT !.pwd = d.pwd + 1, !.unswept = TRUE] \in UserDoc
      BY <3>2 DEF UserDoc
    <3>. QED
      BY <3>1, <3>3
  <2>3. UserOK'
    BY <1>10, <2>1, <2>2, <1>a, UserDocKept DEF SetPassword, UserOK
  <2>. QED
    BY <1>10, <2>3, <1>a, GotoKeepsReq, FinishKeepsReq DEF SetPassword, Points, At
<1>11. ASSUME NEW r \in Requests, RevokeAll(r) PROVE TypeKept
  <2>1. req[r].user \in Users
    BY <1>11 DEF RevokeAll, ReqOK, At
  <2>2. [user[req[r].user] EXCEPT !.unswept = FALSE] \in UserDoc
    BY <2>1 DEF UserOK, UserDoc
  <2>3. UserOK'
    BY <1>11, <2>1, <2>2, UserDocKept DEF RevokeAll, UserOK
  <2>4. TokenOK'
    <3> DEFINE S == {t \in Tokens : Live(t) /\ token[t].owner = req[r].user}
    <3>1. token' = [t \in Tokens |->
                      IF t \in S THEN [token[t] EXCEPT !.st = "revoked"] ELSE token[t]]
      BY <1>11 DEF RevokeAll
    <3>2. \A t \in S : token[t].st # "free"
      BY DEF Live
    <3>. QED
      BY <3>1, <3>2, StatusKeepsToken
  <2>. QED
    BY <1>11, <2>3, <2>4, <1>a, FinishKeepsReq DEF RevokeAll
<1>12. ASSUME NEW r \in Requests, NEW u \in Users, DeleteMe(r, u) PROVE TypeKept
  BY <1>12, <1>a, StartKeepsReq DEF DeleteMe, Points
<1>13. ASSUME NEW r \in Requests, NEW u \in Users, AdminDelete(r, u) PROVE TypeKept
  BY <1>13, <1>a, <1>b, StartKeepsReq DEF AdminDelete, Points
<1>14. ASSUME NEW r \in Requests, DropUser(r) PROVE TypeKept
  <2>1. req[r].user \in Users
    BY <1>14 DEF DropUser, ReqOK, At
  <2>. QED
    BY <1>14, <2>1, <1>a, <1>b, GotoKeepsReq, FinishKeepsReq DEF DropUser, Points, At
<1>15. ASSUME NEW r \in Requests, DropTokens(r) PROVE TypeKept
  <2>1. TokenOK'
    <3> DEFINE S == {t \in Tokens : Stored(t) /\ token[t].owner = req[r].user}
    <3>1. token' = [t \in Tokens |->
                      IF t \in S THEN [token[t] EXCEPT !.st = "deleted"] ELSE token[t]]
      BY <1>15 DEF DropTokens
    <3>2. \A t \in S : token[t].st # "free"
      BY DEF Stored
    <3>. QED
      BY <3>1, <3>2, StatusKeepsToken
  <2>. QED
    BY <1>15, <2>1, <1>a, GotoKeepsReq, FinishKeepsReq DEF DropTokens, Points, At
<1>16. ASSUME NEW t \in Tokens, Expire(t) PROVE TypeKept
  <2>1. [token[t] EXCEPT !.expired = TRUE] \in TokenDoc
        /\ [token[t] EXCEPT !.expired = TRUE].owner = token[t].owner
        /\ [token[t] EXCEPT !.expired = TRUE].st = token[t].st
    BY DEF TokenOK, TokenDoc
  <2>2. TokenOK'
    BY <1>16, <2>1 DEF Expire, TokenOK
  <2>. QED
    BY <1>16, <2>2, <1>a DEF Expire
<1>17. ASSUME NEW r \in Requests, Fail(r) PROVE TypeKept
  BY <1>17, <1>a, FinishKeepsReq DEF Fail
<1>18. CASE UNCHANGED vars
  BY <1>18, <1>a DEF vars
<1>. QED
  BY <1>1, <1>2, <1>3, <1>4, <1>5, <1>6, <1>7, <1>8, <1>9, <1>10, <1>11, <1>12,
     <1>13, <1>14, <1>15, <1>16, <1>17, <1>18
     DEF Next, Continue, Logout, RevokeSession

(* Every collection keeps its shape, whatever handlers run and die. *)
THEOREM TypeCorrect == Spec => []TypeOK
BY InitType, StepType, PTL DEF Spec

-----------------------------------------------------------------------------
(* The inductive invariant. *)

(* What a claim, and a parent link, say about the token they point to. *)
LinksOK ==
    /\ \A r \in Requests, t \in Tokens :
         Claims(r, t) => token[t].st # "free" /\ token[t].owner = req[r].user
    /\ \A r \in Requests, t \in Tokens :
         Claims(r, t) /\ At(r, "issue") => ~Live(t)
    /\ \A t \in Tokens : token[t].st = "free" => token[t].parent = NoToken
    /\ \A s, t \in Tokens :
         token[s].parent = t => token[t].st \in {"revoked", "deleted"}

(* A token nobody raced for has one claim or one successor, never two. *)
ForkOK ==
    /\ \A t \in Tokens \ raced, q, r \in Requests :
         Claims(q, t) /\ Claims(r, t) => q = r
    /\ \A t \in Tokens \ raced, s \in Tokens, r \in Requests :
         ~(token[s].parent = t /\ Claims(r, t))
    /\ \A p \in Tokens \ raced, s, t \in Tokens :
         token[s].parent = p /\ token[t].parent = p => s = t

(* Deleted accounts stay deleted, and a refresh past LoadUser has a token    *)
(* stored before that.                                                       *)
OrphanOK ==
    /\ \A t \in Tokens :
         token[t].st # "free" /\ token[t].ownerSt = "deleted"
            => user[token[t].owner].st = "deleted"
    /\ \A r \in Requests, t \in Tokens :
         Claims(r, t) /\ req[r].pc \in {"rotate", "issue"}
            => token[t].ownerSt # "deleted"
    /\ \A s, t \in Tokens :
         token[s].parent = t => token[t].ownerSt # "deleted"

IInv == TypeOK /\ LinksOK /\ ForkOK /\ OrphanOK /\ SweptSessionsAreCurrent

LEMMA InvImplies ==
    IInv => /\ RotatedTokenIsDead /\ ForkNeedsOverlap
            /\ SweptSessionsAreCurrent /\ OrphansAreBarren
<1> SUFFICES ASSUME IInv
             PROVE  /\ RotatedTokenIsDead /\ ForkNeedsOverlap
                    /\ SweptSessionsAreCurrent /\ OrphansAreBarren
  OBVIOUS
<1>1. \A t \in Tokens : token[t].parent \in Tokens \cup {NoToken}
  BY DEF IInv, TypeOK, TokenDoc
<1>. QED
  BY <1>1 DEF IInv, LinksOK, ForkOK, OrphanOK, RotatedTokenIsDead,
              ForkNeedsOverlap, OrphansAreBarren, Live

-----------------------------------------------------------------------------
(* Most steps store no token and take no claim.  Tokens only move forward,   *)
(* with their history kept ...                                               *)
Ageing ==
    \A t \in Tokens :
        /\ token'[t].owner = token[t].owner /\ token'[t].parent = token[t].parent
        /\ token'[t].ownerSt = token[t].ownerSt /\ token'[t].at = token[t].at
        /\ token'[t].st = "live" => token[t].st = "live"
        /\ token'[t].st = "free" <=> token[t].st = "free"
        /\ token[t].expired => token'[t].expired

(* ... accounts do not come back, and a claim moves on only past the step    *)
(* that earned it.                                                           *)
NoNewClaim ==
    \A r \in Requests, t \in Tokens : Claims(r, t)' =>
        /\ Claims(r, t) /\ req'[r].user = req[r].user
        /\ req'[r].pc = "issue" => req[r].pc = "issue" \/ token'[t].st # "live"
        /\ req'[r].pc \in {"rotate", "issue"} =>
              req[r].pc \in {"rotate", "issue"} \/ token[t].ownerSt # "deleted"

Onward ==
    \A u \in Users : user[u].st = "deleted" => user'[u].st = "deleted"

LEMMA QuietStep ==
    ASSUME TypeOK, LinksOK, ForkOK, OrphanOK, TypeOK',
           Ageing, NoNewClaim, Onward, raced \subseteq raced'
    PROVE  LinksOK' /\ ForkOK' /\ OrphanOK'
<1> DEFINE Sts == {"free", "live", "revoked", "deleted"}
<1>1. \A t \in Tokens : token[t].st \in Sts /\ token'[t].st \in Sts
  BY DEF TypeOK, TokenDoc
<1>2. LinksOK'
  BY <1>1 DEF Ageing, NoNewClaim, LinksOK, Live, At
<1>3. ForkOK'
  BY DEF Ageing, NoNewClaim, ForkOK
<1>4. OrphanOK'
  <2>1. \A t \in Tokens : token[t].st # "free" => token[t].owner \in Users
    BY DEF TypeOK
  <2>. QED
    BY <2>1 DEF Ageing, NoNewClaim, Onward, OrphanOK
<1>. QED
  BY <1>2, <1>3, <1>4

(* A handler that starts without a token, or ends, claims nothing new. *)
LEMMA StartClaims ==
    ASSUME TypeOK, NEW r \in Requests, NEW pc, NEW u, NEW c, Start(r, pc, u, NoToken, c)
    PROVE  NoNewClaim
BY SessionsAssumption DEF TypeOK, Start, NoNewClaim, Claims

LEMMA FinishClaims ==
    ASSUME TypeOK, NEW r \in Requests, Finish(r)
    PROVE  NoNewClaim
BY DEF TypeOK, Finish, NoNewClaim, Claims, Idle

LEMMA GotoClaims ==
    ASSUME TypeOK, NEW r \in Requests, NEW pc \in Points,
           req[r].pc \notin {"loadUser", "rotate", "issue"}, Goto(r, pc),
           pc \notin {"loadUser", "rotate", "issue"}
    PROVE  NoNewClaim
<1>1. req'[r].pc = pc /\ \A q \in Requests : q # r => req'[q] = req[q]
  BY DEF TypeOK, Goto, Request
<1>. QED
  BY <1>1 DEF NoNewClaim, Claims

LEMMA StatusAges ==
    ASSUME TypeOK, NEW S \in SUBSET Tokens, NEW st \in {"revoked", "deleted"},
           \A t \in S : token[t].st # "free",
           token' = [t \in Tokens |->
                       IF t \in S THEN [token[t] EXCEPT !.st = st] ELSE token[t]]
    PROVE  /\ Ageing
           /\ \A t \in Tokens : token'[t].st = IF t \in S THEN st ELSE token[t].st
<1>1. ASSUME NEW t \in Tokens, NEW d \in TokenDoc, d = token[t], t \in S
      PROVE  /\ token'[t].owner = d.owner /\ token'[t].parent = d.parent
             /\ token'[t].ownerSt = d.ownerSt /\ token'[t].at = d.at
             /\ token'[t].st = st /\ (d.expired => token'[t].expired)
  BY <1>1 DEF TokenDoc
<1>2. \A t \in Tokens : token[t] \in TokenDoc
  BY DEF TypeOK
<1>. QED
  BY <1>1, <1>2 DEF Ageing

LEMMA OneStatusAges ==
    ASSUME TypeOK, NEW t \in Tokens, NEW st \in {"revoked", "deleted"},
           token[t].st # "free", token' = [token EXCEPT ![t].st = st]
    PROVE  Ageing /\ token'[t].st = st
<1>1. token' = [s \in Tokens |->
                  IF s \in {t} THEN [token[s] EXCEPT !.st = st] ELSE token[s]]
  BY DEF TypeOK
<1>. QED
  BY <1>1, StatusAges

LEMMA SameTokenAges == UNCHANGED token => Ageing
BY DEF Ageing

(* The two steps that are not quiet: taking a claim on a live token ...      *)
LEMMA RefreshLiveStep ==
    ASSUME TypeOK, LinksOK, ForkOK, OrphanOK, TypeOK',
           NEW r \in Requests, NEW t \in Tokens, RefreshLive(r, t)
    PROVE  LinksOK' /\ ForkOK' /\ OrphanOK'
<1>1. /\ req[r].pc = "idle" /\ req'[r].pc = "loadUser"
      /\ req'[r].token = t /\ req'[r].user = token[t].owner
      /\ \A q \in Requests : q # r => req'[q] = req[q]
  BY DEF RefreshLive, Start, At, TypeOK
<1>2. token' = token /\ user' = user /\ token[t].st = "live"
  BY DEF RefreshLive, Live
<1>3. raced \subseteq raced'
      /\ ((\E q \in Requests : Holds(q, t)) => t \in raced')
  BY DEF RefreshLive
<1>4. LinksOK'
  BY <1>1, <1>2 DEF LinksOK, Claims, At, Live
<1>5. \A s \in Tokens : token[s].parent # t
  BY <1>2 DEF LinksOK
<1>6. \A q \in Requests : Claims(q, t) => Holds(q, t)
  BY <1>2 DEF LinksOK, Claims, Holds, At, Live
<1>7. ForkOK'
  BY <1>1, <1>2, <1>3, <1>5, <1>6 DEF ForkOK, Claims
<1>8. OrphanOK'
  BY <1>1, <1>2 DEF OrphanOK, Claims
<1>. QED
  BY <1>4, <1>7, <1>8

(* ... and storing a new token, which turns the claim of the handler into a  *)
(* parent link.                                                              *)
LEMMA IssueStep ==
    ASSUME TypeOK, LinksOK, ForkOK, OrphanOK, TypeOK',
           NEW r \in Requests, Issue(r)
    PROVE  LinksOK' /\ ForkOK' /\ OrphanOK'
<1>1. req[r] \in Request /\ req[r].pc = "issue" /\ req[r].user \in Users
  BY DEF Issue, At, TypeOK
<1>2. PICK n \in Tokens :
        /\ token[n].st = "free"
        /\ token' = [token EXCEPT ![n] =
              [st |-> "live", expired |-> FALSE, owner |-> req[r].user,
               parent |-> req[r].token, cred |-> req[r].cred,
               at |-> user[req[r].user].pwd, ownerSt |-> user[req[r].user].st]]
  BY DEF Issue
<1>3. /\ token'[n].st = "live" /\ token'[n].parent = req[r].token
      /\ token'[n].owner = req[r].user
      /\ token'[n].ownerSt = user[req[r].user].st
      /\ \A t \in Tokens : t # n => token'[t] = token[t]
  BY <1>2 DEF TypeOK
<1>4. /\ ~\E t \in Tokens : Claims(r, t)'
      /\ \A q \in Requests : q # r => req'[q] = req[q]
  BY DEF Issue, Finish, Idle, Claims, TypeOK
<1>5. /\ \A q \in Requests : ~Claims(q, n)
      /\ \A s \in Tokens : token[s].parent # n
      /\ token[n].parent = NoToken
      /\ req[r].token # n
  BY <1>1, <1>2 DEF LinksOK, Claims
<1>6. user' = user /\ raced' = raced
  BY DEF Issue
<1>7. \A t \in Tokens : req[r].token = t => Claims(r, t)
  BY <1>1 DEF Claims
<1>8. LinksOK'
  <2>1. \A q \in Requests, t \in Tokens :
          Claims(q, t)' => token'[t].st # "free" /\ token'[t].owner = req'[q].user
    BY <1>3, <1>4, <1>5 DEF LinksOK, Claims
  <2>2. \A q \in Requests, t \in Tokens :
          Claims(q, t)' /\ At(q, "issue")' => token'[t].st # "live"
    BY <1>3, <1>4, <1>5 DEF LinksOK, Claims, At, Live
  <2>3. \A t \in Tokens : token'[t].st = "free" => token'[t].parent = NoToken
    BY <1>3 DEF LinksOK
  <2>4. \A t \in Tokens : token[t].st \in {"free", "live", "revoked", "deleted"}
    BY DEF TypeOK, TokenDoc
  <2>5. \A s, t \in Tokens :
          token'[s].parent = t => token'[t].st \in {"revoked", "deleted"}
    <3>1. \A t \in Tokens : req[r].token = t => token[t].st \in {"revoked", "deleted"}
      BY <1>1, <1>7, <2>4 DEF LinksOK, At, Live
    <3>. QED
      BY <1>3, <1>5, <3>1 DEF LinksOK
  <2>. QED
    BY <2>1, <2>2, <2>3, <2>5 DEF LinksOK, Live
<1>9. ForkOK'
  <2>1. \A t \in Tokens \ raced', q1, q2 \in Requests :
          Claims(q1, t)' /\ Claims(q2, t)' => q1 = q2
    BY <1>4, <1>6 DEF ForkOK, Claims
  <2>2. \A t \in Tokens \ raced', s \in Tokens, q \in Requests :
          ~(token'[s].parent = t /\ Claims(q, t)')
    BY <1>3, <1>4, <1>5, <1>6, <1>7 DEF ForkOK, Claims
  <2>3. \A p \in Tokens \ raced', s, t \in Tokens :
          token'[s].parent = p /\ token'[t].parent = p => s = t
    BY <1>3, <1>6, <1>7 DEF ForkOK
  <2>. QED
    BY <2>1, <2>2, <2>3 DEF ForkOK
<1>10. OrphanOK'
  <2>1. \A t \in Tokens :
          token'[t].st # "free" /\ token'[t].ownerSt = "deleted"
            => user'[token'[t].owner].st = "deleted"
    BY <1>3, <1>6 DEF OrphanOK
  <2>2. \A q \in Requests, t \in Tokens :
          Claims(q, t)' /\ req'[q].pc \in {"rotate", "issue"}
            => token'[t].ownerSt # "deleted"
    BY <1>3, <1>4, <1>5 DEF OrphanOK, Claims
  <2>3. \A s, t \in Tokens : token'[s].parent = t => token'[t].ownerSt # "deleted"
    BY <1>1, <1>3, <1>5, <1>7 DEF OrphanOK
  <2>. QED
    BY <2>1, <2>2, <2>3 DEF OrphanOK
<1>. QED
  BY <1>8, <1>9, <1>10

-----------------------------------------------------------------------------
(* The sessions stored before a password change do not outlive its sweep.    *)
LEMMA AgeingSweeps ==
    ASSUME TypeOK, SweptSessionsAreCurrent, Ageing,
           \A u \in Users : user'[u].pwd = user[u].pwd
                            /\ (user'[u].unswept = user[u].unswept)
    PROVE  SweptSessionsAreCurrent'
<1>1. \A t \in Tokens : Live(t) => token[t].owner \in Users
  BY DEF TypeOK, Live
<1>. QED
  BY <1>1 DEF SweptSessionsAreCurrent, Ageing, Live

LEMMA SweepSweeps ==
    ASSUME TypeOK, SweptSessionsAreCurrent, NEW r \in Requests, RevokeAll(r), Ageing
    PROVE  SweptSessionsAreCurrent'
<1>1. \A t \in Tokens : token[t] \in TokenDoc /\ (Live(t) => token[t].owner \in Users)
  BY DEF TypeOK, Live
<1>2. \A t \in Tokens : token'[t].st = "live" =>
         token[t].st = "live" /\ token'[t] = token[t] /\ token[t].owner # req[r].user
  BY <1>1 DEF RevokeAll, Live, TokenDoc
<1>3. \A u \in Users : u # req[r].user => user'[u] = user[u]
  BY DEF RevokeAll, TypeOK
<1>. QED
  BY <1>1, <1>2, <1>3 DEF SweptSessionsAreCurrent, Live

LEMMA SetPasswordSweeps ==
    ASSUME TypeOK, SweptSessionsAreCurrent, NEW r \in Requests, SetPassword(r)
    PROVE  SweptSessionsAreCurrent'
<1>1. req[r].user \in Users
  BY DEF SetPassword, At, TypeOK
<1>2. token' = token /\ \A u \in Users : u # req[r].user => user'[u] = user[u]
  BY DEF SetPassword, TypeOK
<1>3. user' = user \/ user'[req[r].user].unswept
  <2>1. PICK d \in UserDoc : d = user[req[r].user]
    BY <1>1 DEF TypeOK
  <2>2. [d EXCEPT !.pwd = d.pwd + 1, !.unswept = TRUE].unswept
    BY DEF UserDoc
  <2>. QED
    BY <1>1, <2>1, <2>2 DEF SetPassword, TypeOK
<1>4. \A t \in Tokens : Live(t) => token[t].owner \in Users
  BY DEF TypeOK, Live
<1>. QED
  BY <1>2, <1>3, <1>4 DEF SweptSessionsAreCurrent, Live

LEMMA IssueSweeps ==
    ASSUME TypeOK, SweptSessionsAreCurrent, NEW r \in Requests, Issue(r)
    PROVE  SweptSessionsAreCurrent'
<1>1. PICK n \in Tokens :
        token' = [token EXCEPT ![n] =
              [st |-> "live", expired |-> FALSE, owner |-> req[r].user,
               parent |-> req[r].token, cred |-> req[r].cred,
               at |-> user[req[r].user].pwd, ownerSt |-> user[req[r].user].st]]
  BY DEF Issue
<1>2. /\ token'[n].owner = req[r].user /\ token'[n].at = user[req[r].user].pwd
      /\ \A t \in Tokens : t # n => token'[t] = token[t]
  BY <1>1 DEF TypeOK
<1>. QED
  BY <1>2 DEF SweptSessionsAreCurrent, Live, Issue

LEMMA StatusOfUser ==
    ASSUME TypeOK, NEW u \in Users, NEW st \in {"present", "deleted"},
           user' = [user EXCEPT ![u].st = st]
    PROVE  /\ \A v \in Users : user'[v].pwd = user[v].pwd
                               /\ (user'[v].unswept = user[v].unswept)
           /\ st = "deleted" \/ user[u].st # "deleted" => Onward
<1>1. user[u] \in UserDoc /\ \A v \in Users : v # u => user'[v] = user[v]
  BY DEF TypeOK
<1>2. /\ user'[u].pwd = user[u].pwd /\ user'[u].st = st
      /\ (user'[u].unswept = user[u].unswept)
  BY <1>1 DEF UserDoc, TypeOK
<1>. QED
  BY <1>1, <1>2 DEF Onward

-----------------------------------------------------------------------------
(* A step that stores no token and takes no claim. *)
Quiet == Ageing /\ NoNewClaim /\ raced' = raced

LEMMA StepQuiet ==
    ASSUME IInv, [Next]_vars
    PROVE  \/ Quiet
           \/ \E r \in Requests : Issue(r)
           \/ \E r \in Requests, t \in Tokens : RefreshLive(r, t)
<1> USE DEF IInv
<1>a. (UNCHANGED token => Ageing) /\ (UNCHANGED req => NoNewClaim)
  BY SameTokenAges DEF NoNewClaim, Claims
<1>1. ASSUME NEW r \in Requests, NEW u \in Users,
             \/ Register(r, u) \/ Login(r, u) \/ BeginPasswordChange(r, u)
             \/ DeleteMe(r, u) \/ AdminDelete(r, u)
      PROVE  Quiet
  BY <1>1, <1>a, StartClaims
     DEF Register, Login, BeginPasswordChange, DeleteMe, AdminDelete, Quiet
<1>2. ASSUME NEW r \in Requests, NEW t \in Tokens, RefreshRevoked(r, t) PROVE Quiet
  <2>1. NoNewClaim
    BY <1>2 DEF RefreshRevoked, Start, NoNewClaim, Claims, TypeOK
  <2>. QED
    BY <1>2, <2>1, <1>a DEF RefreshRevoked, Quiet
<1>3. ASSUME NEW r \in Requests, LoadUser(r) PROVE Quiet
  <2>1. CASE Finish(r)
    BY <1>3, <2>1, <1>a, FinishClaims DEF LoadUser, Quiet
  <2>2. CASE Present(req[r].user) /\ Goto(r, "rotate")
    <3>1. req[r].pc = "loadUser" /\ req[r] \in Request
      BY <1>3 DEF LoadUser, At, TypeOK
    <3>2. /\ req'[r].pc = "rotate" /\ req'[r].token = req[r].token
          /\ req'[r].user = req[r].user
          /\ \A q \in Requests : q # r => req'[q] = req[q]
      BY <2>2, <3>1 DEF Goto, Request, TypeOK
    <3>3. \A t \in Tokens : Claims(r, t) => token[t].ownerSt # "deleted"
      BY <2>2 DEF LinksOK, OrphanOK, Claims, Present
    <3>4. NoNewClaim
      BY <3>1, <3>2, <3>3 DEF NoNewClaim, Claims
    <3>. QED
      BY <1>3, <3>4, <1>a DEF LoadUser, Quiet
  <2>. QED
    BY <1>3, <2>1, <2>2 DEF LoadUser
<1>4. ASSUME NEW r \in Requests, Rotate(r) PROVE Quiet
  <2>1. CASE Finish(r) /\ UNCHANGED token
    BY <1>4, <2>1, <1>a, FinishClaims DEF Rotate, Quiet
  <2>2. CASE /\ Stored(req[r].token) /\ Goto(r, "issue")
             /\ token' = [token EXCEPT ![req[r].token].st = "revoked"]
    <3>1. req[r].pc = "rotate" /\ req[r] \in Request
      BY <1>4 DEF Rotate, At, TypeOK
    <3>2. /\ req'[r].pc = "issue" /\ req'[r].token = req[r].token
          /\ req'[r].user = req[r].user
          /\ \A q \in Requests : q # r => req'[q] = req[q]
      BY <2>2, <3>1 DEF Goto, Request, TypeOK
    <3>3. CASE req[r].token \in Tokens
      <4>1. Ageing /\ token'[req[r].token].st = "revoked"
        BY <2>2, <3>3, OneStatusAges DEF Stored
      <4>2. NoNewClaim
        BY <3>1, <3>2, <4>1 DEF NoNewClaim, Claims
      <4>. QED
        BY <1>4, <4>1, <4>2 DEF Rotate, Quiet
    <3>4. CASE req[r].token \notin Tokens
      <4>1. token' = token
        BY <2>2, <3>4 DEF TypeOK
      <4>2. NoNewClaim
        BY <3>1, <3>2, <3>4 DEF NoNewClaim, Claims
      <4>. QED
        BY <1>4, <4>1, <4>2, <1>a DEF Rotate, Quiet
    <3>. QED
      BY <3>3, <3>4
  <2>. QED
    BY <1>4, <2>1, <2>2 DEF Rotate
<1>5. ASSUME NEW t \in Tokens, RevokeOne(t) PROVE Quiet
  BY <1>5, <1>a, OneStatusAges DEF RevokeOne, Live, Quiet
<1>6. ASSUME NEW r \in Requests, SetPassword(r) \/ DropUser(r) PROVE Quiet
  <2>1. NoNewClaim
    BY <1>6, GotoClaims, FinishClaims DEF SetPassword, DropUser, At, Points
  <2>. QED
    BY <1>6, <2>1, <1>a DEF SetPassword, DropUser, Quiet
<1>7. ASSUME NEW r \in Requests, RevokeAll(r) PROVE Quiet
  <2> DEFINE S == {t \in Tokens : Live(t) /\ token[t].owner = req[r].user}
  <2>1. token' = [t \in Tokens |->
                    IF t \in S THEN [token[t] EXCEPT !.st = "revoked"] ELSE token[t]]
    BY <1>7 DEF RevokeAll
  <2>2. \A t \in S : token[t].st # "free"
    BY DEF Live
  <2>3. Ageing
    BY <2>1, <2>2, StatusAges
  <2>. QED
    BY <1>7, <2>3, FinishClaims DEF RevokeAll, Quiet
<1>8. ASSUME NEW r \in Requests, DropTokens(r) PROVE Quiet
  <2> DEFINE S == {t \in Tokens : Stored(t) /\ token[t].owner = req[r].user}
  <2>1. token' = [t \in Tokens |->
                    IF t \in S THEN [token[t] EXCEPT !.st = "deleted"] ELSE token[t]]
    BY <1>8 DEF DropTokens
  <2>2. \A t \in S : token[t].st # "free"
    BY DEF Stored
  <2>3. Ageing
    BY <2>1, <2>2, StatusAges
  <2>4. NoNewClaim
    BY <1>8, GotoClaims, FinishClaims DEF DropTokens, At, Points
  <2>. QED
    BY <1>8, <2>3, <2>4 DEF DropTokens, Quiet
<1>9. ASSUME NEW t \in Tokens, Expire(t) PROVE Quiet
  <2>1. token[t] \in TokenDoc
    BY DEF TypeOK
  <2>2. \A s \in Tokens : s # t => token'[s] = token[s]
    BY <1>9 DEF Expire, TypeOK
  <2>3. token'[t] = [token[t] EXCEPT !.expired = TRUE]
    BY <1>9 DEF Expire, TypeOK
  <2>4. Ageing
    BY <2>1, <2>2, <2>3 DEF Ageing, TokenDoc
  <2>. QED
    BY <1>9, <2>4, <1>a DEF Expire, Quiet
<1>10. ASSUME NEW r \in Requests, Fail(r) PROVE Quiet
  BY <1>10, <1>a, FinishClaims DEF Fail, Quiet
<1>11. CASE UNCHANGED vars
  BY <1>11, <1>a DEF vars, Quiet
<1>. QED
  BY <1>1, <1>2, <1>3, <1>4, <1>5, <1>6, <1>7, <1>8, <1>9, <1>10, <1>11
     DEF Next, Continue, Logout, RevokeSession

LEMMA StepInv == IInv /\ [Next]_vars => IInv'
<1> SUFFICES ASSUME IInv, [Next]_vars PROVE IInv'
  OBVIOUS
<1> USE DEF IInv
<1>t. TypeOK'
  BY StepType
<1>1. ASSUME NEW r \in Requests, Issue(r) PROVE IInv'
  BY <1>1, <1>t, IssueStep, IssueSweeps
<1>2. ASSUME NEW r \in Requests, NEW t \in Tokens, RefreshLive(r, t) PROVE IInv'
  BY <1>2, <1>t, SameTokenAges, RefreshLiveStep, AgeingSweeps DEF RefreshLive
<1>3. CASE Quiet
  <2>a. UNCHANGED user => Onward
    BY DEF Onward
  <2>b. ASSUME Onward, SweptSessionsAreCurrent' PROVE IInv'
    BY <2>b, <1>3, <1>t, QuietStep DEF Quiet
  <2>c. ASSUME Onward, \A u \in Users : user'[u].pwd = user[u].pwd
                                        /\ (user'[u].unswept = user[u].unswept)
        PROVE  IInv'
    BY <2>b, <2>c, <1>3, AgeingSweeps DEF Quiet
  <2>1. ASSUME NEW r \in Requests, NEW u \in Users, Register(r, u) PROVE IInv'
    <3>1. user' = [user EXCEPT ![u].st = "present"] /\ user[u].st # "deleted"
      BY <2>1 DEF Register
    <3>. QED
      BY <3>1, <2>c, StatusOfUser
  <2>2. ASSUME NEW r \in Requests, NEW u \in Users, AdminDelete(r, u) PROVE IInv'
    BY <2>2, <2>c, StatusOfUser DEF AdminDelete
  <2>3. ASSUME NEW r \in Requests, SetPassword(r) PROVE IInv'
    <3>1. req[r].user \in Users /\ user[req[r].user] \in UserDoc
      BY <2>3 DEF SetPassword, At, TypeOK
    <3>2. Present(req[r].user) \/ user' = user
      BY <2>3 DEF SetPassword
    <3>3. Onward
      BY <2>3, <3>1, <3>2 DEF SetPassword, Onward, Present, TypeOK
    <3>. QED
      BY <2>3, <2>b, <3>3, SetPasswordSweeps
  <2>4. ASSUME NEW r \in Requests, RevokeAll(r) PROVE IInv'
    <3>1. req[r].user \in Users /\ user[req[r].user] \in UserDoc
      BY <2>4 DEF RevokeAll, At, TypeOK
    <3>2. Onward
      BY <2>4, <3>1 DEF RevokeAll, Onward, UserDoc, TypeOK
    <3>. QED
      BY <2>4, <2>b, <3>2, <1>3, SweepSweeps DEF Quiet
  <2>5. ASSUME NEW r \in Requests, DropUser(r) PROVE IInv'
    <3>1. req[r].user \in Users
      BY <2>5 DEF DropUser, At, TypeOK
    <3>. QED
      BY <2>5, <3>1, <2>c, StatusOfUser DEF DropUser
  <2>6. CASE UNCHANGED user
    BY <2>6, <2>a, <2>c
  <2>7. ASSUME NEW r \in Requests, Continue(r) PROVE IInv'
    BY <2>3, <2>4, <2>5, <2>6, <2>7, <1>1 DEF Continue, LoadUser, Rotate, DropTokens
  <2>. QED
    BY <2>1, <2>2, <2>6, <2>7, <1>2
       DEF Next, vars, Fail, Login, BeginPasswordChange, DeleteMe, RefreshRevoked,
           Logout, RevokeSession, RevokeOne, Expire
<1>. QED
  BY <1>1, <1>2, <1>3, StepQuiet

LEMMA InitInv == Init => IInv
<1> SUFFICES ASSUME Init PROVE IInv
  OBVIOUS
<1>1. TypeOK
  BY InitType
<1>2. \A t \in Tokens : token[t].st = "free" /\ token[t].parent = NoToken
  BY DEF Init
<1>3. \A r \in Requests, t \in Tokens : ~Claims(r, t)
  BY DEF Init, Claims, Idle
<1>. QED
  BY <1>1, <1>2, <1>3, SessionsAssumption
     DEF IInv, LinksOK, ForkOK, OrphanOK, SweptSessionsAreCurrent, Live

THEOREM Invariance == Spec => []IInv
BY InitInv, StepInv, PTL DEF Spec

(* refreshAccessToken, over any number of tokens, handlers and crashes: a    *)
(* chain never has two live ends, a token is exchanged twice only by         *)
(* refreshes that overlapped, a deleted account's chain ends.                *)
THEOREM RotationIsSafe == Spec => []RotationSafety
<1>1. IInv => RotationSafety
  BY InvImplies DEF RotationSafety
<1>. QED
  BY <1>1, Invariance, PTL

(* revokeAllUserTokens, over any number of concurrent logins, refreshes and  *)
(* password changes: no session stored before the last change is left.       *)
THEOREM SweepIsComplete == Spec => []SweptSessionsAreCurrent
BY Invariance, InvImplies, PTL

-----------------------------------------------------------------------------
(* What a step may do to the tokens: nothing comes back, and the sessions it *)
(* ends are one user's.                                                      *)
NoneReturns ==
    \A t \in Tokens :
        /\ token[t].st = "revoked" => token'[t].st \in {"revoked", "deleted"}
        /\ token[t].st = "deleted" => token'[t].st = "deleted"
EndsOneUsers ==
    \A s, t \in Tokens :
        (/\ Live(s) /\ token'[s].st # "live"
         /\ Live(t) /\ token'[t].st # "live") => token[s].owner = token[t].owner

LEMMA OneTokenMoves ==
    ASSUME TypeOK, NEW t \in Tokens, NEW d, token' = [token EXCEPT ![t] = d],
           token[t].st = "revoked" => d.st = "revoked",
           token[t].st # "deleted"
    PROVE  NoneReturns /\ EndsOneUsers
<1>1. token'[t] = d /\ \A s \in Tokens : s # t => token'[s] = token[s]
  BY DEF TypeOK
<1>2. NoneReturns
  BY <1>1 DEF NoneReturns
<1>3. \A s \in Tokens : Live(s) /\ token'[s].st # "live" => s = t
  BY <1>1 DEF Live
<1>. QED
  BY <1>2, <1>3 DEF EndsOneUsers

LEMMA OneUsersMove ==
    ASSUME TypeOK, NEW u, NEW S \in SUBSET Tokens, NEW st \in {"revoked", "deleted"},
           \A t \in S : token[t].owner = u /\ Stored(t) /\ (st = "revoked" => Live(t)),
           token' = [t \in Tokens |->
                       IF t \in S THEN [token[t] EXCEPT !.st = st] ELSE token[t]]
    PROVE  NoneReturns /\ EndsOneUsers
<1>1. \A t \in S : token'[t].st = st
  <2>1. ASSUME NEW t \in S PROVE [token[t] EXCEPT !.st = st].st = st
    BY DEF TypeOK, TokenDoc
  <2>. QED
    BY <2>1
<1>2. \A t \in Tokens : t \notin S => token'[t] = token[t]
  OBVIOUS
<1>3. NoneReturns
  BY <1>1, <1>2 DEF NoneReturns, Stored, Live
<1>4. \A t \in Tokens : Live(t) /\ token'[t].st # "live" => t \in S
  BY <1>2 DEF Live
<1>. QED
  BY <1>3, <1>4 DEF EndsOneUsers

LEMMA StepEnds == TypeOK /\ [Next]_vars => NoneReturns /\ EndsOneUsers
<1> SUFFICES ASSUME TypeOK, [Next]_vars PROVE NoneReturns /\ EndsOneUsers
  OBVIOUS
<1>1. CASE token' = token
  BY <1>1 DEF NoneReturns, EndsOneUsers, Live
<1>2. ASSUME NEW r \in Requests, Rotate(r) PROVE NoneReturns /\ EndsOneUsers
  <2> DEFINE t == req[r].token
             d == [token[t] EXCEPT !.st = "revoked"]
  <2>1. CASE t \notin Tokens
    <3>1. \/ token' = token
          \/ token' = [token EXCEPT ![t].st = "revoked"]
      BY <1>2 DEF Rotate
    <3>. QED
      BY <1>1, <2>1, <3>1 DEF TypeOK
  <2>2. CASE t \in Tokens /\ Stored(t) /\ token' = [token EXCEPT ![t].st = "revoked"]
    <3>1. t \in Tokens
      BY <2>2
    <3>2. d.st = "revoked"
      BY <3>1 DEF TypeOK, TokenDoc
    <3>3. token' = [token EXCEPT ![t] = d] /\ token[t].st # "deleted"
      BY <2>2 DEF Stored
    <3> HIDE DEF d, t
    <3>. QED
      BY <3>1, <3>2, <3>3, OneTokenMoves
  <2>. QED
    BY <1>1, <1>2, <2>1, <2>2 DEF Rotate
<1>3. ASSUME NEW r \in Requests, Issue(r) PROVE NoneReturns /\ EndsOneUsers
  <2>1. PICK t \in Tokens : token[t].st = "free" /\ \E d : token' = [token EXCEPT ![t] = d]
    BY <1>3 DEF Issue
  <2>. QED
    BY <2>1, OneTokenMoves
<1>4. ASSUME NEW t \in Tokens, RevokeOne(t) PROVE NoneReturns /\ EndsOneUsers
  <2> DEFINE d == [token[t] EXCEPT !.st = "revoked"]
  <2>1. token' = [token EXCEPT ![t] = d] /\ token[t].st = "live"
    BY <1>4 DEF RevokeOne, Live
  <2> HIDE DEF d
  <2>. QED
    BY <2>1, OneTokenMoves
<1>5. ASSUME NEW r \in Requests, RevokeAll(r) PROVE NoneReturns /\ EndsOneUsers
  <2> DEFINE S == {t \in Tokens : Live(t) /\ token[t].owner = req[r].user}
  <2>1. token' = [t \in Tokens |->
                    IF t \in S THEN [token[t] EXCEPT !.st = "revoked"] ELSE token[t]]
    BY <1>5 DEF RevokeAll
  <2>2. \A t \in S : token[t].owner = req[r].user /\ Stored(t) /\ Live(t)
    BY DEF Stored, Live
  <2>. QED
    BY <2>1, <2>2, OneUsersMove
<1>6. ASSUME NEW r \in Requests, DropTokens(r) PROVE NoneReturns /\ EndsOneUsers
  <2> DEFINE S == {t \in Tokens : Stored(t) /\ token[t].owner = req[r].user}
  <2>1. token' = [t \in Tokens |->
                    IF t \in S THEN [token[t] EXCEPT !.st = "deleted"] ELSE token[t]]
    BY <1>6 DEF DropTokens
  <2>2. \A t \in S : token[t].owner = req[r].user /\ Stored(t)
    OBVIOUS
  <2> HIDE DEF S
  <2>3. S \in SUBSET Tokens
    BY DEF S
  <2>. QED
    BY <2>1, <2>2, <2>3, OneUsersMove
<1>7. ASSUME NEW t \in Tokens, Expire(t) PROVE NoneReturns /\ EndsOneUsers
  <2> DEFINE d == [token[t] EXCEPT !.expired = TRUE]
  <2>1. token' = [token EXCEPT ![t] = d] /\ token[t].st = "live"
    BY <1>7 DEF Expire, Live
  <2> HIDE DEF d
  <2>. QED
    BY <2>1, OneTokenMoves
<1>8. CASE UNCHANGED vars
  BY <1>1, <1>8 DEF vars
<1>9. ASSUME NEW r \in Requests, Continue(r) PROVE NoneReturns /\ EndsOneUsers
  BY <1>1, <1>2, <1>3, <1>5, <1>6, <1>9 DEF Continue, LoadUser, SetPassword, DropUser
<1>10. CASE Next
  BY <1>1, <1>4, <1>7, <1>9, <1>10
     DEF Next, Fail, Register, Login, BeginPasswordChange, DeleteMe, AdminDelete,
         RefreshLive, RefreshRevoked, Logout, RevokeSession
<1>. QED
  BY <1>8, <1>10

(* A refresh that read its token before a revocation saves it after: for any *)
(* number of them, a revoked token is never accepted again.                  *)
THEOREM RevocationLasts == Spec => RevokedForGood
<1>1. TypeOK /\ [Next]_vars
        => [\A t \in Tokens :
              /\ token[t].st = "revoked" => token'[t].st \in {"revoked", "deleted"}
              /\ token[t].st = "deleted" => token'[t].st = "deleted"]_vars
  BY StepEnds DEF NoneReturns
<1>. QED
  BY <1>1, TypeCorrect, PTL DEF Spec, RevokedForGood

(* The updateMany of a password change or of reuse detection, and the        *)
(* deletions, end sessions of no second user.                                *)
THEOREM EndsStayInside == Spec => SessionsEndPerUser
<1>1. TypeOK /\ [Next]_vars
        => [\A s, t \in Tokens :
              (/\ Live(s) /\ token'[s].st # "live"
               /\ Live(t) /\ token'[t].st # "live")
                 => token[s].owner = token[t].owner]_vars
  BY StepEnds DEF EndsOneUsers
<1>. QED
  BY <1>1, TypeCorrect, PTL DEF Spec, SessionsEndPerUser

-----------------------------------------------------------------------------
(* Sessions implements SessionChains.  A step that hands out nothing ends    *)
(* the current tokens of one user at most ...                                *)
Handed == {t \in Tokens : token[t].st # "free"}
OwnerOf == [t \in Tokens |-> token[t].owner]
FromOf  == [t \in Tokens |-> token[t].parent]

LEMMA EndsMap ==
    ASSUME TypeOK, Quiet, NEW u,
           \A t \in Tokens : token'[t] = token[t] \/ token[t].owner = u,
           \A r \in Requests, t \in Tokens :
             Claims(r, t) => Claims(r, t)' \/ token[t].owner = u
    PROVE  [Chains!CNext]_Chains!cvars
<1>1. Current' \subseteq Current
  BY DEF Current, Quiet, Ageing, NoNewClaim, Live
<1>2. \A t \in Current \ Current' : token[t].owner = u
  BY DEF Current, Live
<1>3. Handed' = Handed /\ OwnerOf' = OwnerOf /\ FromOf' = FromOf /\ raced' = raced
  BY DEF Handed, OwnerOf, FromOf, Quiet, Ageing
<1>4. CASE Current' = Current
  BY <1>3, <1>4 DEF Chains!cvars, Handed, OwnerOf, FromOf
<1>5. CASE Current' # Current
  <2> DEFINE S == Current \ Current'
  <2>1. S # {} /\ S \subseteq Current /\ S \in SUBSET Tokens /\ Current' = Current \ S
    BY <1>1, <1>5 DEF Current
  <2>2. \A s, t \in S : OwnerOf[s] = OwnerOf[t]
    BY <1>2, <2>1 DEF OwnerOf
  <2> HIDE DEF S
  <2>3. Chains!End(S)
    BY <1>3, <2>1, <2>2 DEF Chains!End, Handed, OwnerOf, FromOf
  <2>. QED
    BY <2>1, <2>3 DEF Chains!CNext
<1>. QED
  BY <1>4, <1>5

(* ... so a handler only gives up what it claims ... *)
LEMMA HandlerMaps ==
    ASSUME TypeOK, LinksOK, Quiet, NEW r \in Requests,
           \A q \in Requests : q # r => req'[q] = req[q],
           \A t \in Tokens : token'[t] = token[t] \/ token[t].owner = req[r].user
    PROVE  [Chains!CNext]_Chains!cvars
<1>1. \A q \in Requests, t \in Tokens :
        Claims(q, t) => Claims(q, t)' \/ token[t].owner = req[r].user
  BY DEF Claims, LinksOK
<1>. QED
  BY <1>1, EndsMap

(* ... a refresh that reads a token finds it current, and contests it if     *)
(* another one holds it ...                                                  *)
LEMMA RefreshLiveMaps ==
    ASSUME TypeOK, NEW r \in Requests, NEW t \in Tokens, RefreshLive(r, t)
    PROVE  [Chains!CNext]_Chains!cvars
<1>1. /\ req[r].pc = "idle" /\ req'[r].pc = "loadUser" /\ req'[r].token = t
      /\ \A q \in Requests : q # r => req'[q] = req[q]
  BY DEF RefreshLive, Start, At, TypeOK
<1>2. token' = token /\ t \in Current
  BY DEF RefreshLive, Current
<1>3. Current' = Current
  <2>1. \A s \in Tokens : s # t => (\A q \in Requests : Claims(q, s)' <=> Claims(q, s))
    BY <1>1 DEF Claims
  <2>2. t \in Current'
    BY <1>2 DEF RefreshLive, Current, Live
  <2>. QED
    BY <1>2, <2>1, <2>2 DEF Current, Live
<1>4. Handed' = Handed /\ OwnerOf' = OwnerOf /\ FromOf' = FromOf
  BY <1>2 DEF Handed, OwnerOf, FromOf
<1>5. CASE raced' = raced
  BY <1>3, <1>4, <1>5 DEF Chains!cvars, Handed, OwnerOf, FromOf
<1>6. CASE raced' = raced \cup {t}
  BY <1>2, <1>3, <1>4, <1>6
     DEF Chains!CNext, Chains!Contest, Handed, OwnerOf, FromOf
<1>. QED
  BY <1>5, <1>6 DEF RefreshLive

(* ... and the Token.create is the step where a token is handed out, for the *)
(* one the handler claims if it has one.                                     *)
LEMMA IssueMaps ==
    ASSUME TypeOK, LinksOK, ForkOK, NEW r \in Requests, Issue(r)
    PROVE  [Chains!CNext]_Chains!cvars
<1>. DEFINE t == req[r].token
<1>1. /\ req[r].pc = "issue" /\ req[r].user \in Users /\ t \in Tokens \cup {NoToken}
      /\ raced' = raced
  BY DEF Issue, At, TypeOK, Request
<1>2. PICK s \in Tokens :
        /\ token[s].st = "free"
        /\ token' = [token EXCEPT ![s] =
              [st |-> "live", expired |-> FALSE, owner |-> req[r].user,
               parent |-> t, cred |-> req[r].cred,
               at |-> user[req[r].user].pwd, ownerSt |-> user[req[r].user].st]]
  BY DEF Issue
<1>3. /\ token'[s].st = "live" /\ ~token'[s].expired
      /\ token'[s].owner = req[r].user /\ token'[s].parent = t
      /\ \A k \in Tokens : k # s => token'[k] = token[k]
  BY <1>2 DEF TypeOK
<1>4. /\ \A k \in Tokens : ~Claims(r, k)'
      /\ \A q \in Requests : q # r => req'[q] = req[q]
  BY DEF Issue, Finish, Idle, Claims, TypeOK
<1>. HIDE DEF t
<1>5. /\ s \notin Handed /\ Handed' = Handed \cup {s} /\ s \in Current'
      /\ OwnerOf' = [OwnerOf EXCEPT ![s] = req[r].user]
      /\ FromOf' = [FromOf EXCEPT ![s] = t]
  <2>1. s \notin Handed /\ Handed' = Handed \cup {s}
    BY <1>2, <1>3 DEF Handed
  <2>2. s \in Current'
    BY <1>3 DEF Current, Live
  <2>3. OwnerOf' = [OwnerOf EXCEPT ![s] = req[r].user]
    BY <1>3 DEF OwnerOf
  <2>4. FromOf' = [FromOf EXCEPT ![s] = t]
    BY <1>3 DEF FromOf
  <2>. QED
    BY <2>1, <2>2, <2>3, <2>4
<1>6. \A k \in Tokens : (k # s /\ k # t) => (k \in Current' <=> k \in Current)
  <2>1. \A k \in Tokens, q \in Requests : k # t => (Claims(q, k)' <=> Claims(q, k))
    BY <1>4 DEF Claims, t
  <2>. QED
    BY <1>3, <2>1 DEF Current, Live
<1>7. CASE t \notin Tokens
  <2>1. t = NoToken
    BY <1>1, <1>7
  <2>2. Current' = Current \cup {s}
    BY <1>5, <1>6, <1>7 DEF Current
  <2>3. Chains!SignIn(s, req[r].user)
    BY <1>1, <1>5, <2>1, <2>2 DEF Chains!SignIn, Chains!HandOut, Handed, OwnerOf, FromOf
  <2>. QED
    BY <1>1, <2>3 DEF Chains!CNext
<1>8. CASE t \in Tokens
  <2>1. Claims(r, t) /\ t \in Current /\ ~Live(t) /\ t # s /\ token[t].owner = req[r].user
    BY <1>1, <1>2, <1>8 DEF Claims, t, LinksOK, At, Current
  <2>2. t \notin raced => t \notin Current'
    BY <1>3, <1>4, <1>8, <2>1 DEF Current, ForkOK, Claims, Live
  <2>3. Current' = (Current \ {t}) \cup {s} \/ Current' = Current \cup {s}
    BY <1>5, <1>6, <1>8, <2>1 DEF Current
  <2>4. t \in raced \/ Current' = (Current \ {t}) \cup {s}
    BY <1>5, <1>6, <1>8, <2>1, <2>2 DEF Current
  <2>5. OwnerOf[t] = req[r].user
    BY <1>8, <2>1 DEF OwnerOf
  <2>6. Chains!Exchange(t, s)
    BY <1>1, <1>5, <2>1, <2>3, <2>4, <2>5
       DEF Chains!Exchange, Chains!HandOut, Handed, OwnerOf, FromOf
  <2>. QED
    BY <1>8, <2>6 DEF Chains!CNext
<1>. QED
  BY <1>7, <1>8

LEMMA StepMaps == IInv /\ [Next]_vars => [Chains!CNext]_Chains!cvars
<1> SUFFICES ASSUME IInv, [Next]_vars PROVE [Chains!CNext]_Chains!cvars
  OBVIOUS
<1> USE DEF IInv
<1>1. ASSUME NEW r \in Requests, Issue(r) PROVE [Chains!CNext]_Chains!cvars
  BY <1>1, IssueMaps
<1>2. ASSUME NEW r \in Requests, NEW t \in Tokens, RefreshLive(r, t)
      PROVE  [Chains!CNext]_Chains!cvars
  BY <1>2, RefreshLiveMaps
<1>3. CASE Quiet
  <2>1. ASSUME NEW r \in Requests,
               \A q \in Requests : q # r => req'[q] = req[q], UNCHANGED token
        PROVE  [Chains!CNext]_Chains!cvars
    BY <2>1, <1>3, HandlerMaps
  <2>2. ASSUME NEW r \in Requests,
               \/ \E u \in Users : \/ Register(r, u) \/ Login(r, u) \/ BeginPasswordChange(r, u)
                                   \/ DeleteMe(r, u) \/ AdminDelete(r, u)
               \/ \E t \in Tokens : RefreshRevoked(r, t)
        PROVE  [Chains!CNext]_Chains!cvars
    BY <2>1, <2>2 DEF Register, Login, BeginPasswordChange, DeleteMe, AdminDelete,
                      RefreshRevoked, Start, TypeOK
  <2>3. ASSUME NEW r \in Requests, LoadUser(r) \/ SetPassword(r) \/ DropUser(r) \/ Fail(r)
        PROVE  [Chains!CNext]_Chains!cvars
    BY <2>1, <2>3 DEF LoadUser, SetPassword, DropUser, Fail, Goto, Finish, TypeOK
  <2>4. ASSUME NEW r \in Requests, Rotate(r) PROVE [Chains!CNext]_Chains!cvars
    <3>1. /\ \A q \in Requests : q # r => req'[q] = req[q]
          /\ \A t \in Tokens : t # req[r].token => token'[t] = token[t]
      BY <2>4 DEF Rotate, Goto, Finish, TypeOK
    <3>2. \A t \in Tokens : t = req[r].token => token[t].owner = req[r].user
      BY <2>4 DEF Rotate, At, Claims, LinksOK
    <3>. QED
      BY <3>1, <3>2, <1>3, HandlerMaps
  <2>5. ASSUME NEW r \in Requests, RevokeAll(r) \/ DropTokens(r)
        PROVE  [Chains!CNext]_Chains!cvars
    <3>1. \A q \in Requests : q # r => req'[q] = req[q]
      BY <2>5 DEF RevokeAll, DropTokens, Goto, Finish, TypeOK
    <3>2. \A t \in Tokens : token'[t] = token[t] \/ token[t].owner = req[r].user
      BY <2>5 DEF RevokeAll, DropTokens
    <3>. QED
      BY <3>1, <3>2, <1>3, HandlerMaps
  <2>6. ASSUME NEW t \in Tokens, RevokeOne(t) \/ Expire(t)
        PROVE  [Chains!CNext]_Chains!cvars
    <3>1. req' = req /\ \A s \in Tokens : s # t => token'[s] = token[s]
      BY <2>6 DEF RevokeOne, Expire, TypeOK
    <3>2. /\ \A s \in Tokens : token'[s] = token[s] \/ token[s].owner = token[t].owner
          /\ \A r \in Requests, s \in Tokens : Claims(r, s) => Claims(r, s)'
      BY <3>1 DEF Claims
    <3>. QED
      BY <3>2, <1>3, EndsMap
  <2>7. CASE UNCHANGED vars
    <3>1. /\ \A s \in Tokens : token'[s] = token[s]
          /\ \A r \in Requests, s \in Tokens : Claims(r, s) => Claims(r, s)'
      BY <2>7 DEF vars, Claims
    <3>. QED
      BY <3>1, <1>3, EndsMap
  <2>. QED
    BY <2>2, <2>3, <2>4, <2>5, <2>6, <2>7, <1>1, <1>2
       DEF Next, Continue, Logout, RevokeSession
<1>. QED
  BY <1>1, <1>2, <1>3, StepQuiet

LEMMA InitMaps == Init => Chains!CInit
<1> SUFFICES ASSUME Init PROVE Chains!CInit
  OBVIOUS
<1>1. \A t \in Tokens : token[t].st = "free" /\ token[t].owner = NoUser
                        /\ token[t].parent = NoToken
  BY DEF Init
<1>2. Current = {}
  BY <1>1 DEF Init, Current, Live, Claims, Idle
<1>. QED
  BY <1>1, <1>2 DEF Chains!CInit, Init

(* refreshAccessToken, split at each of its database round trips and run     *)
(* against every other handler, does no more than rotate or refuse: for any  *)
(* number of tokens, users and handlers in flight, crashes included.         *)
THEOREM RefreshRotatesOrRefuses == Spec => RotatesOrRefuses
BY InitMaps, StepMaps, Invariance, PTL DEF Spec, RotatesOrRefuses, Chains!CSpec
=============================================================================
