----------------------------- MODULE TwoFactor -----------------------------
(* Two-factor enrolment of one account: setup2fa, enable2fa and disable2fa   *)
(* (user.controller.ts), login and verify2faChallenge (auth.controller.ts)   *)
(* over the account's User document.                                         *)
(*                                                                           *)
(* Every handler reads the document, decides, and writes what it changed     *)
(* with save().  Mongoose sends a $set of the changed paths, by _id.  A save *)
(* that replaces recoveryCodes also asks for the __v that was read and       *)
(* increments it; one that sets usedAt inside the array asks for __v and     *)
(* leaves it; one that sets only plain paths asks for nothing.               *)
(*                                                                           *)
(* A request stands for one run of a handler, and for what it generates: the *)
(* secret made by setup s is named s, the recovery codes made by enable e    *)
(* are <<e, c>> for c \in Codes.  Requests that are refused take no step.    *)
EXTENDS Naturals

CONSTANTS
    Requests, NoRequest,
    Codes,          \* positions in recoveryCodes (8 in the code)
    Totp            \* in the place of a position: an authenticator code

ASSUME TwoFactorAssumption ==
    /\ NoRequest \notin Requests
    /\ Totp \notin Codes

VARIABLES
    user,           \* the User document
    request         \* local state of the handlers, and the sessions they store

vars == <<user, request>>

-----------------------------------------------------------------------------
(* secret: totpSecret.  gen: the enable whose codes are in recoveryCodes,    *)
(* NoRequest when the array is empty.  spent: positions with usedAt set.     *)
(* v: __v.                                                                   *)
User == [secret : Requests \cup {NoRequest}, enabled : BOOLEAN,
         gen : Requests \cup {NoRequest}, spent : SUBSET Codes, v : Nat]

(* What a request presents: an authenticator code of the secret of setup     *)
(* "of", or recovery code c of enable "of".                                  *)
Proofs == [of : Requests \cup {NoRequest}, c : Codes \cup {Totp}]
NoProof == [of |-> NoRequest, c |-> Totp]

(* seen: the document the handler read.  session: the refresh token it       *)
(* stored.  History: saved, its write was made; era, the __v at the time of  *)
(* its last write; beside, the requests that had read and not yet written    *)
(* when it read.                                                             *)
Request == [kind : {"none", "setup", "enable", "disable", "login", "challenge"},
            pc : {"new", "save", "issue", "sweep", "done", "dead"},
            proof : Proofs, seen : User, session : {"none", "live", "revoked"},
            saved : BOOLEAN, era : Nat, beside : SUBSET Requests]

At(r, pc)    == request[r].pc = pc
Is(r, kind)  == request[r].kind = kind
Reading      == {s \in Requests : At(s, "save") \/ (At(s, "issue") /\ ~request[s].saved)}
Overlap(r, s) == s \in request[r].beside \/ r \in request[s].beside

Init ==
    /\ user = [secret |-> NoRequest, enabled |-> FALSE, gen |-> NoRequest,
               spent |-> {}, v |-> 0]
    /\ request = [r \in Requests |->
                    [kind |-> "none", pc |-> "new", proof |-> NoProof,
                     seen |-> user, session |-> "none", saved |-> FALSE,
                     era |-> 0, beside |-> {}]]

-----------------------------------------------------------------------------
(* isTotpValid and matchUnusedRecoveryCode on the document just read *)
Valid(p) ==
    \/ p.c = Totp /\ p.of = user.secret
    \/ p.c # Totp /\ p.of = user.gen /\ p.c \notin user.spent

(* The client has the secret from the answer of a setup, the codes from that *)
(* of an enable.                                                             *)
Known(p) ==
    /\ p.of \in Requests
    /\ At(p.of, "done")
    /\ Is(p.of, IF p.c = Totp THEN "setup" ELSE "enable")

Read(r, kind, p, next) ==
    /\ At(r, "new")
    /\ request' = [request EXCEPT ![r].kind = kind, ![r].pc = next,
                                  ![r].proof = p, ![r].seen = user,
                                  ![r].beside = Reading]
    /\ UNCHANGED user

(* Seeded fault: an enabled account may start over. *)
Setup_NoCheck(r) == Read(r, "setup", NoProof, "save")

(* setup2fa, up to user.save() *)
Setup(r) == ~user.enabled /\ Read(r, "setup", NoProof, "save")

(* enable2fa, up to user.save(): it does not ask whether 2FA is on already *)
Enable(r, p) ==
    /\ p.c = Totp /\ Known(p) /\ Valid(p)
    /\ Read(r, "enable", p, "save")

(* disable2fa with the right password, up to user.save() *)
Disable(r, p) ==
    /\ user.enabled
    /\ Known(p) /\ Valid(p)
    /\ Read(r, "disable", p, "save")

(* Seeded fault: login does not look at totpEnabled. *)
Login_OneFactor(r) == Read(r, "login", NoProof, "issue")

(* login with the right password, when it leads straight to a token pair.    *)
(* Answering with a challenge token instead changes nothing.                 *)
Login(r) == ~user.enabled /\ Read(r, "login", NoProof, "issue")

(* verify2faChallenge, up to its first write.  While 2FA is on a challenge   *)
(* token can be had at any time, and is good for any number of requests.     *)
Challenge(r, p) ==
    /\ user.enabled
    /\ Known(p) /\ Valid(p)
    /\ Read(r, "challenge", p, IF p.c = Totp THEN "issue" ELSE "save")

-----------------------------------------------------------------------------
Wrote(r, next, era) ==
    request' = [request EXCEPT ![r].pc = next, ![r].saved = TRUE, ![r].era = era]

Current(r) == request[r].seen.v = user.v

(* setup2fa: $set totpSecret *)
SaveSecret(r) ==
    /\ At(r, "save") /\ Is(r, "setup")
    /\ user' = [user EXCEPT !.secret = r]
    /\ Wrote(r, "done", user.v)

(* Seeded fault: the array is replaced without asking for __v. *)
SaveEnabled_Unversioned(r) ==
    /\ At(r, "save") /\ Is(r, "enable")
    /\ user' = [user EXCEPT !.gen = r, !.spent = {}, !.v = @ + 1,
                            !.enabled = @ \/ ~request[r].seen.enabled]
    /\ Wrote(r, "done", user.v + 1)

(* enable2fa: new codes; totpEnabled is in the $set when it was read FALSE *)
SaveEnabled(r) ==
    /\ At(r, "save") /\ Is(r, "enable") /\ Current(r)
    /\ user' = [user EXCEPT !.gen = r, !.spent = {}, !.v = @ + 1,
                            !.enabled = @ \/ ~request[r].seen.enabled]
    /\ Wrote(r, "done", user.v + 1)

(* Seeded fault: disable2fa leaves the sessions alone. *)
SaveDisabled_NoSweep(r) ==
    /\ At(r, "save") /\ Is(r, "disable") /\ Current(r)
    /\ user' = [secret |-> NoRequest, enabled |-> FALSE, gen |-> NoRequest,
                spent |-> {}, v |-> user.v + 1]
    /\ Wrote(r, "done", user.v + 1)

(* disable2fa: user.save(), revokeAllUserTokens is next *)
SaveDisabled(r) ==
    /\ At(r, "save") /\ Is(r, "disable") /\ Current(r)
    /\ user' = [secret |-> NoRequest, enabled |-> FALSE, gen |-> NoRequest,
                spent |-> {}, v |-> user.v + 1]
    /\ Wrote(r, "sweep", user.v + 1)

(* Seeded fault: the entry is marked in memory, user.save() is forgotten. *)
SaveUsed_Forgotten(r) ==
    /\ At(r, "save") /\ Is(r, "challenge") /\ Current(r)
    /\ Wrote(r, "issue", user.v)
    /\ UNCHANGED user

(* Seeded fault: the array that was read is written back. *)
SaveUsed_WholeArray(r) ==
    /\ At(r, "save") /\ Is(r, "challenge") /\ Current(r)
    /\ user' = [user EXCEPT !.spent = request[r].seen.spent \cup {request[r].proof.c}]
    /\ Wrote(r, "issue", user.v)

(* verify2faChallenge: $set usedAt of one entry *)
SaveUsed(r) ==
    /\ At(r, "save") /\ Is(r, "challenge") /\ Current(r)
    /\ user' = [user EXCEPT !.spent = @ \cup {request[r].proof.c}]
    /\ Wrote(r, "issue", user.v)

(* save() throws VersionError: the handler ends with a 500 *)
VersionError(r) ==
    /\ At(r, "save") /\ ~Is(r, "setup") /\ ~Current(r)
    /\ request' = [request EXCEPT ![r].pc = "dead"]
    /\ UNCHANGED user

(* issueTokenPair: Token.create *)
Issue(r) ==
    /\ At(r, "issue")
    /\ request' = [request EXCEPT ![r].pc = "done", ![r].session = "live",
                                  ![r].era = user.v]
    /\ UNCHANGED user

(* revokeAllUserTokens: one updateMany *)
Sweep(r) ==
    /\ At(r, "sweep")
    /\ request' = [s \in Requests |->
                     [request[s] EXCEPT !.pc = IF s = r THEN "done" ELSE @,
                                        !.session = IF @ = "live" THEN "revoked" ELSE @]]
    /\ UNCHANGED user

(* The process dies, or a command throws. *)
Fail(r) ==
    /\ request[r].pc \in {"save", "issue", "sweep"}
    /\ request' = [request EXCEPT ![r].pc = "dead"]
    /\ UNCHANGED user

Next == \E r \in Requests :
    \/ Setup(r) \/ Login(r)
    \/ \E p \in Proofs : Enable(r, p) \/ Disable(r, p) \/ Challenge(r, p)
    \/ SaveSecret(r) \/ SaveEnabled(r) \/ SaveDisabled(r) \/ SaveUsed(r)
    \/ VersionError(r) \/ Issue(r) \/ Sweep(r) \/ Fail(r)

Spec == Init /\ [][Next]_vars

-----------------------------------------------------------------------------
(* The document and the handlers' records have the shape of userSchema. *)
TypeOK ==
    /\ user \in User
    /\ request \in [Requests -> Request]

(* Whatever handlers race, 2FA is on exactly when recovery codes are stored, *)
(* and then there is a secret: an account that asks for a second factor has  *)
(* both ways to give it.  This rests on the __v checks of enable and disable *)
(* (user.controller.ts:144, 193), since enable's save carries no secret.     *)
EnrolmentIsWhole ==
    /\ user.enabled <=> user.gen # NoRequest
    /\ user.enabled => user.secret # NoRequest

(* A recovery code is accepted by two requests only if they overlapped: each *)
(* had read the document before the other wrote it (auth.controller.ts:160,  *)
(* user.controller.ts:193).                                                  *)
DoubleUseNeedsOverlap ==
    \A r, s \in Requests :
        ( /\ r # s
          /\ request[r].saved /\ request[r].proof.c # Totp
          /\ request[s].saved /\ request[s].proof = request[r].proof )
        => Overlap(r, s)

(* While 2FA is on, the stored secret is the one the user proved to have     *)
(* when the stored codes were made, unless the setup that stored it          *)
(* overlapped an enable (setup2fa's save at line 110 asks for nothing).      *)
UnprovenSecretNeedsOverlap ==
    ( /\ user.enabled
      /\ request[user.gen].proof.of # user.secret )
    => \E e \in Requests : /\ Is(e, "enable") /\ request[e].saved
                           /\ Overlap(e, user.secret)

(* A login is about to be given tokens for its password alone while 2FA is   *)
(* on only if an enable overlapped it (auth.controller.ts:115).              *)
OneFactorNeedsOverlap ==
    \A r \in Requests :
        (At(r, "issue") /\ Is(r, "login") /\ user.enabled)
        => \E e \in Requests : /\ Is(e, "enable") /\ request[e].saved
                               /\ Overlap(e, r)

(* What the docs promise of codes, secrets and factors without condition,    *)
(* under the one condition the code needs: requests that do not overlap.     *)
RaceSafety == DoubleUseNeedsOverlap /\ UnprovenSecretNeedsOverlap /\ OneFactorNeedsOverlap

(* No session stored before a disable2fa's save is live once the handler has *)
(* answered: "2FA disabled -- please log in again" (user.controller.ts:197). *)
DisableEndsSessions ==
    \A r, s \in Requests :
        (Is(r, "disable") /\ At(r, "done") /\ request[s].session = "live")
        => request[s].era >= request[r].era

(* What enabling and disabling leave behind. *)
EnrolmentSafety == EnrolmentIsWhole /\ DisableEndsSessions

(* A spent code stays spent as long as the array it is in is stored: the     *)
(* saves of challenges that run side by side do not undo each other.         *)
SpentStaysSpent ==
    [][user'.gen = user.gen => user.spent \subseteq user'.spent]_vars
=============================================================================
