----------------------------- MODULE ClientAuth -----------------------------
(* Session handling of the web client: lib/api.ts, lib/auth.tsx and the      *)
(* pages that sign in, sign out and revoke.                                  *)
(*                                                                           *)
(* The tabs of one browser share localStorage (the refresh token and the     *)
(* session id); the access token, the timer and the single-flight refresh    *)
(* are each tab's own.  A function is split at every await; between awaits a *)
(* tab runs alone, and writes localStorage at once.  The server's side of a  *)
(* request is one step: Sessions has its interleavings.  A session id is the *)
(* id of its refresh token's document, so both are a Token here.             *)
EXTENDS Naturals, FiniteSets

CONSTANTS
    Tabs,
    Users,
    NoUser,
    NoToken,
    First,          \* the account of the first sign-in
    MaxSends,       \* bound: refreshes
    MaxEvents,      \* bound: sign-ins, registrations and faults together
    MaxFaults       \* bound: lost answers, refusals by the rate limiter, reloads,
                    \* and revocations

ASSUME ClientAuthAssumption ==
    /\ First \in Users /\ NoUser \notin Users /\ NoToken \notin Users \X Nat
    /\ MaxSends \in Nat /\ MaxEvents \in Nat /\ MaxFaults \in Nat

VARIABLES
    live,           \* the server: refresh tokens that are not revoked
    stored,         \* localStorage of the browser
    tab,            \* AuthProvider of each tab, and what its user is waiting for
    flight,         \* refreshInFlight of each tab: the request it waits for,
    latched,        \* or, in these tabs, a promise that has settled on "false"
    issued,         \* tokens created so far
    signins, sends, faults,
    alarm,          \* history: the server took a token for stolen
    causes          \* history: what happened that the client does not guard against

vars == <<live, issued, stored, tab, flight, latched, signins, sends, faults, alarm, causes>>

-----------------------------------------------------------------------------
Token == Users \X (1..(MaxSends + MaxEvents))
Stored == [refresh : Token \cup {NoToken}, session : Token \cup {NoToken}]
Empty  == [refresh |-> NoToken, session |-> NoToken]

Tab == [status : {"closed", "loading", "anon", "auth"},
        user   : Users \cup {NoUser},                   \* whose profile is shown
        access : Users \cup {NoUser},                   \* whose access token is held
        challenged : BOOLEAN,                           \* sessionStorage holds a challenge
        boot   : {"no", "refresh", "me"},
        timer  : BOOLEAN,                               \* a timeout is pending
        waits  : BOOLEAN,                               \* its callback waits for the refresh
        act    : {"none", "call", "signin", "signup", "me", "leaving", "logout", "revoked"},
        hold   : Token \cup {NoToken}]                  \* the token logout has read
Closed == [status |-> "closed", user |-> NoUser, access |-> NoUser, challenged |-> FALSE, boot |-> "no",
           timer |-> FALSE, waits |-> FALSE, act |-> "none", hold |-> NoToken]

(* a POST /auth/refresh: waiting for the server, granted a pair, or refused *)
Flight == [token : Token, pc : {"sent", "ok", "no"}, got : Token \cup {NoToken}]

Init ==
    /\ live = {} /\ issued = 0 /\ stored = Empty
    /\ tab = [t \in Tabs |-> Closed]
    /\ flight = [t \in Tabs |-> {}] /\ latched = {}
    /\ signins = 0 /\ sends = 0 /\ faults = 0
    /\ alarm = FALSE /\ causes = {}

Room  == signins + faults < MaxEvents
Fault == Room /\ faults < MaxFaults /\ faults' = faults + 1
Blame(c) == causes' = causes \cup {c}
Act(t, a) == tab[t].act = a

(* each pair has a refresh token of its own *)
New(u) == <<u, issued + 1>>

-----------------------------------------------------------------------------
(* What the waiting callers do when the refresh is over: boot, the timer     *)
(* and a request that met a 401.                                             *)

(* Seeded fault: the timer does not plan the next refresh. *)
After_OneShot(r, how) ==
    [r EXCEPT !.boot = IF @ # "refresh" THEN @ ELSE IF how = "ok" THEN "me" ELSE "no",
              !.waits = FALSE,
              !.act = IF @ = "call" THEN "none" ELSE @,
              !.status = IF \/ r.boot = "refresh" /\ how # "ok"
                            \/ r.waits /\ how = "no" THEN "anon" ELSE @,
              !.user = IF r.waits /\ how = "no" THEN NoUser ELSE @]

(* Seeded fault: an exception of the boot's refresh is not caught. *)
After_Uncaught(r, how) ==
    [r EXCEPT !.boot = IF @ # "refresh" THEN @ ELSE IF how = "ok" THEN "me" ELSE "no",
              !.timer = @ \/ (r.waits /\ how = "ok"),
              !.waits = FALSE,
              !.act = IF @ = "call" THEN "none" ELSE @,
              !.status = IF \/ r.boot = "refresh" /\ how = "no"
                            \/ r.waits /\ how = "no" THEN "anon" ELSE @,
              !.user = IF r.waits /\ how = "no" THEN NoUser ELSE @]

(* an exception ends the timer's chain and leaves the tab as it is *)
After(r, how) ==
    [r EXCEPT !.boot = IF @ # "refresh" THEN @ ELSE IF how = "ok" THEN "me" ELSE "no",
              !.timer = @ \/ (r.waits /\ how = "ok"),
              !.waits = FALSE,
              !.act = IF @ = "call" THEN "none" ELSE @,
              !.status = IF \/ r.boot = "refresh" /\ how # "ok"
                            \/ r.waits /\ how = "no" THEN "anon" ELSE @,
              !.user = IF r.waits /\ how = "no" THEN NoUser ELSE @]

SigningIn == {"signin", "signup", "me"}

Send(t) ==
    /\ sends < MaxSends /\ sends' = sends + 1
    /\ flight' = [flight EXCEPT ![t] = @ \cup {[token |-> stored.refresh, pc |-> "sent", got |-> NoToken]}]
    /\ causes' = causes
         \cup {c \in {"tabs"} : \E s \in Tabs \ {t} : \E f \in flight[s] : f.token = stored.refresh}
         \cup {c \in {"crossed"} : \E s \in Tabs : tab[s].act \in {"logout", "revoked"}
                                                   /\ tab[s].hold = stored.refresh}
         \cup {c \in {"crossed"} : tab[t].act \in SigningIn \/ tab[t].boot = "me"}

(* Without a token: no "finally" resets the promise, so that from then on    *)
(* the tab answers "no", whatever is stored.                                 *)
Latch(t, r) ==
    /\ latched' = latched \cup {t}
    /\ tab' = [tab EXCEPT ![t] = After(r, "no")]
    /\ UNCHANGED <<flight, sends, causes>>

(* Seeded fault: every caller sends a request of its own. *)
RefreshTokens_Each(t, r) ==
    IF t \in latched \/ stored.refresh = NoToken THEN Latch(t, r)
    ELSE tab' = [tab EXCEPT ![t] = r] /\ Send(t) /\ UNCHANGED latched

(* refreshTokens, for the caller that r adds to the tab: join the promise    *)
(* that is there, pending or left behind, send a request, or find no token   *)
RefreshTokens(t, r) ==
    IF flight[t] # {} THEN tab' = [tab EXCEPT ![t] = r] /\ UNCHANGED <<flight, latched, sends, causes>>
    ELSE IF t \in latched \/ stored.refresh = NoToken THEN Latch(t, r)
    ELSE tab' = [tab EXCEPT ![t] = r] /\ Send(t) /\ UNCHANGED latched

(* refreshAccessToken on the server: a token that is not live is stolen      *)
Rotate(t, f) ==
    /\ f.pc = "sent"
    /\ IF f.token \in live
       THEN LET new == New(f.token[1]) IN
            /\ live' = (live \ {f.token}) \cup {new} /\ issued' = issued + 1
            /\ flight' = [flight EXCEPT ![t] = (@ \ {f}) \cup {[f EXCEPT !.pc = "ok", !.got = new]}]
            /\ UNCHANGED alarm
       ELSE /\ live' = {x \in live : x[1] # f.token[1]}
            /\ flight' = [flight EXCEPT ![t] = (@ \ {f}) \cup {[f EXCEPT !.pc = "no"]}]
            /\ alarm' = TRUE /\ UNCHANGED issued
    /\ UNCHANGED <<stored, tab, latched, signins, sends, faults, causes>>

(* the rate limiter, or an error of the server, answers instead *)
Refuse(t, f) ==
    /\ f.pc = "sent" /\ Fault /\ Blame("refused")
    /\ flight' = [flight EXCEPT ![t] = (@ \ {f}) \cup {[f EXCEPT !.pc = "no"]}]
    /\ UNCHANGED <<live, issued, stored, tab, latched, signins, sends, alarm>>

(* AuthGuard renders the pages of the application *)
Guarded(t) == tab[t].status = "auth"

Apart(t, u) == \E s \in Tabs \ {t} : ~({tab[s].user, tab[s].access} \subseteq {NoUser, u})
Overwritten(t, f) ==
    {c \in {"tabs"} : stored.refresh \notin {f.token, NoToken}}
      \cup {c \in {"crossed"} : stored.refresh = NoToken}
      \cup {c \in {"switched"} : f.pc = "ok" /\ Apart(t, f.got[1])}

(* the session is cleared while a tab goes on with it: its timer, which      *)
(* nobody stops, will find the store empty                                   *)
Uses(r) == r.timer \/ r.boot = "me" \/ r.act = "me"
Emptied == {c \in {"emptied"} : stored' = Empty /\ \E s \in Tabs : Uses(tab'[s])}

(* Seeded fault: the session id is not kept in sync with the rotation. *)
Answered_Badge(t, f) ==
    /\ f.pc # "sent"
    /\ flight' = [flight EXCEPT ![t] = @ \ {f}]
    /\ IF f.pc = "ok"
       THEN /\ stored' = [stored EXCEPT !.refresh = f.got]
            /\ tab' = [tab EXCEPT ![t] = After([@ EXCEPT !.access = f.got[1]], "ok")]
       ELSE /\ stored' = Empty
            /\ tab' = [tab EXCEPT ![t] = After([@ EXCEPT !.access = NoUser], "no")]
    /\ causes' = causes \cup Overwritten(t, f) \cup Emptied
    /\ UNCHANGED <<live, issued, latched, signins, sends, faults, alarm>>

(* The answer: the pair replaces whatever is stored now, a refusal clears    *)
(* it, though it need not be the token that was sent.                        *)
Answered(t, f) ==
    /\ f.pc # "sent"
    /\ flight' = [flight EXCEPT ![t] = @ \ {f}]
    /\ IF f.pc = "ok"
       THEN /\ stored' = [refresh |-> f.got, session |-> f.got]
            /\ tab' = [tab EXCEPT ![t] = After([@ EXCEPT !.access = f.got[1]], "ok")]
       ELSE /\ stored' = Empty
            /\ tab' = [tab EXCEPT ![t] = After([@ EXCEPT !.access = NoUser], "no")]
    /\ causes' = causes \cup Overwritten(t, f) \cup Emptied
    /\ UNCHANGED <<live, issued, latched, signins, sends, faults, alarm>>

(* The request fails before or after the server has rotated; a boot that     *)
(* waits for it clears the session.                                          *)
Lost(t, f) ==
    /\ Fault /\ Blame("lost")
    /\ flight' = [flight EXCEPT ![t] = @ \ {f}]
    /\ IF tab[t].boot = "refresh"
       THEN /\ stored' = Empty
            /\ tab' = [tab EXCEPT ![t] = After([@ EXCEPT !.access = NoUser], "error")]
       ELSE /\ UNCHANGED stored
            /\ tab' = [tab EXCEPT ![t] = After(@, "error")]
    /\ UNCHANGED <<live, issued, latched, signins, sends, alarm>>

-----------------------------------------------------------------------------
(* Seeded fault: the boot asks for a refresh without looking for a token. *)
Open_Unchecked(t) ==
    /\ tab[t].status = "closed"
    /\ RefreshTokens(t, [tab[t] EXCEPT !.status = "loading", !.boot = "refresh"])
    /\ UNCHANGED <<live, issued, stored, signins, faults, alarm>>

(* The tab is opened or reloaded: the provider's boot effect, which looks    *)
(* for a token first.                                                        *)
Open(t) ==
    /\ tab[t].status = "closed"
    /\ IF stored.refresh = NoToken
       THEN tab' = [tab EXCEPT ![t].status = "anon"] /\ UNCHANGED <<flight, latched, sends, causes>>
       ELSE RefreshTokens(t, [tab[t] EXCEPT !.status = "loading", !.boot = "refresh"])
    /\ UNCHANGED <<live, issued, stored, signins, faults, alarm>>

Close(t) ==
    /\ tab[t].status # "closed" /\ Fault
    /\ IF tab[t].act = "none" /\ flight[t] = {} THEN UNCHANGED causes ELSE Blame("closed")
    /\ tab' = [tab EXCEPT ![t] = [Closed EXCEPT !.challenged = tab[t].challenged]]
    /\ flight' = [flight EXCEPT ![t] = {}] /\ latched' = latched \ {t}
    /\ UNCHANGED <<live, issued, stored, signins, sends, alarm>>

SignedIn(r) == [r EXCEPT !.status = "auth", !.challenged = FALSE, !.user = r.access,
                         !.timer = r.access # NoUser]

(* boot's GET /me: the profile, or an exception that clears the session *)
BootMe(t) ==
    /\ tab[t].boot = "me"
    /\ tab' = [tab EXCEPT ![t] = [SignedIn(@) EXCEPT !.boot = "no"]]
    /\ UNCHANGED <<live, issued, stored, flight, latched, signins, sends, faults, alarm, causes>>

BootFails(t) ==
    /\ tab[t].boot = "me" /\ Fault /\ Blame("lost")
    /\ stored' = Empty
    /\ tab' = [tab EXCEPT ![t].boot = "no", ![t].status = "anon", ![t].access = NoUser]
    /\ UNCHANGED <<live, issued, flight, latched, signins, sends, alarm>>

(* scheduleProactiveRefresh: 45 s before the access token expires *)
Fire(t) ==
    /\ tab[t].timer
    /\ RefreshTokens(t, [tab[t] EXCEPT !.timer = FALSE, !.waits = TRUE])
    /\ UNCHANGED <<live, issued, stored, signins, faults, alarm>>

(* api and apiText: a request is answered 401 while a refresh token is       *)
(* stored.  A page's, because the access token has expired (a machine may    *)
(* sleep through its timer); or the two-factor form's, because the code or   *)
(* the challenge is rejected, which it is again when api retries.            *)
Call(t) ==
    /\ Guarded(t) \/ (tab[t].status # "closed" /\ tab[t].challenged)
    /\ Act(t, "none")
    /\ stored.refresh # NoToken
    /\ RefreshTokens(t, [tab[t] EXCEPT !.act = "call"])
    /\ UNCHANGED <<live, issued, stored, signins, faults, alarm>>

-----------------------------------------------------------------------------
Crossed(t) == causes' = causes \cup {c \in {"crossed"} : tab[t].boot # "no" \/ flight[t] # {}}

(* the login page redirects a signed-in tab; the password is answered with a *)
(* pair, or with a challenge that is kept for the next page                  *)
SignIn(t) ==
    /\ tab[t].status \in {"loading", "anon"} /\ Act(t, "none") /\ Room
    /\ signins' = signins + 1 /\ Crossed(t)
    /\ \/ tab' = [tab EXCEPT ![t].act = "signin"]
       \/ tab' = [tab EXCEPT ![t].challenged = TRUE]
    /\ UNCHANGED <<live, issued, stored, flight, latched, sends, faults, alarm>>

(* the two-factor page: a code for the challenge, which may be rejected *)
Verify(t) ==
    /\ tab[t].status \in {"loading", "anon"} /\ Act(t, "none") /\ Room
    /\ tab[t].challenged
    /\ tab' = [tab EXCEPT ![t].act = "signin"]
    /\ signins' = signins + 1 /\ Crossed(t)
    /\ UNCHANGED <<live, issued, stored, flight, latched, sends, faults, alarm>>

(* the registration page: for any tab *)
SignUp(t) ==
    /\ tab[t].status # "closed" /\ Act(t, "none") /\ Room
    /\ tab' = [tab EXCEPT ![t].act = "signup"]
    /\ signins' = signins + 1 /\ Crossed(t)
    /\ UNCHANGED <<live, issued, stored, flight, latched, sends, faults, alarm>>

Account == IF signins = 1 THEN {First} ELSE Users

(* Seeded fault: the profile is asked for before the pair is adopted. *)
Adopt_Late(t) ==
    /\ tab[t].act \in {"signin", "signup"}
    /\ \E u \in Account :
         LET x == New(u) IN
         /\ live' = live \cup {x} /\ issued' = issued + 1
         /\ stored' = [refresh |-> x, session |-> IF Act(t, "signin") THEN x ELSE NoToken]
         /\ causes' = causes \cup {c \in {"replaced"} : stored.refresh # NoToken}
                             \cup {c \in {"switched"} : Apart(t, u)}
         /\ tab' = [tab EXCEPT ![t] = [@ EXCEPT !.act = "none", !.access = u, !.status = "auth",
                         !.user = IF @ = NoUser THEN u ELSE @, !.timer = TRUE]]
    /\ UNCHANGED <<flight, latched, signins, sends, faults, alarm>>

(* The server creates the pair, whose answer has no session id after a       *)
(* registration; adoptSession stores it, over another one if there is one.   *)
Adopt(t) ==
    /\ tab[t].act \in {"signin", "signup"}
    /\ \E u \in Account :
         LET x == New(u) IN
         /\ live' = live \cup {x} /\ issued' = issued + 1
         /\ stored' = [refresh |-> x, session |-> IF Act(t, "signin") THEN x ELSE NoToken]
         /\ causes' = causes \cup {c \in {"replaced"} : stored.refresh # NoToken}
                             \cup {c \in {"switched"} : Apart(t, u)}
         /\ tab' = [tab EXCEPT ![t] = [@ EXCEPT !.act = "me", !.access = u]]
    /\ UNCHANGED <<flight, latched, signins, sends, faults, alarm>>

(* and its GET /me *)
Me(t) ==
    /\ Act(t, "me")
    /\ tab' = [tab EXCEPT ![t] = [SignedIn(@) EXCEPT !.act = "none"]]
    /\ UNCHANGED <<live, issued, stored, flight, latched, signins, sends, faults, alarm, causes>>

(* A request fails, the sign-in's perhaps after the server has created the   *)
(* pair: the form shows the error.                                           *)
SignInFails(t) ==
    /\ tab[t].act \in SigningIn /\ Fault
    /\ Blame(IF Act(t, "me") THEN "halfway" ELSE "lost")
    /\ \/ UNCHANGED <<live, issued>>
       \/ ~Act(t, "me") /\ issued' = issued + 1 /\ \E u \in Account : live' = live \cup {New(u)}
    /\ tab' = [tab EXCEPT ![t].act = "none"]
    /\ UNCHANGED <<stored, flight, latched, signins, sends, alarm>>

-----------------------------------------------------------------------------
SignOut(t) == Act(t, "none") \/ Act(t, "leaving")      \* the button, or one of the panels

(* Seeded fault: the token is read after the session is cleared. *)
Logout_Late(t) ==
    /\ Guarded(t) /\ SignOut(t)
    /\ stored' = Empty
    /\ tab' = [tab EXCEPT ![t].act = "revoked", ![t].hold = NoToken]
    /\ UNCHANGED <<live, issued, flight, latched, signins, sends, faults, alarm, causes>>

(* logout: the stored token is read; without one nothing is sent *)
Logout(t) ==
    /\ Guarded(t) /\ SignOut(t)
    /\ tab' = [tab EXCEPT ![t].act = IF stored.refresh = NoToken THEN "revoked" ELSE "logout",
                          ![t].hold = stored.refresh]
    /\ causes' = causes \cup {c \in {"crossed"} : \E s \in Tabs : flight[s] # {}}
    /\ UNCHANGED <<live, issued, stored, flight, latched, signins, sends, faults, alarm>>

(* revokeRefreshToken, or a request that fails: the teardown goes on *)
Revoke(t) ==
    /\ Act(t, "logout")
    /\ \/ live' = live \ {tab[t].hold} /\ UNCHANGED <<faults, causes>>
       \/ Fault /\ Blame("lost") /\ UNCHANGED live
    /\ tab' = [tab EXCEPT ![t].act = "revoked"]
    /\ UNCHANGED <<issued, stored, flight, latched, signins, sends, alarm>>

(* Seeded fault: the timer is not stopped. *)
Teardown_Timer(t) ==
    /\ Act(t, "revoked")
    /\ stored' = Empty
    /\ tab' = [tab EXCEPT ![t] = [@ EXCEPT !.act = "none", !.hold = NoToken, !.access = NoUser,
                    !.status = "anon", !.user = NoUser]]
    /\ causes' = causes \cup {c \in {"crossed"} : \E s \in Tabs : flight[s] # {}}
                        \cup {c \in {"tabs"} : stored.refresh \notin {tab[t].hold, NoToken}}
                        \cup Emptied
    /\ UNCHANGED <<live, issued, flight, latched, signins, sends, faults, alarm>>

(* clearSession, the timer, the state: a refresh in flight is not stopped *)
Teardown(t) ==
    /\ Act(t, "revoked")
    /\ stored' = Empty
    /\ tab' = [tab EXCEPT ![t] = [@ EXCEPT !.act = "none", !.hold = NoToken, !.access = NoUser,
                    !.status = "anon", !.user = NoUser, !.timer = FALSE]]
    /\ causes' = causes \cup {c \in {"crossed"} : \E s \in Tabs : flight[s] # {}}
                        \cup {c \in {"tabs"} : stored.refresh \notin {tab[t].hold, NoToken}}
                        \cup Emptied
    /\ UNCHANGED <<live, issued, flight, latched, signins, sends, faults, alarm>>

(* the sessions panel: any session but the one it takes for this device's *)
RevokeSession(t, x) ==
    /\ Guarded(t) /\ Act(t, "none") /\ Fault
    /\ x \in live /\ x[1] = tab[t].access /\ x # stored.session
    /\ live' = live \ {x} /\ Blame("revoked")
    /\ UNCHANGED <<issued, stored, tab, flight, latched, signins, sends, alarm>>

(* every session is revoked, then this tab signs out *)
SignOutEverywhere(t) ==
    /\ Guarded(t) /\ Act(t, "none") /\ Fault
    /\ live' = {x \in live : x[1] # tab[t].access} /\ Blame("revoked")
    /\ tab' = [tab EXCEPT ![t].act = "leaving"]
    /\ UNCHANGED <<issued, stored, flight, latched, signins, sends, alarm>>

(* the password card signs out after a while, the two-factor panel at once *)
ChangePassword(t)   == SignOutEverywhere(t)
DisableTwoFactor(t) == SignOutEverywhere(t)

(* the page behind a mailed link: it revokes, and leaves this browser alone *)
ResetPassword(t) ==
    /\ tab[t].status # "closed" /\ Act(t, "none") /\ Fault /\ Blame("revoked")
    /\ \E u \in Users : live' = {x \in live : x[1] # u} /\ live' # live
    /\ UNCHANGED <<issued, stored, tab, flight, latched, signins, sends, alarm>>

(* another device revokes some sessions *)
Elsewhere ==
    /\ Fault /\ Blame("revoked")
    /\ \E gone \in (SUBSET live) \ {{}} : live' = live \ gone
    /\ UNCHANGED <<issued, stored, tab, flight, latched, signins, sends, alarm>>

Progress(t) ==
    \/ BootMe(t) \/ Adopt(t) \/ Me(t) \/ Revoke(t) \/ Teardown(t)
    \/ tab[t].act = "leaving" /\ Logout(t)
    \/ \E f \in flight[t] : Rotate(t, f) \/ Answered(t, f)

Next ==
    \/ \E t \in Tabs :
         \/ Progress(t) \/ Open(t) \/ Close(t) \/ BootFails(t) \/ Fire(t) \/ Call(t)
         \/ SignIn(t) \/ Verify(t) \/ SignUp(t) \/ SignInFails(t) \/ Logout(t)
         \/ ChangePassword(t) \/ DisableTwoFactor(t) \/ ResetPassword(t)
         \/ \E f \in flight[t] : Refuse(t, f) \/ Lost(t, f)
         \/ \E x \in live : RevokeSession(t, x)
    \/ Elsewhere

Spec == Init /\ [][Next]_vars

(* A request is answered or fails, and a timer that is due fires. *)
FairSpec == Spec /\ \A t \in Tabs : WF_vars(Progress(t)) /\ WF_vars(Fire(t))

-----------------------------------------------------------------------------
(* Types; and a tab never has two refreshes of its own under way. *)
TypeOK ==
    /\ live \subseteq Token /\ stored \in Stored
    /\ tab \in [Tabs -> Tab] /\ latched \subseteq Tabs
    /\ \A t \in Tabs : flight[t] \subseteq Flight /\ Cardinality(flight[t]) <= 1
    /\ issued \in 0..(MaxSends + MaxEvents) /\ signins \in 0..MaxEvents /\ sends \in 0..MaxSends /\ faults \in 0..MaxFaults
    /\ alarm \in BOOLEAN
    /\ causes \subseteq {"tabs", "crossed", "lost", "closed", "refused", "revoked", "replaced", "switched", "halfway",
                   "emptied"}

Idle(t) == tab[t].act = "none" /\ tab[t].boot = "no" /\ flight[t] = {}

(* A client on its own never sets off the server's theft alarm: a token is   *)
(* replayed only by two tabs at once, by a refresh that meets a logout,      *)
(* after an answer that was lost, or when the session was revoked.           *)
NoFalseAlarm == alarm => causes \cap {"tabs", "crossed", "lost", "closed", "revoked"} # {}

(* The stored session id is the one of the stored token, or there is none:   *)
(* "this device" is never another device.                                    *)
BadgeIsThisDevice == stored.session \in {NoToken, stored.refresh}

(* Every session the server keeps for this browser is one the browser holds, *)
(* or is about to: unless a failure, a second tab or a sign-in over another  *)
(* threw it away.                                                            *)
SessionsAreHeld ==
    \A x \in live :
        \/ x = stored.refresh
        \/ \E t \in Tabs : x = tab[t].hold \/ \E f \in flight[t] : x \in {f.token, f.got}
        \/ causes \cap {"lost", "closed", "refused", "replaced", "tabs", "crossed"} # {}

(* What the browser stores, against the sessions the server keeps. *)
StoreSafety == BadgeIsThisDevice /\ SessionsAreHeld

(* A tab that signed out, and has nothing under way, is out: no timer will   *)
(* bring the session back, unless a refresh overlapped the logout.           *)
OutIsOut ==
    \A t \in Tabs : tab[t].status = "anon" /\ Idle(t) => ~tab[t].timer \/ "crossed" \in causes

(* A signed-in tab shows the account its requests are made for, unless       *)
(* another tab signed in over it.                                            *)
ShowsWhoItIs ==
    \A t \in Tabs :
        tab[t].status = "auth" /\ Idle(t) /\ tab[t].access # NoUser =>
            tab[t].user = tab[t].access \/ causes \cap {"switched", "crossed", "halfway"} # {}

(* A signed-in tab has a refresh under way, or one planned that will be      *)
(* sent: unless an exception ended the chain, or the session was once        *)
(* cleared under a tab that went on with it.  After that the tab may hold    *)
(* the promise that refreshTokens leaves behind: its timer then signs out a  *)
(* good session.                                                             *)
RefreshIsPlanned ==
    \A t \in Tabs :
        tab[t].status = "auth" =>
            \/ tab[t].waits \/ (tab[t].timer /\ t \notin latched)
            \/ causes \cap {"lost", "crossed", "emptied"} # {}

(* What a tab shows and plans, against what the browser stores. *)
TabSafety == OutIsOut /\ ShowsWhoItIs /\ RefreshIsPlanned

(* The boot always ends: no tab stays at the spinner. *)
LoadingEnds == \A t \in Tabs : tab[t].status = "loading" ~> tab[t].status # "loading"

(* When another tab signs out, a signed-in tab follows. *)
SignOutSpreads ==
    \A t \in Tabs :
        tab[t].status = "auth" /\ stored = Empty ~>
            tab[t].status # "auth" \/ stored # Empty \/ causes \cap {"lost", "crossed"} # {}

(* No tab is left where it is. *)
TabsFollow == LoadingEnds /\ SignOutSpreads
=============================================================================
