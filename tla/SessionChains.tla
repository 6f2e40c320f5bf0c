--------------------------- MODULE SessionChains ----------------------------
(* What rotation promises to whoever holds a refresh token: a token is       *)
(* exchanged for one successor of the same user, or refused.  A token is     *)
(* current from the moment it is handed out until it is exchanged or ended;  *)
(* nothing makes it current again.  Only one that two refreshes were given   *)
(* at once may stay current when it is exchanged, and be exchanged again.    *)

CONSTANTS Users, Tokens, NoUser, NoToken

VARIABLES
    used,        \* tokens handed out so far
    current,     \* those that a client may still exchange
    contested,   \* those that two refreshes were given at once
    owner,       \* the user a token was handed out to
    from         \* the token it was exchanged for

cvars == <<used, current, contested, owner, from>>

CInit ==
    /\ used = {} /\ current = {} /\ contested = {}
    /\ owner = [t \in Tokens |-> NoUser]
    /\ from = [t \in Tokens |-> NoToken]

HandOut(s, u, t) ==
    /\ s \notin used
    /\ used' = used \cup {s}
    /\ owner' = [owner EXCEPT ![s] = u]
    /\ from' = [from EXCEPT ![s] = t]
    /\ UNCHANGED contested

SignIn(s, u) ==
    /\ HandOut(s, u, NoToken)
    /\ current' = current \cup {s}

Exchange(t, s) ==
    /\ t \in current
    /\ HandOut(s, owner[t], t)
    /\ \/ current' = (current \ {t}) \cup {s}
       \/ t \in contested /\ current' = current \cup {s}

Contest(t) ==
    /\ t \in current
    /\ contested' = contested \cup {t}
    /\ UNCHANGED <<used, current, owner, from>>

(* However many sessions end at once, they are one user's. *)
End(S) ==
    /\ S # {} /\ S \subseteq current
    /\ \A s, t \in S : owner[s] = owner[t]
    /\ current' = current \ S
    /\ UNCHANGED <<used, contested, owner, from>>

CNext ==
    \/ \E s \in Tokens :
         \/ \E u \in Users : SignIn(s, u)
         \/ \E t \in Tokens : Exchange(t, s)
         \/ Contest(s)
    \/ \E S \in SUBSET Tokens : End(S)

CSpec == CInit /\ [][CNext]_cvars
=============================================================================
