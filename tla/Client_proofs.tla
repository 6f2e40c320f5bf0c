--------------------------- MODULE Client_proofs ----------------------------
(* Proofs about the web client, for any number of tabs, accounts, items and  *)
(* mutations.  First its session handling: the steps of a tab are reduced to *)
(* what they do to its record and to its request; on top of that stand three *)
(* layers: the tokens, the sessions and the alarm, and the tabs.  Then its   *)
(* lists: the steps are reduced to kinds (a fetch is read, comes or fails,   *)
(* the view turns, a mutation begins with or without a guess, its request is *)
(* served or lost, it ends), and on the invariant of the records stand three *)
(* independent ones, each proved kind by kind: what the lists show (Truth),  *)
(* how many pages there are (Pages), and the trash (TrashInv).               *)
EXTENDS ClientAuth, ClientBoard, FiniteSetTheorems, WellFoundedInduction, TLAPS

Causes == {"tabs", "crossed", "lost", "closed", "refused", "revoked", "replaced",
           "switched", "halfway", "emptied"}

Base ==
    /\ live \subseteq Token /\ stored \in Stored
    /\ tab \in [Tabs -> Tab]
    /\ flight \in [Tabs -> SUBSET Flight]
    /\ \A t \in Tabs : \A f, g \in flight[t] : f = g
    /\ issued \in 0..(MaxSends + MaxEvents)
    /\ signins \in 0..MaxEvents /\ sends \in 0..MaxSends /\ faults \in 0..MaxFaults
    /\ alarm \in BOOLEAN /\ causes \subseteq Causes

(* The fields of a tab. *)
Has(d, status, user, access, boot, timer, waits, act, hold) ==
    /\ d \in Tab
    /\ d.status = status /\ d.user = user /\ d.access = access /\ d.boot = boot
    /\ d.act = act /\ d.hold = hold
    /\ (d.timer <=> timer) /\ (d.waits <=> waits)

LEMMA Fields ==
    \A r \in Tab :
        /\ \A x \in {"closed", "loading", "anon", "auth"} : [r EXCEPT !.status = x] \in Tab
        /\ \A x \in Users \cup {NoUser} : [r EXCEPT !.user = x] \in Tab
        /\ \A x \in Users \cup {NoUser} : [r EXCEPT !.access = x] \in Tab
        /\ \A x \in BOOLEAN : [r EXCEPT !.challenged = x] \in Tab
        /\ \A x \in {"no", "refresh", "me"} : [r EXCEPT !.boot = x] \in Tab
        /\ \A x \in BOOLEAN : [r EXCEPT !.timer = x] \in Tab
        /\ \A x \in BOOLEAN : [r EXCEPT !.waits = x] \in Tab
        /\ \A x \in {"none", "call", "signin", "signup", "me", "leaving", "logout", "revoked"} :
             [r EXCEPT !.act = x] \in Tab
        /\ \A x \in Token \cup {NoToken} : [r EXCEPT !.hold = x] \in Tab
<1>1. ASSUME NEW r \in Tab, NEW x \in {"closed", "loading", "anon", "auth"}
      PROVE  [r EXCEPT !.status = x] \in Tab
  BY DEF Tab
<1>2. ASSUME NEW r \in Tab, NEW x \in Users \cup {NoUser} PROVE [r EXCEPT !.user = x] \in Tab
  BY DEF Tab
<1>3. ASSUME NEW r \in Tab, NEW x \in Users \cup {NoUser} PROVE [r EXCEPT !.access = x] \in Tab
  BY DEF Tab
<1>4. ASSUME NEW r \in Tab, NEW x \in BOOLEAN PROVE [r EXCEPT !.challenged = x] \in Tab
  BY DEF Tab
<1>5. ASSUME NEW r \in Tab, NEW x \in {"no", "refresh", "me"} PROVE [r EXCEPT !.boot = x] \in Tab
  BY DEF Tab
<1>6. ASSUME NEW r \in Tab, NEW x \in BOOLEAN PROVE [r EXCEPT !.timer = x] \in Tab
  BY DEF Tab
<1>7. ASSUME NEW r \in Tab, NEW x \in BOOLEAN PROVE [r EXCEPT !.waits = x] \in Tab
  BY DEF Tab
<1>8. ASSUME NEW r \in Tab,
             NEW x \in {"none", "call", "signin", "signup", "me", "leaving", "logout", "revoked"}
      PROVE  [r EXCEPT !.act = x] \in Tab
  BY DEF Tab
<1>9. ASSUME NEW r \in Tab, NEW x \in Token \cup {NoToken} PROVE [r EXCEPT !.hold = x] \in Tab
  BY DEF Tab
<1>. QED
  BY <1>1, <1>2, <1>3, <1>4, <1>5, <1>6, <1>7, <1>8, <1>9, Zenon

LEMMA AfterEffect ==
    ASSUME NEW r \in Tab, NEW how \in {"ok", "no", "error"}
    PROVE  Has(After(r, how),
               IF (r.boot = "refresh" /\ how # "ok") \/ (r.waits /\ how = "no")
               THEN "anon" ELSE r.status,
               IF r.waits /\ how = "no" THEN NoUser ELSE r.user,
               r.access,
               IF r.boot # "refresh" THEN r.boot ELSE IF how = "ok" THEN "me" ELSE "no",
               r.timer \/ (r.waits /\ how = "ok"), FALSE,
               IF r.act = "call" THEN "none" ELSE r.act, r.hold)
<1>. DEFINE out == (r.boot = "refresh" /\ how # "ok") \/ (r.waits /\ how = "no")
<1>a. PICK timer \in BOOLEAN : timer = (r.timer \/ (r.waits /\ how = "ok"))
  OBVIOUS
<1>b. PICK boot \in {"no", "refresh", "me"} :
        boot = IF r.boot # "refresh" THEN r.boot ELSE IF how = "ok" THEN "me" ELSE "no"
  <2>1. r.boot \in {"no", "refresh", "me"}
    BY DEF Tab
  <2>. QED
    BY <2>1
<1>c. PICK act \in {"none", "call", "signin", "signup", "me", "leaving", "logout", "revoked"} :
        act = IF r.act = "call" THEN "none" ELSE r.act
  <2>1. r.act \in {"none", "call", "signin", "signup", "me", "leaving", "logout", "revoked"}
    BY DEF Tab
  <2>. QED
    BY <2>1
<1>d. PICK status \in {"closed", "loading", "anon", "auth"} :
        status = IF out THEN "anon" ELSE r.status
  <2>1. r.status \in {"closed", "loading", "anon", "auth"}
    BY DEF Tab
  <2>. QED
    BY <2>1
<1>e. PICK user \in Users \cup {NoUser} :
        user = IF r.waits /\ how = "no" THEN NoUser ELSE r.user
  BY DEF Tab
<1>2. After(r, how) = [r EXCEPT !.boot = boot, !.timer = timer, !.waits = FALSE,
                                !.act = act, !.status = status, !.user = user]
  BY <1>a, <1>b, <1>c, <1>d, <1>e DEF After
<1>3. [r EXCEPT !.boot = boot] \in Tab
  BY Fields
<1>4. [r EXCEPT !.boot = boot, !.timer = timer] \in Tab
  BY <1>3, Fields
<1>5. [r EXCEPT !.boot = boot, !.timer = timer, !.waits = FALSE] \in Tab
  BY <1>4, Fields
<1>6. [r EXCEPT !.boot = boot, !.timer = timer, !.waits = FALSE, !.act = act] \in Tab
  BY <1>5, Fields
<1>7. [r EXCEPT !.boot = boot, !.timer = timer, !.waits = FALSE, !.act = act,
                !.status = status] \in Tab
  BY <1>6, Fields
<1>8. After(r, how) \in Tab
  <2>1. [r EXCEPT !.boot = boot, !.timer = timer, !.waits = FALSE, !.act = act,
                  !.status = status, !.user = user] \in Tab
    BY <1>7, Fields
  <2>. QED
    BY <1>2, <2>1
<1>9. LET a == After(r, how) IN
      /\ a.access = r.access /\ a.hold = r.hold /\ a.boot = boot
      /\ a.act = act /\ a.status = status /\ a.user = user
  BY <1>2 DEF Tab
<1>10. LET a == After(r, how) IN (a.timer <=> timer) /\ ~a.waits
  BY <1>2 DEF Tab
<1>. QED
  BY <1>a, <1>b, <1>c, <1>d, <1>e, <1>8, <1>9, <1>10 DEF Has

LEMMA SignedInEffect ==
    ASSUME NEW r \in Tab
    PROVE  Has(SignedIn(r), "auth", r.access, r.access, r.boot, r.access # NoUser, r.waits,
               r.act, r.hold)
<1>. DEFINE timer == r.access # NoUser
<1>0. r.access \in Users \cup {NoUser} /\ r.waits \in BOOLEAN /\ timer \in BOOLEAN
  BY DEF Tab
<1>. HIDE DEF timer
<1>1. SignedIn(r) = [r EXCEPT !.status = "auth", !.challenged = FALSE, !.user = r.access,
                              !.timer = timer]
  BY DEF SignedIn, timer
<1>2. [r EXCEPT !.status = "auth"] \in Tab
  BY Fields
<1>3. [r EXCEPT !.status = "auth", !.challenged = FALSE] \in Tab
  BY <1>2, Fields
<1>4. [r EXCEPT !.status = "auth", !.challenged = FALSE, !.user = r.access] \in Tab
  BY <1>0, <1>3, Fields
<1>5. SignedIn(r) \in Tab
  BY <1>0, <1>1, <1>4, Fields
<1>6. LET a == SignedIn(r) IN
      /\ a.access = r.access /\ a.hold = r.hold /\ a.boot = r.boot /\ a.act = r.act
      /\ a.status = "auth" /\ a.user = r.access
  BY <1>1 DEF Tab
<1>7. LET a == SignedIn(r) IN (a.timer <=> timer) /\ (a.waits <=> r.waits)
  BY <1>0, <1>1 DEF Tab
<1>. QED
  BY <1>5, <1>6, <1>7 DEF Has, timer

-----------------------------------------------------------------------------
(* What the steps do to the tab that takes them; the others stay. *)
Alone(t) == tab' \in [Tabs -> Tab] /\ \A s \in Tabs \ {t} : tab'[s] = tab[s]

LEMMA Puts ==
    ASSUME Base, NEW t \in Tabs, NEW d \in Tab, tab' = [tab EXCEPT ![t] = d]
    PROVE  Alone(t) /\ tab'[t] = d /\ tab[t] \in Tab
BY DEF Base, Alone

LEMMA ActPut ==
    ASSUME Base, NEW t \in Tabs,
           NEW a \in {"none", "call", "signin", "signup", "me", "leaving", "logout", "revoked"},
           tab' = [tab EXCEPT ![t].act = a]
    PROVE  LET r == tab[t] IN
           /\ Alone(t)
           /\ Has(tab'[t], r.status, r.user, r.access, r.boot, r.timer, r.waits, a, r.hold)
<1>. DEFINE r == tab[t]
            d == [r EXCEPT !.act = a]
<1>1. r \in Tab
  BY DEF Base
<1>2. d \in Tab
  BY <1>1, Fields
<1>3. Has(d, r.status, r.user, r.access, r.boot, r.timer, r.waits, a, r.hold)
  BY <1>1, <1>2 DEF Has, Tab
<1>4. tab' = [tab EXCEPT ![t] = d]
  OBVIOUS
<1>. QED
  BY <1>2, <1>3, <1>4, Puts

LEMMA CloseEffect ==
    ASSUME Base, NEW t \in Tabs, Close(t)
    PROVE  /\ Alone(t)
           /\ Has(tab'[t], "closed", NoUser, NoUser, "no", FALSE, FALSE, "none", NoToken)
<1>. DEFINE x == tab[t].challenged
            d == [Closed EXCEPT !.challenged = x]
<1>1. x \in BOOLEAN
  BY DEF Base, Tab
<1>. HIDE DEF x
<1>2. Closed \in Tab
  BY DEF Closed, Tab
<1>3. d \in Tab
  BY <1>1, <1>2, Fields
<1>4. Has(d, "closed", NoUser, NoUser, "no", FALSE, FALSE, "none", NoToken)
  BY <1>3 DEF Has, Closed
<1>5. tab' = [tab EXCEPT ![t] = d]
  BY DEF Close, x
<1>. QED
  BY <1>3, <1>4, <1>5, Puts

LEMMA BootMeEffect ==
    ASSUME Base, NEW t \in Tabs, BootMe(t)
    PROVE  LET r == tab[t] IN
           /\ Alone(t)
           /\ Has(tab'[t], "auth", r.access, r.access, "no", r.access # NoUser, r.waits,
                  r.act, r.hold)
<1>. DEFINE r == tab[t]
            m == SignedIn(r)
            d == [m EXCEPT !.boot = "no"]
<1>1. r \in Tab
  BY DEF Base
<1>2. tab' = [tab EXCEPT ![t] = d]
  BY DEF BootMe
<1>3. Has(m, "auth", r.access, r.access, r.boot, r.access # NoUser, r.waits, r.act, r.hold)
  BY <1>1, SignedInEffect
<1>. HIDE DEF m
<1>4. d \in Tab
  BY <1>3, Fields DEF Has
<1>5. Has(d, "auth", r.access, r.access, "no", r.access # NoUser, r.waits, r.act, r.hold)
  BY <1>3, <1>4 DEF Has, Tab
<1>. QED
  BY <1>2, <1>4, <1>5, Puts

LEMMA MeEffect ==
    ASSUME Base, NEW t \in Tabs, Me(t)
    PROVE  LET r == tab[t] IN
           /\ Alone(t)
           /\ Has(tab'[t], "auth", r.access, r.access, r.boot, r.access # NoUser, r.waits,
                  "none", r.hold)
<1>. DEFINE r == tab[t]
            m == SignedIn(r)
            d == [m EXCEPT !.act = "none"]
<1>1. r \in Tab
  BY DEF Base
<1>2. tab' = [tab EXCEPT ![t] = d]
  BY DEF Me
<1>3. Has(m, "auth", r.access, r.access, r.boot, r.access # NoUser, r.waits, r.act, r.hold)
  BY <1>1, SignedInEffect
<1>. HIDE DEF m
<1>4. d \in Tab
  BY <1>3, Fields DEF Has
<1>5. Has(d, "auth", r.access, r.access, r.boot, r.access # NoUser, r.waits, "none", r.hold)
  BY <1>3, <1>4 DEF Has, Tab
<1>. QED
  BY <1>2, <1>4, <1>5, Puts

LEMMA BootFailsEffect ==
    ASSUME Base, NEW t \in Tabs, BootFails(t)
    PROVE  LET r == tab[t] IN
           /\ Alone(t)
           /\ Has(tab'[t], "anon", r.user, NoUser, "no", r.timer, r.waits, r.act, r.hold)
<1>. DEFINE r == tab[t]
            d == [r EXCEPT !.boot = "no", !.status = "anon", !.access = NoUser]
<1>1. r \in Tab
  BY DEF Base
<1>2. tab' = [tab EXCEPT ![t] = d]
  BY DEF BootFails
<1>3. [r EXCEPT !.boot = "no", !.status = "anon"] \in Tab
  <2>1. [r EXCEPT !.boot = "no"] \in Tab
    BY <1>1, Fields
  <2>. QED
    BY <2>1, Fields
<1>4. d \in Tab
  BY <1>3, Fields
<1>5. Has(d, "anon", r.user, NoUser, "no", r.timer, r.waits, r.act, r.hold)
  BY <1>1, <1>4 DEF Has, Tab
<1>. QED
  BY <1>2, <1>4, <1>5, Puts

(* The three forms: a password that is answered with a challenge starts      *)
(* nothing in the tab.                                                       *)
LEMMA FormEffect ==
    ASSUME Base, NEW t \in Tabs, SignIn(t) \/ Verify(t) \/ SignUp(t)
    PROVE  LET r == tab[t] IN
           /\ Alone(t) /\ r.act = "none"
           /\ \E a \in {"none", "signin", "signup"} :
                Has(tab'[t], r.status, r.user, r.access, r.boot, r.timer, r.waits, a, r.hold)
<1>. DEFINE r == tab[t]
<1>1. r \in Tab /\ r.act = "none"
  BY DEF Base, SignIn, Verify, SignUp, Act
<1>2. CASE tab' = [tab EXCEPT ![t].act = "signin"]
  BY <1>1, <1>2, ActPut
<1>3. CASE tab' = [tab EXCEPT ![t].act = "signup"]
  BY <1>1, <1>3, ActPut
<1>4. CASE tab' = [tab EXCEPT ![t].challenged = TRUE]
  <2>. DEFINE d == [r EXCEPT !.challenged = TRUE]
  <2>1. tab' = [tab EXCEPT ![t] = d]
    BY <1>4
  <2>2. d \in Tab
    BY <1>1, Fields
  <2>3. Has(d, r.status, r.user, r.access, r.boot, r.timer, r.waits, "none", r.hold)
    BY <1>1, <2>2 DEF Has, Tab
  <2>. HIDE DEF d
  <2>. QED
    BY <1>1, <2>1, <2>2, <2>3, Puts
<1>. QED
  BY <1>2, <1>3, <1>4 DEF SignIn, Verify, SignUp

LEMMA AdoptPut ==
    ASSUME Base, NEW t \in Tabs, NEW u \in Users,
           tab' = [tab EXCEPT ![t] = [@ EXCEPT !.act = "me", !.access = u]]
    PROVE  LET r == tab[t] IN
           /\ Alone(t)
           /\ Has(tab'[t], r.status, r.user, u, r.boot, r.timer, r.waits, "me", r.hold)
<1>. DEFINE r == tab[t]
            d == [r EXCEPT !.act = "me", !.access = u]
<1>1. r \in Tab
  BY DEF Base
<1>2. [r EXCEPT !.act = "me"] \in Tab
  BY <1>1, Fields
<1>3. d \in Tab
  BY <1>2, Fields
<1>4. Has(d, r.status, r.user, u, r.boot, r.timer, r.waits, "me", r.hold)
  BY <1>1, <1>3 DEF Has, Tab
<1>5. tab' = [tab EXCEPT ![t] = d]
  OBVIOUS
<1>. QED
  BY <1>3, <1>4, <1>5, Puts

LEMMA LogoutEffect ==
    ASSUME Base, NEW t \in Tabs, Logout(t)
    PROVE  LET r == tab[t] IN
           /\ Alone(t)
           /\ Has(tab'[t], r.status, r.user, r.access, r.boot, r.timer, r.waits,
                  IF stored.refresh = NoToken THEN "revoked" ELSE "logout", stored.refresh)
<1>. DEFINE r == tab[t]
            x == stored.refresh
<1>1. r \in Tab /\ x \in Token \cup {NoToken}
  BY DEF Base, Stored
<1>2. PICK a \in {"revoked", "logout"} : a = IF stored.refresh = NoToken THEN "revoked" ELSE "logout"
  OBVIOUS
<1>. DEFINE d == [r EXCEPT !.act = a, !.hold = x]
<1>3. tab' = [tab EXCEPT ![t] = d]
  BY <1>2 DEF Logout
<1>. HIDE DEF x
<1>4. [r EXCEPT !.act = a] \in Tab
  BY <1>1, Fields
<1>5. d \in Tab
  BY <1>1, <1>4, Fields
<1>6. Has(d, r.status, r.user, r.access, r.boot, r.timer, r.waits, a, x)
  BY <1>1, <1>5 DEF Has, Tab
<1>. QED
  BY <1>2, <1>3, <1>5, <1>6, Puts DEF x

LEMMA TeardownEffect ==
    ASSUME Base, NEW t \in Tabs, Teardown(t)
    PROVE  LET r == tab[t] IN
           /\ Alone(t)
           /\ Has(tab'[t], "anon", NoUser, NoUser, r.boot, FALSE, r.waits, "none", NoToken)
<1>. DEFINE r == tab[t]
            d == [r EXCEPT !.act = "none", !.hold = NoToken, !.access = NoUser,
                           !.status = "anon", !.user = NoUser, !.timer = FALSE]
<1>1. r \in Tab
  BY DEF Base
<1>2. tab' = [tab EXCEPT ![t] = d]
  BY DEF Teardown
<1>3. [r EXCEPT !.act = "none"] \in Tab
  BY <1>1, Fields
<1>4. [r EXCEPT !.act = "none", !.hold = NoToken] \in Tab
  BY <1>3, Fields
<1>5. [r EXCEPT !.act = "none", !.hold = NoToken, !.access = NoUser] \in Tab
  BY <1>4, Fields
<1>6. [r EXCEPT !.act = "none", !.hold = NoToken, !.access = NoUser, !.status = "anon"] \in Tab
  BY <1>5, Fields
<1>7. [r EXCEPT !.act = "none", !.hold = NoToken, !.access = NoUser, !.status = "anon",
                !.user = NoUser] \in Tab
  BY <1>6, Fields
<1>8. d \in Tab
  BY <1>7, Fields
<1>9. /\ d.status = "anon" /\ d.user = NoUser /\ d.access = NoUser /\ d.boot = r.boot
      /\ d.act = "none" /\ d.hold = NoToken
  BY <1>1 DEF Tab
<1>10. ~d.timer /\ (d.waits <=> r.waits)
  BY <1>1 DEF Tab
<1>. HIDE DEF d
<1>. QED
  BY <1>2, <1>8, <1>9, <1>10, Puts DEF Has

(* The answer of a refresh, for the tab whose access token it changes. *)
Ended(d, r, access, how) ==
    Has(d, IF (r.boot = "refresh" /\ how # "ok") \/ (r.waits /\ how = "no")
           THEN "anon" ELSE r.status,
        IF r.waits /\ how = "no" THEN NoUser ELSE r.user,
        access,
        IF r.boot # "refresh" THEN r.boot ELSE IF how = "ok" THEN "me" ELSE "no",
        r.timer \/ (r.waits /\ how = "ok"), FALSE,
        IF r.act = "call" THEN "none" ELSE r.act, r.hold)

LEMMA AccessEffect ==
    ASSUME NEW r \in Tab, NEW x \in Users \cup {NoUser}, NEW how \in {"ok", "no", "error"}
    PROVE  Ended(After([r EXCEPT !.access = x], how), r, x, how)
<1>. DEFINE m == [r EXCEPT !.access = x]
<1>1. m \in Tab
  BY Fields
<1>2. /\ m.status = r.status /\ m.user = r.user /\ m.access = x /\ m.boot = r.boot
      /\ m.act = r.act /\ m.hold = r.hold
  BY DEF Tab
<1>3. (m.timer <=> r.timer) /\ (m.waits <=> r.waits)
  BY DEF Tab
<1>. HIDE DEF m
<1>4. Has(After(m, how),
          IF (m.boot = "refresh" /\ how # "ok") \/ (m.waits /\ how = "no")
          THEN "anon" ELSE m.status,
          IF m.waits /\ how = "no" THEN NoUser ELSE m.user,
          m.access,
          IF m.boot # "refresh" THEN m.boot ELSE IF how = "ok" THEN "me" ELSE "no",
          m.timer \/ (m.waits /\ how = "ok"), FALSE,
          IF m.act = "call" THEN "none" ELSE m.act, m.hold)
  BY <1>1, AfterEffect
<1>5. Ended(After(m, how), r, x, how)
  BY <1>2, <1>3, <1>4 DEF Has, Ended
<1>. QED
  BY <1>5 DEF m

-----------------------------------------------------------------------------
(* What the steps do to the requests of a tab. *)
Flies(t, F) ==
    /\ flight' \in [Tabs -> SUBSET Flight]
    /\ \A s \in Tabs : \A f, g \in flight'[s] : f = g
    /\ flight'[t] = F /\ \A s \in Tabs \ {t} : flight'[s] = flight[s]

LEMMA OneFlies ==
    ASSUME Base, NEW t \in Tabs, NEW g \in Flight, flight' = [flight EXCEPT ![t] = {g}]
    PROVE  Flies(t, {g})
BY DEF Base, Flies

LEMMA NoneFlies ==
    ASSUME Base, NEW t \in Tabs, flight' = [flight EXCEPT ![t] = {}]
    PROVE  Flies(t, {})
BY DEF Base, Flies

(* A caller of refreshTokens joins the request that is under way, finds no   *)
(* token or the promise that an earlier caller left, or sends a request.     *)
Joined(t, r) == flight[t] # {} /\ tab'[t] = r /\ UNCHANGED <<flight, latched, sends, causes>>
Denied(t, r) ==
    /\ flight[t] = {} /\ (t \in latched \/ stored.refresh = NoToken)
    /\ tab'[t] = After(r, "no") /\ latched' = latched \cup {t}
    /\ UNCHANGED <<flight, sends, causes>>
Launched(t, r) ==
    /\ flight[t] = {} /\ stored.refresh \in Token
    /\ tab'[t] = r /\ latched' = latched /\ sends < MaxSends /\ sends' = sends + 1
    /\ causes \subseteq causes' /\ causes' \subseteq causes \cup {"tabs", "crossed"}
    /\ (\E s \in Tabs \ {t} : \E f \in flight[s] : f.token = stored.refresh) => "tabs" \in causes'
    /\ (\E s \in Tabs : tab[s].act \in {"logout", "revoked"} /\ tab[s].hold = stored.refresh)
         => "crossed" \in causes'
    /\ tab[t].act \in SigningIn \/ tab[t].boot = "me" => "crossed" \in causes'
    /\ \E g \in Flight : /\ g.token = stored.refresh /\ g.pc = "sent" /\ g.got = NoToken
                         /\ flight' = [flight EXCEPT ![t] = {g}]

LEMMA RefreshEffect ==
    ASSUME Base, NEW t \in Tabs, NEW r \in Tab, RefreshTokens(t, r)
    PROVE  Alone(t) /\ (Joined(t, r) \/ Denied(t, r) \/ Launched(t, r))
<1>1. CASE flight[t] # {}
  BY <1>1, Puts DEF RefreshTokens, Joined
<1>2. CASE flight[t] = {} /\ (t \in latched \/ stored.refresh = NoToken)
  <2>1. After(r, "no") \in Tab
    BY AfterEffect DEF Has
  <2>2. /\ tab' = [tab EXCEPT ![t] = After(r, "no")] /\ latched' = latched \cup {t}
        /\ UNCHANGED <<flight, sends, causes>>
    BY <1>2 DEF RefreshTokens, Latch
  <2>. QED
    BY <1>2, <2>1, <2>2, Puts DEF Denied
<1>3. CASE flight[t] = {} /\ t \notin latched /\ stored.refresh # NoToken
  <2>1. tab' = [tab EXCEPT ![t] = r] /\ Send(t) /\ latched' = latched
    BY <1>3 DEF RefreshTokens
  <2>2. Alone(t) /\ tab'[t] = r
    BY <2>1, Puts
  <2>3. stored.refresh \in Token
    BY <1>3 DEF Base, Stored
  <2>. DEFINE g == [token |-> stored.refresh, pc |-> "sent", got |-> NoToken]
  <2>4. g \in Flight /\ g.token = stored.refresh /\ g.pc = "sent" /\ g.got = NoToken
    BY <2>3 DEF Flight
  <2>5. flight' = [flight EXCEPT ![t] = {g}]
    <3>1. flight' = [flight EXCEPT ![t] = flight[t] \cup {g}]
      BY <2>1 DEF Send
    <3>2. flight[t] \cup {g} = {g}
      BY <1>3
    <3>. QED
      BY <3>1, <3>2
  <2>. HIDE DEF g
  <2>6. /\ sends < MaxSends /\ sends' = sends + 1
        /\ causes \subseteq causes' /\ causes' \subseteq causes \cup {"tabs", "crossed"}
        /\ (\E s \in Tabs \ {t} : \E f \in flight[s] : f.token = stored.refresh) => "tabs" \in causes'
        /\ (\E s \in Tabs : tab[s].act \in {"logout", "revoked"} /\ tab[s].hold = stored.refresh)
             => "crossed" \in causes'
        /\ tab[t].act \in SigningIn \/ tab[t].boot = "me" => "crossed" \in causes'
    BY <2>1 DEF Send
  <2>. QED
    BY <1>3, <2>1, <2>2, <2>3, <2>4, <2>5, <2>6 DEF Launched
<1>. QED
  BY <1>1, <1>2, <1>3

(* The three callers; the boot is one only if it finds a token. *)
Unsigned(t) ==
    LET m == tab[t] IN
    /\ m.status = "closed" /\ Alone(t) /\ UNCHANGED <<flight, latched, sends, causes>>
    /\ Has(tab'[t], "anon", m.user, m.access, m.boot, m.timer, m.waits, m.act, m.hold)

LEMMA OpenCalls ==
    ASSUME Base, NEW t \in Tabs, Open(t)
    PROVE  \/ Unsigned(t)
           \/ /\ stored.refresh # NoToken
              /\ \E r \in Tab :
                   /\ RefreshTokens(t, r)
                   /\ LET m == tab[t] IN
                      Has(r, "loading", m.user, m.access, "refresh", m.timer, m.waits, m.act, m.hold)
<1>. DEFINE m == tab[t]
<1>1. m \in Tab /\ m.status = "closed"
  BY DEF Base, Open
<1>2. CASE stored.refresh = NoToken
  <2>. DEFINE d == [m EXCEPT !.status = "anon"]
  <2>1. d \in Tab
    BY <1>1, Fields
  <2>2. Has(d, "anon", m.user, m.access, m.boot, m.timer, m.waits, m.act, m.hold)
    BY <1>1, <2>1 DEF Has, Tab
  <2>3. tab' = [tab EXCEPT ![t] = d] /\ UNCHANGED <<flight, latched, sends, causes>>
    BY <1>2 DEF Open
  <2>. HIDE DEF d
  <2>. QED
    BY <1>1, <2>1, <2>2, <2>3, Puts DEF Unsigned
<1>3. CASE stored.refresh # NoToken
  <2>. DEFINE r == [m EXCEPT !.status = "loading", !.boot = "refresh"]
  <2>1. [m EXCEPT !.status = "loading"] \in Tab
    BY <1>1, Fields
  <2>2. r \in Tab
    BY <2>1, Fields
  <2>3. Has(r, "loading", m.user, m.access, "refresh", m.timer, m.waits, m.act, m.hold)
    BY <1>1, <2>2 DEF Has, Tab
  <2>4. RefreshTokens(t, r)
    BY <1>3 DEF Open
  <2>. HIDE DEF r
  <2>. QED
    BY <1>3, <2>2, <2>3, <2>4
<1>. QED
  BY <1>2, <1>3

LEMMA FireCalls ==
    ASSUME Base, NEW t \in Tabs, Fire(t)
    PROVE  \E r \in Tab :
             /\ RefreshTokens(t, r)
             /\ LET m == tab[t] IN
                Has(r, m.status, m.user, m.access, m.boot, FALSE, TRUE, m.act, m.hold)
<1>. DEFINE m == tab[t]
            r == [m EXCEPT !.timer = FALSE, !.waits = TRUE]
<1>1. m \in Tab
  BY DEF Base
<1>2. [m EXCEPT !.timer = FALSE] \in Tab
  BY <1>1, Fields
<1>3. r \in Tab
  BY <1>2, Fields
<1>4. Has(r, m.status, m.user, m.access, m.boot, FALSE, TRUE, m.act, m.hold)
  BY <1>1, <1>3 DEF Has, Tab
<1>5. RefreshTokens(t, r)
  BY DEF Fire
<1>. HIDE DEF r
<1>. QED
  BY <1>3, <1>4, <1>5

LEMMA CallCalls ==
    ASSUME Base, NEW t \in Tabs, Call(t)
    PROVE  \E r \in Tab :
             /\ RefreshTokens(t, r)
             /\ LET m == tab[t] IN
                Has(r, m.status, m.user, m.access, m.boot, m.timer, m.waits, "call", m.hold)
<1>. DEFINE m == tab[t]
            r == [m EXCEPT !.act = "call"]
<1>1. m \in Tab
  BY DEF Base
<1>3. r \in Tab
  BY <1>1, Fields
<1>4. Has(r, m.status, m.user, m.access, m.boot, m.timer, m.waits, "call", m.hold)
  BY <1>1, <1>3 DEF Has, Tab
<1>5. RefreshTokens(t, r)
  BY DEF Call
<1>. HIDE DEF r
<1>. QED
  BY <1>3, <1>4, <1>5

(* The server's answer to a request. *)
LEMMA RotateEffect ==
    ASSUME Base, NEW t \in Tabs, NEW f \in flight[t], Rotate(t, f), New(f.token[1]) \in Token
    PROVE  /\ f \in Flight /\ f.pc = "sent"
           /\ UNCHANGED <<stored, tab, signins, sends, faults, causes>>
           /\ \E g \in Flight :
                /\ flight' = [flight EXCEPT ![t] = {g}] /\ g.token = f.token
                /\ \/ /\ f.token \in live /\ g.pc = "ok" /\ g.got = New(f.token[1])
                      /\ live' = (live \ {f.token}) \cup {g.got}
                      /\ issued' = issued + 1 /\ alarm' = alarm
                   \/ /\ f.token \notin live /\ g.pc = "no" /\ g.got = f.got
                      /\ live' \subseteq live /\ issued' = issued /\ alarm'
<1>1. f \in Flight /\ flight[t] = {f}
  BY DEF Base
<1>2. f.pc = "sent" /\ UNCHANGED <<stored, tab, signins, sends, faults, causes>>
  BY DEF Rotate
<1>3. CASE f.token \in live
  <2>. DEFINE new == New(f.token[1])
              g == [f EXCEPT !.pc = "ok", !.got = new]
  <2>1. /\ live' = (live \ {f.token}) \cup {new} /\ issued' = issued + 1
        /\ flight' = [flight EXCEPT ![t] = (flight[t] \ {f}) \cup {g}] /\ alarm' = alarm
    BY <1>3 DEF Rotate
  <2>. HIDE DEF new
  <2>2. g \in Flight /\ g.token = f.token /\ g.pc = "ok" /\ g.got = new
    BY <1>1 DEF Flight, new
  <2>. HIDE DEF g
  <2>3. (flight[t] \ {f}) \cup {g} = {g}
    BY <1>1
  <2>. QED
    BY <1>1, <1>2, <1>3, <2>1, <2>2, <2>3 DEF new
<1>4. CASE f.token \notin live
  <2>. DEFINE g == [f EXCEPT !.pc = "no"]
  <2>1. /\ live' \subseteq live /\ issued' = issued
        /\ flight' = [flight EXCEPT ![t] = (flight[t] \ {f}) \cup {g}] /\ alarm' = TRUE
    BY <1>4 DEF Rotate
  <2>2. g \in Flight /\ g.token = f.token /\ g.pc = "no" /\ g.got = f.got
    BY <1>1 DEF Flight
  <2>. HIDE DEF g
  <2>3. (flight[t] \ {f}) \cup {g} = {g}
    BY <1>1
  <2>. QED
    BY <1>1, <1>2, <1>4, <2>1, <2>2, <2>3
<1>. QED
  BY <1>3, <1>4

LEMMA RefuseEffect ==
    ASSUME Base, NEW t \in Tabs, NEW f \in flight[t], Refuse(t, f)
    PROVE  /\ f \in Flight /\ f.pc = "sent"
           /\ causes' = causes \cup {"refused"} /\ faults < MaxFaults /\ faults' = faults + 1
           /\ UNCHANGED <<live, issued, stored, tab, signins, sends, alarm>>
           /\ \E g \in Flight :
                /\ flight' = [flight EXCEPT ![t] = {g}]
                /\ g.token = f.token /\ g.pc = "no" /\ g.got = f.got
<1>1. f \in Flight /\ flight[t] = {f}
  BY DEF Base
<1>. DEFINE g == [f EXCEPT !.pc = "no"]
<1>2. g \in Flight /\ g.token = f.token /\ g.pc = "no" /\ g.got = f.got
  BY <1>1 DEF Flight
<1>3. flight' = [flight EXCEPT ![t] = (flight[t] \ {f}) \cup {g}]
  BY DEF Refuse
<1>. HIDE DEF g
<1>4. (flight[t] \ {f}) \cup {g} = {g}
  BY <1>1
<1>. QED
  BY <1>1, <1>2, <1>3, <1>4 DEF Refuse, Fault, Blame

(* The client's: Paired says that a pair was granted. *)
LEMMA AnsweredEffect ==
    ASSUME Base, NEW t \in Tabs, NEW f \in flight[t], Answered(t, f),
           f.pc = "ok" => f.got \in Token
    PROVE  /\ f \in Flight /\ f.pc \in {"ok", "no"} /\ flight[t] = {f}
           /\ flight' = [flight EXCEPT ![t] = {}] /\ Alone(t)
           /\ causes' = causes \cup Overwritten(t, f) \cup Emptied
           /\ UNCHANGED <<live, issued, signins, sends, faults, alarm>>
           /\ \/ /\ f.pc = "ok" /\ stored' = [refresh |-> f.got, session |-> f.got]
                 /\ Ended(tab'[t], tab[t], f.got[1], "ok")
              \/ /\ f.pc = "no" /\ stored' = Empty
                 /\ Ended(tab'[t], tab[t], NoUser, "no")
<1>1. f \in Flight /\ flight[t] = {f} /\ tab[t] \in Tab
  BY DEF Base
<1>2. f.pc \in {"ok", "no"}
  BY <1>1 DEF Answered, Flight
<1>3. flight' = [flight EXCEPT ![t] = {}]
  <2>1. flight' = [flight EXCEPT ![t] = flight[t] \ {f}]
    BY DEF Answered
  <2>. QED
    BY <1>1, <2>1
<1>4. causes' = causes \cup Overwritten(t, f) \cup Emptied
      /\ UNCHANGED <<live, issued, signins, sends, faults, alarm>>
  BY DEF Answered
<1>5. CASE f.pc = "ok"
  <2>1. f.got[1] \in Users
    BY <1>5 DEF Token
  <2>2. Ended(After([tab[t] EXCEPT !.access = f.got[1]], "ok"), tab[t], f.got[1], "ok")
    BY <1>1, <2>1, AccessEffect
  <2>3. tab' = [tab EXCEPT ![t] = After([tab[t] EXCEPT !.access = f.got[1]], "ok")]
        /\ stored' = [refresh |-> f.got, session |-> f.got]
    BY <1>5 DEF Answered
  <2>4. After([tab[t] EXCEPT !.access = f.got[1]], "ok") \in Tab
    BY <2>2 DEF Ended, Has
  <2>. QED
    BY <1>1, <1>2, <1>3, <1>4, <1>5, <2>2, <2>3, <2>4, Puts
<1>6. CASE f.pc = "no"
  <2>2. Ended(After([tab[t] EXCEPT !.access = NoUser], "no"), tab[t], NoUser, "no")
    BY <1>1, AccessEffect
  <2>3. tab' = [tab EXCEPT ![t] = After([tab[t] EXCEPT !.access = NoUser], "no")]
        /\ stored' = Empty
    BY <1>6 DEF Answered
  <2>4. After([tab[t] EXCEPT !.access = NoUser], "no") \in Tab
    BY <2>2 DEF Ended, Has
  <2>. QED
    BY <1>1, <1>2, <1>3, <1>4, <1>6, <2>2, <2>3, <2>4, Puts
<1>. QED
  BY <1>2, <1>5, <1>6

LEMMA LostEffect ==
    ASSUME Base, NEW t \in Tabs, NEW f \in flight[t], Lost(t, f)
    PROVE  /\ flight[t] = {f} /\ flight' = [flight EXCEPT ![t] = {}] /\ Alone(t)
           /\ causes' = causes \cup {"lost"} /\ faults < MaxFaults /\ faults' = faults + 1
           /\ UNCHANGED <<live, issued, signins, sends, alarm>>
           /\ stored' \in {stored, Empty}
           /\ \E x \in Users \cup {NoUser} :
                /\ Ended(tab'[t], tab[t], x, "error")
                /\ x = tab[t].access \/ (tab[t].boot = "refresh" /\ x = NoUser)
                /\ tab[t].boot = "refresh" => stored' = Empty
<1>1. flight[t] = {f} /\ tab[t] \in Tab
  BY DEF Base
<1>2. flight' = [flight EXCEPT ![t] = {}]
  <2>1. flight' = [flight EXCEPT ![t] = flight[t] \ {f}]
    BY DEF Lost
  <2>. QED
    BY <1>1, <2>1
<1>3. /\ causes' = causes \cup {"lost"} /\ faults < MaxFaults /\ faults' = faults + 1
      /\ UNCHANGED <<live, issued, signins, sends, alarm>>
  BY DEF Lost, Fault, Blame
<1>4. CASE tab[t].boot = "refresh"
  <2>1. Ended(After([tab[t] EXCEPT !.access = NoUser], "error"), tab[t], NoUser, "error")
    BY <1>1, AccessEffect
  <2>2. stored' = Empty /\ tab' = [tab EXCEPT ![t] = After([tab[t] EXCEPT !.access = NoUser], "error")]
    BY <1>4 DEF Lost
  <2>3. After([tab[t] EXCEPT !.access = NoUser], "error") \in Tab
    BY <2>1 DEF Ended, Has
  <2>4. Alone(t) /\ Ended(tab'[t], tab[t], NoUser, "error")
    BY <2>1, <2>2, <2>3, Puts
  <2>. QED
    BY <1>1, <1>2, <1>3, <1>4, <2>2, <2>4
<1>5. CASE tab[t].boot # "refresh"
  <2>1. Ended(After(tab[t], "error"), tab[t], tab[t].access, "error") /\ After(tab[t], "error") \in Tab
    BY <1>1, AfterEffect DEF Ended, Has
  <2>2. stored' = stored /\ tab' = [tab EXCEPT ![t] = After(tab[t], "error")]
    BY <1>5 DEF Lost
  <2>3. PICK x \in Users \cup {NoUser} : x = tab[t].access
    BY <1>1 DEF Tab
  <2>4. Alone(t) /\ Ended(tab'[t], tab[t], x, "error")
    BY <2>1, <2>2, <2>3, Puts
  <2>. QED
    BY <1>1, <1>2, <1>3, <1>5, <2>2, <2>3, <2>4
<1>. QED
  BY <1>4, <1>5

-----------------------------------------------------------------------------
(* Tokens.  A pair was granted to a request, and is nowhere else until its   *)
(* answer is taken; a token is held by a logout only; and the server has not *)
(* given out more tokens than it was asked for.                              *)
Paired ==
    \A t \in Tabs : \A f \in flight[t] :
        IF f.pc = "ok" THEN f.got \in Token /\ f.got[1] = f.token[1] ELSE f.got = NoToken

Held == \A t \in Tabs : tab[t].act \notin {"logout", "revoked"} => tab[t].hold = NoToken

Old(x) == x = NoToken \/ x[2] <= issued

Aged ==
    /\ \A x \in live : Old(x)
    /\ Old(stored.refresh)
    /\ \A t \in Tabs : Old(tab[t].hold) /\ \A f \in flight[t] : Old(f.token) /\ Old(f.got)

Unseen(t, x) ==
    /\ x # stored.refresh
    /\ \A s \in Tabs :
         /\ tab[s].hold # x
         /\ \A g \in flight[s] : g.token # x /\ (s # t => g.got # x)

Unique == \A t \in Tabs : \A f \in flight[t] : f.pc = "ok" => Unseen(t, f.got)

Sent    == {t \in Tabs : \E f \in flight[t] : f.pc = "sent"}
Signing == {t \in Tabs : tab[t].act \in {"signin", "signup"}}

Budget ==
    /\ IsFiniteSet(Sent) /\ IsFiniteSet(Signing)
    /\ issued + Cardinality(Sent) + Cardinality(Signing) <= sends + signins

Tokens == Base /\ Paired /\ Held /\ Aged /\ Unique /\ Budget

LEMMA InitTokens == Init => Tokens
<1> SUFFICES ASSUME Init PROVE Tokens
  OBVIOUS
<1>1. Closed \in Tab /\ Closed.act = "none" /\ Closed.hold = NoToken
  BY DEF Closed, Tab
<1>2. Empty \in Stored /\ Empty.refresh = NoToken
  BY DEF Empty, Stored
<1>3. /\ tab \in [Tabs -> Tab] /\ \A t \in Tabs : tab[t] = Closed
      /\ flight \in [Tabs -> SUBSET Flight] /\ \A t \in Tabs : flight[t] = {}
  BY <1>1 DEF Init
<1>4. Base
  <2>1. /\ issued \in 0..(MaxSends + MaxEvents)
        /\ signins \in 0..MaxEvents /\ sends \in 0..MaxSends /\ faults \in 0..MaxFaults
    BY ClientAuthAssumption DEF Init
  <2>2. live \subseteq Token /\ causes \subseteq Causes
    BY DEF Init
  <2>3. stored \in Stored /\ alarm \in BOOLEAN
    BY <1>2 DEF Init
  <2>4. \A t \in Tabs : \A f, g \in flight[t] : f = g
    BY <1>3
  <2>. QED
    BY <1>3, <2>1, <2>2, <2>3, <2>4 DEF Base
<1>5. Paired /\ Held /\ Aged /\ Unique
  BY <1>1, <1>2, <1>3 DEF Init, Paired, Held, Aged, Unique, Old
<1>6. Sent = {} /\ Signing = {}
  BY <1>1, <1>3 DEF Sent, Signing
<1>7. Budget
  BY <1>6, FS_EmptySet DEF Init, Budget
<1>. QED
  BY <1>4, <1>5, <1>7 DEF Tokens

LEMMA Tally ==
    ASSUME NEW S, NEW T, NEW x, IsFiniteSet(S), T \subseteq S \cup {x}
    PROVE  /\ IsFiniteSet(T) /\ Cardinality(T) \in Nat /\ Cardinality(S) \in Nat
           /\ Cardinality(T) <= Cardinality(S) + 1
           /\ T \subseteq S => Cardinality(T) <= Cardinality(S)
           /\ T \subseteq S /\ x \in S \ T => Cardinality(T) <= Cardinality(S) - 1
           /\ x \in S => Cardinality(S) >= 1
<1>1. /\ IsFiniteSet(S \cup {x}) /\ Cardinality(S) \in Nat
      /\ Cardinality(S \cup {x}) \in {Cardinality(S), Cardinality(S) + 1}
  BY FS_AddElement, FS_CardinalityType
<1>2. T \in SUBSET (S \cup {x})
  OBVIOUS
<1>3. /\ IsFiniteSet(T) /\ Cardinality(T) \in Nat
      /\ Cardinality(T) <= Cardinality(S \cup {x})
  BY <1>1, <1>2, FS_Subset, FS_CardinalityType
<1>4. ASSUME T \subseteq S PROVE Cardinality(T) <= Cardinality(S)
  BY <1>4, FS_Subset
<1>5. ASSUME T \subseteq S, x \in S \ T PROVE Cardinality(T) <= Cardinality(S) - 1
  <2>1. T \in SUBSET (S \ {x})
    BY <1>5
  <2>2. IsFiniteSet(S \ {x}) /\ Cardinality(S \ {x}) = Cardinality(S) - 1
    BY <1>5, FS_RemoveElement
  <2>. QED
    BY <2>1, <2>2, FS_Subset
<1>6. x \in S => Cardinality(S) # 0
  BY FS_EmptySet
<1>. QED
  BY <1>1, <1>3, <1>4, <1>5, <1>6

(* The token of a pair that is granted is nowhere yet. *)
LEMMA Novel ==
    ASSUME Tokens, NEW t \in Tabs, t \in Sent \cup Signing, NEW u \in Users
    PROVE  /\ New(u) \in Token /\ New(u)[1] = u /\ New(u)[2] = issued + 1
           /\ issued + 1 \in 0..(MaxSends + MaxEvents)
           /\ New(u) \notin live /\ New(u) # stored.refresh /\ New(u) # NoToken
           /\ \A s \in Tabs : /\ tab[s].hold # New(u)
                              /\ \A g \in flight[s] : g.token # New(u) /\ g.got # New(u)
<1>1. /\ IsFiniteSet(Sent) /\ IsFiniteSet(Signing)
      /\ issued + Cardinality(Sent) + Cardinality(Signing) <= sends + signins
      /\ issued \in Nat /\ signins \in 0..MaxEvents /\ sends \in 0..MaxSends
  BY ClientAuthAssumption DEF Tokens, Base, Budget
<1>2. /\ Cardinality(Sent) \in Nat /\ Cardinality(Signing) \in Nat
      /\ Cardinality(Sent) + Cardinality(Signing) >= 1
  <2>1. \A S : IsFiniteSet(S) => Cardinality(S) \in Nat /\ (t \in S => Cardinality(S) >= 1)
    <3>1. \A S : S \subseteq S \cup {t}
      OBVIOUS
    <3>. QED
      BY <3>1, Tally
  <2>. QED
    BY <1>1, <2>1
<1>3. issued + 1 \in 1..(MaxSends + MaxEvents)
  BY <1>1, <1>2, ClientAuthAssumption
<1>4. New(u) \in Token /\ New(u)[1] = u /\ New(u)[2] = issued + 1
  BY <1>3 DEF New, Token
<1>5. ~Old(New(u))
  BY <1>1, <1>4, ClientAuthAssumption DEF Old, Token
<1>. QED
  BY <1>3, <1>4, <1>5 DEF Tokens, Aged, Old

(* A step that creates no pair for a request and takes none. *)
LEMMA Passes ==
    ASSUME Tokens, issued' \in {issued, issued + 1},
           \A x \in live' : x \in live \/ x[2] <= issued',
           stored'.refresh \in {stored.refresh, NoToken},
           \A s \in Tabs : tab'[s].hold \in {tab[s].hold, NoToken, stored.refresh},
           \A s \in Tabs : \A g \in flight'[s] :
               \/ g \in flight[s]
               \/ /\ g.pc # "ok" /\ g.got = NoToken
                  /\ g.token = stored.refresh \/ \E f \in flight[s] : g.token = f.token
    PROVE  Paired' /\ Aged' /\ Unique'
<1>1. Paired'
  BY DEF Tokens, Paired
<1>2. Aged'
  <2>0. issued \in Nat /\ issued <= issued'
    BY DEF Tokens, Base
  <2>1. \A x \in Token \cup {NoToken} : Old(x) => (x = NoToken \/ x[2] <= issued')
    BY <2>0 DEF Old, Token
  <2>2. /\ live \subseteq Token /\ stored.refresh \in Token \cup {NoToken}
        /\ \A s \in Tabs : tab[s].hold \in Token \cup {NoToken}
        /\ \A s \in Tabs : \A f \in flight[s] : f.token \in Token /\ f.got \in Token \cup {NoToken}
    BY DEF Tokens, Base, Stored, Tab, Flight
  <2>3. \A x \in live' : x = NoToken \/ x[2] <= issued'
    BY <2>1, <2>2 DEF Tokens, Aged
  <2>4. stored'.refresh = NoToken \/ stored'.refresh[2] <= issued'
    BY <2>1, <2>2 DEF Tokens, Aged
  <2>5. \A s \in Tabs : tab'[s].hold = NoToken \/ tab'[s].hold[2] <= issued'
    BY <2>1, <2>2 DEF Tokens, Aged
  <2>6. \A s \in Tabs : \A g \in flight'[s] :
          /\ g.token = NoToken \/ g.token[2] <= issued'
          /\ g.got = NoToken \/ g.got[2] <= issued'
    BY <2>1, <2>2 DEF Tokens, Aged
  <2>. QED
    BY <2>3, <2>4, <2>5, <2>6 DEF Aged, Old
<1>3. Unique'
  <2> SUFFICES ASSUME NEW t \in Tabs, NEW f \in flight'[t], f.pc = "ok"
               PROVE  Unseen(t, f.got)'
    BY DEF Unique
  <2>1. f \in flight[t] /\ Unseen(t, f.got) /\ f.got # NoToken
    BY ClientAuthAssumption DEF Tokens, Unique, Paired, Token
  <2>. QED
    BY <2>1 DEF Unseen
<1>. QED
  BY <1>1, <1>2, <1>3

(* Steps that neither ask for a pair nor receive one. *)
LEMMA StillTokens ==
    ASSUME Tokens, UNCHANGED <<flight, issued, sends, signins, alarm>>, live' \subseteq live,
           stored' \in {stored, Empty}, faults' \in 0..MaxFaults, causes' \subseteq Causes,
           tab' \in [Tabs -> Tab],
           \A s \in Tabs :
               /\ tab'[s].hold \in {tab[s].hold, NoToken, stored.refresh}
               /\ tab'[s].act \notin {"logout", "revoked"} => tab'[s].hold = NoToken
               /\ tab'[s].act \in {"signin", "signup"} => tab[s].act = tab'[s].act
    PROVE  Tokens'
<1>1. Empty \in Stored /\ Empty.refresh = NoToken
  BY DEF Empty, Stored
<1>2. Base'
  BY <1>1 DEF Tokens, Base
<1>3. Paired' /\ Aged' /\ Unique'
  BY <1>1, Passes
<1>4. Held'
  BY DEF Held
<1>5. Sent' = Sent /\ Signing' \subseteq Signing
  BY DEF Sent, Signing
<1>6. Signing' \in SUBSET Signing
  BY <1>5
<1>7. IsFiniteSet(Signing) /\ IsFiniteSet(Sent)
  BY DEF Tokens, Budget
<1>8. /\ IsFiniteSet(Signing') /\ Cardinality(Signing') <= Cardinality(Signing)
      /\ Cardinality(Signing) \in Nat /\ Cardinality(Signing') \in Nat /\ Cardinality(Sent) \in Nat
  BY <1>6, <1>7, FS_Subset, FS_CardinalityType
<1>9. issued \in Nat /\ sends \in Nat /\ signins \in Nat
  BY DEF Tokens, Base
<1>10. Budget'
  BY <1>5, <1>7, <1>8, <1>9 DEF Tokens, Budget
<1>. QED
  BY <1>2, <1>3, <1>4, <1>10 DEF Tokens

LEMMA QuietTokens ==
    ASSUME Tokens, NEW t \in Tabs,
           \/ BootMe(t) \/ BootFails(t) \/ Me(t) \/ Logout(t) \/ Revoke(t) \/ Teardown(t)
           \/ SignOutEverywhere(t)
    PROVE  Tokens'
<1>a. Base /\ tab[t] \in Tab /\ faults \in 0..MaxFaults /\ causes \subseteq Causes
  BY DEF Tokens, Base
<1>b. /\ UNCHANGED <<flight, issued, sends, signins, alarm>> /\ live' \subseteq live
      /\ stored' \in {stored, Empty}
  BY DEF BootMe, BootFails, Me, Logout, Revoke, Teardown, SignOutEverywhere
<1>c. faults' \in 0..MaxFaults /\ causes' \subseteq Causes
  BY <1>a, ClientAuthAssumption
     DEF BootMe, BootFails, Me, Logout, Revoke, Teardown, SignOutEverywhere, Fault, Blame, Emptied,
         Causes
<1>d. tab[t].act \notin {"logout", "revoked"} => tab[t].hold = NoToken
  BY DEF Tokens, Held
<1>1. /\ Alone(t)
      /\ tab'[t].hold \in {tab[t].hold, NoToken, stored.refresh}
      /\ tab'[t].act \notin {"logout", "revoked"} => tab'[t].hold = NoToken
      /\ tab'[t].act \in {"signin", "signup"} => tab[t].act = tab'[t].act
  <2>1. CASE BootMe(t)
    BY <1>a, <1>d, <2>1, BootMeEffect DEF Has
  <2>2. CASE BootFails(t)
    BY <1>a, <1>d, <2>2, BootFailsEffect DEF Has
  <2>3. CASE Me(t)
    BY <1>a, <1>d, <2>3, MeEffect DEF Has, Me, Act
  <2>4. CASE Logout(t)
    BY <1>a, <1>d, <2>4, LogoutEffect DEF Has
  <2>5. CASE Revoke(t)
    <3>1. tab' = [tab EXCEPT ![t].act = "revoked"]
      BY <2>5 DEF Revoke
    <3>. QED
      BY <1>a, <1>d, <3>1, ActPut DEF Has
  <2>6. CASE Teardown(t)
    BY <1>a, <1>d, <2>6, TeardownEffect DEF Has
  <2>7. CASE SignOutEverywhere(t)
    <3>1. tab' = [tab EXCEPT ![t].act = "leaving"] /\ tab[t].act = "none"
      BY <2>7 DEF SignOutEverywhere, Act
    <3>. QED
      BY <1>a, <1>d, <3>1, ActPut DEF Has
  <2>. QED
    BY <2>1, <2>2, <2>3, <2>4, <2>5, <2>6, <2>7
<1>2. /\ tab' \in [Tabs -> Tab]
      /\ \A s \in Tabs :
           /\ tab'[s].hold \in {tab[s].hold, NoToken, stored.refresh}
           /\ tab'[s].act \notin {"logout", "revoked"} => tab'[s].hold = NoToken
           /\ tab'[s].act \in {"signin", "signup"} => tab[s].act = tab'[s].act
  BY <1>1 DEF Alone, Tokens, Held
<1>. QED
  BY <1>b, <1>c, <1>2, StillTokens

LEMMA RevokedTokens ==
    ASSUME Tokens,
           \/ Elsewhere
           \/ \E t \in Tabs : ResetPassword(t) \/ \E x \in live : RevokeSession(t, x)
    PROVE  Tokens'
<1>a. tab \in [Tabs -> Tab] /\ faults \in 0..MaxFaults /\ causes \subseteq Causes
  BY DEF Tokens, Base
<1>b. UNCHANGED <<flight, issued, sends, signins, alarm, stored, tab>> /\ live' \subseteq live
  BY DEF Elsewhere, ResetPassword, RevokeSession
<1>c. faults' \in 0..MaxFaults /\ causes' \subseteq Causes
  <2>1. faults < MaxFaults /\ faults' = faults + 1 /\ causes' = causes \cup {"revoked"}
    BY DEF Elsewhere, ResetPassword, RevokeSession, Fault, Blame
  <2>2. causes' \subseteq Causes
    BY <1>a, <2>1 DEF Causes
  <2>. QED
    BY <1>a, <2>1, <2>2, ClientAuthAssumption
<1>d. \A s \in Tabs : tab[s].act \notin {"logout", "revoked"} => tab[s].hold = NoToken
  BY DEF Tokens, Held
<1>. QED
  BY <1>a, <1>b, <1>c, <1>d, StillTokens

LEMMA FormTokens ==
    ASSUME Tokens, NEW t \in Tabs, SignIn(t) \/ Verify(t) \/ SignUp(t)
    PROVE  Tokens'
<1>a. Base /\ tab[t].act = "none" /\ tab[t].hold = NoToken
  BY DEF Tokens, Held, SignIn, Verify, SignUp, Act
<1>b. /\ UNCHANGED <<live, issued, stored, flight, sends, faults, alarm>>
      /\ signins + faults < MaxEvents /\ signins' = signins + 1
      /\ causes' \subseteq causes \cup {"crossed"}
  BY DEF SignIn, Verify, SignUp, Room, Crossed
<1>1. /\ Alone(t)
      /\ tab'[t].act \in {"none", "signin", "signup"} /\ tab'[t].hold = NoToken
  BY <1>a, FormEffect DEF Has
<1>2. Base'
  <2>1. signins' \in 0..MaxEvents /\ causes' \subseteq Causes
    BY <1>a, <1>b, ClientAuthAssumption DEF Base, Causes
  <2>. QED
    BY <1>a, <1>b, <1>1, <2>1 DEF Base, Alone
<1>3. Paired' /\ Aged' /\ Unique'
  BY <1>a, <1>b, <1>1, Passes DEF Alone
<1>4. Held'
  BY <1>1 DEF Held, Alone, Tokens
<1>5. Sent' = Sent /\ Signing' \subseteq Signing \cup {t}
  BY <1>b, <1>1 DEF Sent, Signing, Alone
<1>6. IsFiniteSet(Signing) /\ IsFiniteSet(Sent)
  BY DEF Tokens, Budget
<1>7. /\ IsFiniteSet(Signing') /\ Cardinality(Signing') <= Cardinality(Signing) + 1
      /\ Cardinality(Signing) \in Nat /\ Cardinality(Signing') \in Nat /\ Cardinality(Sent) \in Nat
  BY <1>5, <1>6, Tally, FS_CardinalityType
<1>8. issued \in Nat /\ sends \in Nat /\ signins \in Nat
  BY DEF Tokens, Base
<1>9. Budget'
  BY <1>b, <1>5, <1>6, <1>7, <1>8 DEF Tokens, Budget
<1>. QED
  BY <1>2, <1>3, <1>4, <1>9 DEF Tokens

LEMMA AccountType == Account \subseteq Users
BY ClientAuthAssumption DEF Account

LEMMA AdoptTokens == ASSUME Tokens, NEW t \in Tabs, Adopt(t) PROVE Tokens'
<1>a. Base /\ tab[t].act \in {"signin", "signup"} /\ tab[t].hold = NoToken /\ t \in Signing
  BY DEF Tokens, Held, Adopt, Signing
<1>b. PICK u \in Users :
        /\ live' = live \cup {New(u)} /\ issued' = issued + 1
        /\ stored' = [refresh |-> New(u), session |-> IF Act(t, "signin") THEN New(u) ELSE NoToken]
        /\ causes' \subseteq causes \cup {"replaced", "switched"}
        /\ tab' = [tab EXCEPT ![t] = [@ EXCEPT !.act = "me", !.access = u]]
  BY AccountType DEF Adopt
<1>c. UNCHANGED <<flight, signins, sends, faults, alarm>>
  BY DEF Adopt
<1>. DEFINE x == New(u)
<1>d. /\ x \in Token /\ x[1] = u /\ x[2] = issued + 1 /\ issued + 1 \in 0..(MaxSends + MaxEvents)
      /\ \A s \in Tabs : \A g \in flight[s] : g.token # x /\ g.got # x
  BY <1>a, Novel
<1>. HIDE DEF x
<1>1. Alone(t) /\ tab'[t].act = "me" /\ tab'[t].hold = NoToken
  BY <1>a, <1>b, AdoptPut DEF Has
<1>2. stored' \in Stored /\ stored'.refresh = x
  BY <1>b, <1>d DEF Stored, x
<1>3. Base'
  <2>1. causes' \subseteq Causes
    BY <1>a, <1>b DEF Base, Causes
  <2>. QED
    BY <1>a, <1>b, <1>c, <1>d, <1>1, <1>2, <2>1 DEF Base, Alone, x
<1>4. Paired' /\ Held'
  BY <1>c, <1>1 DEF Tokens, Paired, Held, Alone
<1>5. Aged'
  <2>1. \A y \in Token \cup {NoToken} : Old(y) => y = NoToken \/ y[2] <= issued + 1
    BY <1>a DEF Old, Token, Base
  <2>2. /\ live \subseteq Token
        /\ \A s \in Tabs : tab[s].hold \in Token \cup {NoToken}
        /\ \A s \in Tabs : \A f \in flight[s] : f.token \in Token /\ f.got \in Token \cup {NoToken}
    BY <1>a DEF Base, Tab, Flight
  <2>3. \A y \in live' : y = NoToken \/ y[2] <= issued + 1
    BY <1>b, <1>d, <2>1, <2>2 DEF Tokens, Aged, x
  <2>4. \A s \in Tabs : tab'[s].hold = NoToken \/ tab'[s].hold[2] <= issued + 1
    BY <1>1, <2>1, <2>2 DEF Tokens, Aged, Alone
  <2>5. \A s \in Tabs : \A g \in flight[s] :
          /\ g.token = NoToken \/ g.token[2] <= issued + 1
          /\ g.got = NoToken \/ g.got[2] <= issued + 1
    BY <2>1, <2>2 DEF Tokens, Aged
  <2>. QED
    BY <1>b, <1>c, <1>d, <1>2, <2>3, <2>4, <2>5 DEF Aged, Old
<1>6. Unique'
  <2> SUFFICES ASSUME NEW s \in Tabs, NEW f \in flight'[s], f.pc = "ok"
               PROVE  Unseen(s, f.got)'
    BY DEF Unique
  <2>1. Unseen(s, f.got) /\ f.got # x /\ f.got # NoToken
    BY <1>c, <1>d, ClientAuthAssumption DEF Tokens, Unique, Paired, Token
  <2>. QED
    BY <1>c, <1>1, <1>2, <2>1 DEF Unseen, Alone
<1>7. Sent' = Sent /\ Signing' \subseteq Signing /\ t \in Signing \ Signing'
  BY <1>a, <1>c, <1>1 DEF Sent, Signing, Alone
<1>8. IsFiniteSet(Signing) /\ IsFiniteSet(Sent)
  BY DEF Tokens, Budget
<1>9. /\ IsFiniteSet(Signing') /\ Cardinality(Signing') <= Cardinality(Signing) - 1
      /\ Cardinality(Signing) \in Nat /\ Cardinality(Signing') \in Nat /\ Cardinality(Sent) \in Nat
  <2>1. Signing' \subseteq Signing \cup {t}
    BY <1>7
  <2>. QED
    BY <1>7, <1>8, <2>1, Tally, FS_CardinalityType
<1>10. issued \in Nat /\ sends \in Nat /\ signins \in Nat
  BY DEF Tokens, Base
<1>11. Budget'
  BY <1>b, <1>c, <1>7, <1>8, <1>9, <1>10 DEF Tokens, Budget
<1>. QED
  BY <1>3, <1>4, <1>5, <1>6, <1>11 DEF Tokens

LEMMA SignInFailsTokens == ASSUME Tokens, NEW t \in Tabs, SignInFails(t) PROVE Tokens'
<1>a. Base /\ tab[t].act \in {"signin", "signup", "me"} /\ tab[t].hold = NoToken
  BY DEF Tokens, Held, SignInFails, SigningIn
<1>b. /\ UNCHANGED <<stored, flight, signins, sends, alarm>>
      /\ faults < MaxFaults /\ faults' = faults + 1
      /\ causes' \subseteq causes \cup {"halfway", "lost"}
      /\ tab' = [tab EXCEPT ![t].act = "none"]
  BY DEF SignInFails, Fault, Blame
<1>1. Alone(t) /\ tab'[t].act = "none" /\ tab'[t].hold = NoToken
  BY <1>a, <1>b, ActPut DEF Has
<1>2. CASE UNCHANGED <<live, issued>>
  <2>1. faults' \in 0..MaxFaults /\ causes' \subseteq Causes
    BY <1>a, <1>b, ClientAuthAssumption DEF Base, Causes
  <2>2. /\ tab' \in [Tabs -> Tab]
        /\ \A s \in Tabs :
             /\ tab'[s].hold \in {tab[s].hold, NoToken, stored.refresh}
             /\ tab'[s].act \notin {"logout", "revoked"} => tab'[s].hold = NoToken
             /\ tab'[s].act \in {"signin", "signup"} => tab[s].act = tab'[s].act
    BY <1>1 DEF Alone, Tokens, Held
  <2>. QED
    BY <1>b, <1>2, <2>1, <2>2, StillTokens
<1>3. ASSUME NEW u \in Users, tab[t].act # "me", issued' = issued + 1, live' = live \cup {New(u)}
      PROVE  Tokens'
  <2>1. t \in Signing
    BY <1>a, <1>3 DEF Signing
  <2>2. New(u) \in Token /\ New(u)[2] = issued + 1 /\ issued + 1 \in 0..(MaxSends + MaxEvents)
    BY <2>1, Novel
  <2>3. Base'
    <3>1. faults' \in 0..MaxFaults /\ causes' \subseteq Causes
      BY <1>a, <1>b, ClientAuthAssumption DEF Base, Causes
    <3>. QED
      BY <1>a, <1>b, <1>1, <1>3, <2>2, <3>1 DEF Base, Alone
  <2>4. Paired' /\ Aged' /\ Unique'
    <3>1. \A x \in live' : x \in live \/ x[2] <= issued'
      BY <1>3, <2>2
    <3>. QED
      BY <1>a, <1>b, <1>1, <1>3, <3>1, Passes DEF Alone
  <2>5. Held'
    BY <1>1 DEF Held, Alone, Tokens
  <2>6. Sent' = Sent /\ Signing' \subseteq Signing /\ t \in Signing \ Signing'
    BY <1>b, <1>1, <2>1 DEF Sent, Signing, Alone
  <2>7. IsFiniteSet(Signing) /\ IsFiniteSet(Sent)
    BY DEF Tokens, Budget
  <2>8. /\ IsFiniteSet(Signing') /\ Cardinality(Signing') <= Cardinality(Signing) - 1
        /\ Cardinality(Signing) \in Nat /\ Cardinality(Signing') \in Nat /\ Cardinality(Sent) \in Nat
    <3>1. Signing' \subseteq Signing \cup {t}
      BY <2>6
    <3>. QED
      BY <2>6, <2>7, <3>1, Tally, FS_CardinalityType
  <2>9. issued \in Nat /\ sends \in Nat /\ signins \in Nat
    BY DEF Tokens, Base
  <2>10. Budget'
    BY <1>b, <1>3, <2>6, <2>7, <2>8, <2>9 DEF Tokens, Budget
  <2>. QED
    BY <2>3, <2>4, <2>5, <2>10 DEF Tokens
<1>. QED
  BY <1>2, <1>3, AccountType DEF SignInFails, Act

(* Steps after which a tab has no request: answered, lost or closed with it. *)
LEMMA LessTokens ==
    ASSUME Tokens, NEW t \in Tabs, Alone(t), flight' = [flight EXCEPT ![t] = {}],
           UNCHANGED <<live, issued, signins, sends, alarm>>,
           faults' \in 0..MaxFaults, causes' \subseteq Causes, stored' \in Stored,
           tab'[t].hold \in {tab[t].hold, NoToken},
           tab'[t].act \notin {"logout", "revoked"} => tab'[t].hold = NoToken,
           tab'[t].act \in {"signin", "signup"} => tab[t].act = tab'[t].act,
           \/ stored'.refresh \in {stored.refresh, NoToken}
           \/ \E f \in flight[t] : f.pc = "ok" /\ stored'.refresh = f.got
    PROVE  Tokens'
<1>a. Base
  BY DEF Tokens
<1>b. /\ flight' \in [Tabs -> SUBSET Flight] /\ \A s \in Tabs : \A f, g \in flight'[s] : f = g
      /\ flight'[t] = {} /\ \A s \in Tabs \ {t} : flight'[s] = flight[s]
  BY <1>a, NoneFlies DEF Flies
<1>1. Base'
  BY <1>a, <1>b DEF Base, Alone
<1>2. Held'
  BY DEF Tokens, Held, Alone
<1>3. Paired' /\ Aged' /\ Unique'
  <2>1. CASE stored'.refresh \in {stored.refresh, NoToken}
    <3>1. \A s \in Tabs : tab'[s].hold \in {tab[s].hold, NoToken, stored.refresh}
      BY DEF Alone
    <3>2. \A s \in Tabs : \A g \in flight'[s] : g \in flight[s]
      BY <1>b
    <3>. QED
      BY <2>1, <3>1, <3>2, Passes
  <2>2. ASSUME NEW f \in flight[t], f.pc = "ok", stored'.refresh = f.got
        PROVE  Paired' /\ Aged' /\ Unique'
    <3>1. Paired'
      BY <1>b DEF Tokens, Paired
    <3>2. Aged'
      BY <1>b, <2>2 DEF Tokens, Aged, Old, Alone
    <3>3. Unique'
      <4> SUFFICES ASSUME NEW s \in Tabs, NEW g \in flight'[s], g.pc = "ok"
                   PROVE  Unseen(s, g.got)'
        BY DEF Unique
      <4>1. s # t /\ g \in flight[s] /\ Unseen(s, g.got) /\ g.got # NoToken
        BY <1>b, ClientAuthAssumption DEF Tokens, Unique, Paired, Token
      <4>2. f.got # g.got
        BY <4>1 DEF Unseen
      <4>. QED
        BY <1>b, <2>2, <4>1, <4>2 DEF Unseen, Alone
    <3>. QED
      BY <3>1, <3>2, <3>3
  <2>. QED
    BY <2>1, <2>2
<1>4. Sent' \in SUBSET Sent /\ Signing' \in SUBSET Signing
  BY <1>b DEF Sent, Signing, Alone
<1>5. IsFiniteSet(Signing) /\ IsFiniteSet(Sent)
  BY DEF Tokens, Budget
<1>6. /\ IsFiniteSet(Signing') /\ Cardinality(Signing') <= Cardinality(Signing)
      /\ IsFiniteSet(Sent') /\ Cardinality(Sent') <= Cardinality(Sent)
      /\ Cardinality(Signing) \in Nat /\ Cardinality(Signing') \in Nat
      /\ Cardinality(Sent) \in Nat /\ Cardinality(Sent') \in Nat
  BY <1>4, <1>5, FS_Subset, FS_CardinalityType
<1>7. issued \in Nat /\ sends \in Nat /\ signins \in Nat
  BY DEF Tokens, Base
<1>8. Budget'
  BY <1>6, <1>7 DEF Tokens, Budget
<1>. QED
  BY <1>1, <1>2, <1>3, <1>8 DEF Tokens

LEMMA EndTokens ==
    ASSUME Tokens, NEW t \in Tabs,
           Close(t) \/ \E f \in flight[t] : Answered(t, f) \/ Lost(t, f)
    PROVE  Tokens'
<1>a. Base /\ Empty \in Stored /\ Empty.refresh = NoToken
  BY DEF Tokens, Empty, Stored
<1>b. tab[t].act \notin {"logout", "revoked"} => tab[t].hold = NoToken
  BY DEF Tokens, Held
<1>1. CASE Close(t)
  <2>1. Alone(t) /\ tab'[t].act = "none" /\ tab'[t].hold = NoToken
    BY <1>1, <1>a, CloseEffect DEF Has
  <2>2. /\ UNCHANGED <<live, issued, signins, sends, alarm, stored>>
        /\ flight' = [flight EXCEPT ![t] = {}]
        /\ faults < MaxFaults /\ faults' = faults + 1 /\ causes' \subseteq causes \cup {"closed"}
    BY <1>1 DEF Close, Fault, Blame
  <2>3. faults' \in 0..MaxFaults /\ causes' \subseteq Causes /\ stored' \in Stored
    BY <1>a, <2>2, ClientAuthAssumption DEF Base, Causes
  <2>. QED
    BY <2>1, <2>2, <2>3, LessTokens
<1>2. ASSUME NEW f \in flight[t], Answered(t, f) PROVE Tokens'
  <2>0. f.pc = "ok" => f.got \in Token
    BY DEF Tokens, Paired
  <2>1. /\ flight' = [flight EXCEPT ![t] = {}] /\ Alone(t)
        /\ causes' \subseteq causes \cup {"tabs", "crossed", "switched", "emptied"}
        /\ UNCHANGED <<live, issued, signins, sends, faults, alarm>>
        /\ tab'[t].hold = tab[t].hold
        /\ tab'[t].act = IF tab[t].act = "call" THEN "none" ELSE tab[t].act
        /\ \/ f.pc = "ok" /\ stored' = [refresh |-> f.got, session |-> f.got]
           \/ stored' = Empty
    BY <1>2, <1>a, <2>0, AnsweredEffect DEF Ended, Has, Overwritten, Emptied
  <2>2. \/ stored'.refresh = NoToken
        \/ \E g \in flight[t] : g.pc = "ok" /\ stored'.refresh = g.got
    BY <1>a, <2>1
  <2>3. stored' \in Stored /\ causes' \subseteq Causes /\ faults' \in 0..MaxFaults
    BY <1>a, <2>0, <2>1 DEF Stored, Base, Causes
  <2>. QED
    BY <1>b, <2>1, <2>2, <2>3, LessTokens
<1>3. ASSUME NEW f \in flight[t], Lost(t, f) PROVE Tokens'
  <2>1. /\ flight' = [flight EXCEPT ![t] = {}] /\ Alone(t)
        /\ causes' = causes \cup {"lost"} /\ faults < MaxFaults /\ faults' = faults + 1
        /\ UNCHANGED <<live, issued, signins, sends, alarm>>
        /\ tab'[t].hold = tab[t].hold
        /\ tab'[t].act = IF tab[t].act = "call" THEN "none" ELSE tab[t].act
        /\ stored' \in {stored, Empty}
    BY <1>3, <1>a, LostEffect DEF Ended, Has
  <2>2. stored' \in Stored /\ causes' \subseteq Causes /\ faults' \in 0..MaxFaults
    BY <1>a, <2>1, ClientAuthAssumption DEF Base, Causes
  <2>. QED
    BY <1>a, <1>b, <2>1, <2>2, LessTokens
<1>. QED
  BY <1>1, <1>2, <1>3

LEMMA CallTokens ==
    ASSUME Tokens, NEW t \in Tabs, NEW r \in Tab, RefreshTokens(t, r),
           UNCHANGED <<live, issued, stored, signins, faults, alarm>>,
           r.hold = tab[t].hold, r.act = tab[t].act \/ (r.act = "call" /\ tab[t].act = "none")
    PROVE  Tokens'
<1>a. Base
  BY DEF Tokens
<1>b. Alone(t) /\ (Joined(t, r) \/ Denied(t, r) \/ Launched(t, r))
  BY <1>a, RefreshEffect
<1>c. LET a == After(r, "no") IN
      a.hold = r.hold /\ a.act = IF r.act = "call" THEN "none" ELSE r.act
  BY AfterEffect DEF Has
<1>1. /\ tab'[t].hold = tab[t].hold
      /\ tab'[t].act \in {"logout", "revoked"} <=> tab[t].act \in {"logout", "revoked"}
      /\ tab'[t].act \in {"signin", "signup"} => tab[t].act = tab'[t].act
  BY <1>b, <1>c DEF Joined, Denied, Launched
<1>2. /\ tab' \in [Tabs -> Tab]
      /\ \A s \in Tabs :
           /\ tab'[s].hold \in {tab[s].hold, NoToken, stored.refresh}
           /\ tab'[s].act \notin {"logout", "revoked"} => tab'[s].hold = NoToken
           /\ tab'[s].act \in {"signin", "signup"} => tab[s].act = tab'[s].act
  BY <1>b, <1>1 DEF Alone, Tokens, Held
<1>3. CASE UNCHANGED <<flight, sends, causes>>
  <2>1. faults' \in 0..MaxFaults /\ causes' \subseteq Causes
    BY <1>a, <1>3 DEF Base
  <2>. QED
    BY <1>2, <1>3, <2>1, StillTokens
<1>4. CASE Launched(t, r)
  <2>1. PICK g \in Flight : /\ g.token = stored.refresh /\ g.pc = "sent" /\ g.got = NoToken
                            /\ flight' = [flight EXCEPT ![t] = {g}]
    BY <1>4 DEF Launched
  <2>2. /\ flight' \in [Tabs -> SUBSET Flight] /\ \A s \in Tabs : \A f, h \in flight'[s] : f = h
        /\ flight'[t] = {g} /\ \A s \in Tabs \ {t} : flight'[s] = flight[s]
    BY <1>a, <2>1, OneFlies DEF Flies
  <2>3. sends < MaxSends /\ sends' = sends + 1 /\ causes' \subseteq Causes
    BY <1>4, <1>a DEF Launched, Base, Causes
  <2>4. Base'
    BY <1>a, <1>2, <2>2, <2>3, ClientAuthAssumption DEF Base
  <2>5. Paired' /\ Aged' /\ Unique'
    <3>1. \A s \in Tabs : \A h \in flight'[s] :
            h \in flight[s] \/ (h.pc # "ok" /\ h.got = NoToken /\ h.token = stored.refresh)
      BY <2>1, <2>2
    <3>. QED
      BY <1>2, <3>1, Passes
  <2>6. Held'
    BY <1>2 DEF Held
  <2>7. Sent' \subseteq Sent \cup {t} /\ Signing' \in SUBSET Signing
    BY <1>2, <2>2 DEF Sent, Signing
  <2>8. IsFiniteSet(Signing) /\ IsFiniteSet(Sent)
    BY DEF Tokens, Budget
  <2>9. /\ IsFiniteSet(Signing') /\ Cardinality(Signing') <= Cardinality(Signing)
        /\ IsFiniteSet(Sent') /\ Cardinality(Sent') <= Cardinality(Sent) + 1
        /\ Cardinality(Signing) \in Nat /\ Cardinality(Signing') \in Nat
        /\ Cardinality(Sent) \in Nat /\ Cardinality(Sent') \in Nat
    BY <2>7, <2>8, Tally, FS_Subset, FS_CardinalityType
  <2>10. issued \in Nat /\ sends \in Nat /\ signins \in Nat
    BY DEF Tokens, Base
  <2>11. Budget'
    BY <2>3, <2>9, <2>10 DEF Tokens, Budget
  <2>. QED
    BY <2>4, <2>5, <2>6, <2>11 DEF Tokens
<1>. QED
  BY <1>b, <1>3, <1>4 DEF Joined, Denied

LEMMA CallersTokens ==
    ASSUME Tokens, NEW t \in Tabs, Open(t) \/ Fire(t) \/ Call(t) PROVE Tokens'
<1>a. Base
  BY DEF Tokens
<1>1. UNCHANGED <<live, issued, stored, signins, faults, alarm>>
  BY DEF Open, Fire, Call
<1>2. \/ Unsigned(t)
      \/ \E r \in Tab : /\ RefreshTokens(t, r) /\ r.hold = tab[t].hold
                        /\ r.act = tab[t].act \/ (r.act = "call" /\ tab[t].act = "none")
  <2>1. CASE Open(t)
    BY <1>a, <2>1, OpenCalls DEF Has
  <2>2. CASE Fire(t)
    BY <1>a, <2>2, FireCalls DEF Has
  <2>3. CASE Call(t)
    BY <1>a, <2>3, CallCalls DEF Has, Call, Act
  <2>. QED
    BY <2>1, <2>2, <2>3
<1>3. CASE Unsigned(t)
  <2>1. /\ UNCHANGED <<flight, sends>> /\ faults' \in 0..MaxFaults /\ causes' \subseteq Causes
        /\ Alone(t) /\ tab'[t].hold = tab[t].hold /\ tab'[t].act = tab[t].act
    BY <1>a, <1>1, <1>3 DEF Unsigned, Has, Base
  <2>2. /\ tab' \in [Tabs -> Tab]
        /\ \A s \in Tabs :
             /\ tab'[s].hold \in {tab[s].hold, NoToken, stored.refresh}
             /\ tab'[s].act \notin {"logout", "revoked"} => tab'[s].hold = NoToken
             /\ tab'[s].act \in {"signin", "signup"} => tab[s].act = tab'[s].act
    BY <2>1 DEF Alone, Tokens, Held
  <2>. QED
    BY <1>1, <2>1, <2>2, StillTokens
<1>. QED
  BY <1>1, <1>2, <1>3, CallTokens

LEMMA ServerTokens ==
    ASSUME Tokens, NEW t \in Tabs, NEW f \in flight[t], Rotate(t, f) \/ Refuse(t, f)
    PROVE  Tokens'
<1>a. Base /\ f \in Flight /\ flight[t] = {f} /\ tab \in [Tabs -> Tab]
  BY DEF Tokens, Base
<1>b. f.pc = "sent" /\ t \in Sent /\ f.got = NoToken /\ f.token \in Token /\ f.token[1] \in Users
  BY <1>a DEF Rotate, Refuse, Sent, Tokens, Paired, Flight, Token
<1>. DEFINE x == New(f.token[1])
<1>c. /\ x \in Token /\ x[1] = f.token[1] /\ x[2] = issued + 1
      /\ issued + 1 \in 0..(MaxSends + MaxEvents)
      /\ x # stored.refresh /\ x # NoToken
      /\ \A s \in Tabs : tab[s].hold # x /\ \A g \in flight[s] : g.token # x /\ g.got # x
  BY <1>b, Novel
<1>. HIDE DEF x
<1>d. PICK g \in Flight :
        /\ flight' = [flight EXCEPT ![t] = {g}] /\ g.token = f.token
        /\ UNCHANGED <<stored, tab, signins, sends>>
        /\ faults' \in 0..MaxFaults /\ causes' \subseteq Causes /\ alarm' \in BOOLEAN
        /\ \/ /\ g.pc = "ok" /\ g.got = x /\ live' = (live \ {f.token}) \cup {x}
              /\ issued' = issued + 1
           \/ g.pc = "no" /\ g.got = NoToken /\ live' \subseteq live /\ issued' = issued
  <2>1. CASE Rotate(t, f)
    <3>1. alarm' \in BOOLEAN
      BY <1>a, <2>1 DEF Rotate, Base
    <3>. QED
      BY <1>a, <1>b, <1>c, <2>1, <3>1, RotateEffect DEF Base, x
  <2>2. CASE Refuse(t, f)
    <3>1. faults < MaxFaults /\ faults' = faults + 1 /\ causes' = causes \cup {"refused"}
      BY <1>a, <2>2, RefuseEffect
    <3>2. faults' \in 0..MaxFaults /\ causes' \subseteq Causes
      BY <1>a, <3>1, ClientAuthAssumption DEF Base, Causes
    <3>. QED
      BY <1>a, <1>b, <2>2, <3>2, RefuseEffect DEF Base
  <2>. QED
    BY <2>1, <2>2
<1>1. /\ flight' \in [Tabs -> SUBSET Flight] /\ \A s \in Tabs : \A h, k \in flight'[s] : h = k
      /\ flight'[t] = {g} /\ \A s \in Tabs \ {t} : flight'[s] = flight[s]
  BY <1>a, <1>d, OneFlies DEF Flies
<1>2. Base'
  BY <1>a, <1>c, <1>d, <1>1 DEF Base
<1>3. Held'
  BY <1>d DEF Tokens, Held
<1>4. Paired' /\ Aged' /\ Unique'
  <2>1. CASE g.pc = "no" /\ g.got = NoToken /\ live' \subseteq live /\ issued' = issued
    <3>1. \A s \in Tabs : \A h \in flight'[s] :
            \/ h \in flight[s]
            \/ h.pc # "ok" /\ h.got = NoToken /\ \E k \in flight[s] : h.token = k.token
      BY <1>d, <1>1, <2>1
    <3>. QED
      BY <1>d, <2>1, <3>1, Passes
  <2>2. CASE /\ g.pc = "ok" /\ g.got = x /\ live' = (live \ {f.token}) \cup {x}
             /\ issued' = issued + 1
    <3>1. Paired'
      BY <1>c, <1>d, <1>1, <2>2 DEF Tokens, Paired
    <3>2. Aged'
      <4>1. \A y \in Token \cup {NoToken} : Old(y) => y = NoToken \/ y[2] <= issued + 1
        BY <1>a DEF Old, Token, Base
      <4>2. /\ live \subseteq Token /\ stored.refresh \in Token \cup {NoToken}
            /\ \A s \in Tabs : tab[s].hold \in Token \cup {NoToken}
            /\ \A s \in Tabs : \A h \in flight[s] : h.token \in Token /\ h.got \in Token \cup {NoToken}
        BY <1>a DEF Base, Tab, Flight, Stored
      <4>3. \A y \in live' : y = NoToken \/ y[2] <= issued + 1
        BY <1>c, <2>2, <4>1, <4>2 DEF Tokens, Aged
      <4>4. /\ stored.refresh = NoToken \/ stored.refresh[2] <= issued + 1
            /\ \A s \in Tabs : tab[s].hold = NoToken \/ tab[s].hold[2] <= issued + 1
        BY <4>1, <4>2 DEF Tokens, Aged
      <4>5. \A s \in Tabs : \A h \in flight'[s] :
              /\ h.token = NoToken \/ h.token[2] <= issued + 1
              /\ h.got = NoToken \/ h.got[2] <= issued + 1
        BY <1>a, <1>c, <1>d, <1>1, <2>2, <4>1, <4>2 DEF Tokens, Aged
      <4>. QED
        BY <1>d, <2>2, <4>3, <4>4, <4>5 DEF Aged, Old
    <3>3. Unique'
      <4> SUFFICES ASSUME NEW s \in Tabs, NEW h \in flight'[s], h.pc = "ok"
                   PROVE  Unseen(s, h.got)'
        BY DEF Unique
      <4>1. CASE s = t
        <5>1. h.got = x
          BY <1>1, <2>2, <4>1
        <5>. QED
          BY <1>a, <1>c, <1>d, <1>1, <4>1, <5>1 DEF Unseen
      <4>2. CASE s # t
        <5>1. h \in flight[s] /\ Unseen(s, h.got) /\ h.got # x
          BY <1>c, <1>1, <4>2 DEF Tokens, Unique
        <5>. QED
          BY <1>a, <1>d, <1>1, <2>2, <5>1 DEF Unseen
      <4>. QED
        BY <4>1, <4>2
    <3>. QED
      BY <3>1, <3>2, <3>3
  <2>. QED
    BY <1>d, <2>1, <2>2
<1>5. Sent' \subseteq Sent /\ t \in Sent \ Sent' /\ Signing' = Signing
  BY <1>b, <1>d, <1>1 DEF Sent, Signing
<1>6. IsFiniteSet(Signing) /\ IsFiniteSet(Sent)
  BY DEF Tokens, Budget
<1>7. /\ IsFiniteSet(Sent') /\ Cardinality(Sent') <= Cardinality(Sent) - 1
      /\ Cardinality(Signing) \in Nat /\ Cardinality(Sent') \in Nat /\ Cardinality(Sent) \in Nat
  <2>1. Sent' \subseteq Sent \cup {t}
    BY <1>5
  <2>. QED
    BY <1>5, <1>6, <2>1, Tally, FS_CardinalityType
<1>8. issued \in Nat /\ sends \in Nat /\ signins \in Nat
  BY DEF Tokens, Base
<1>9. Budget'
  BY <1>d, <1>5, <1>6, <1>7, <1>8 DEF Tokens, Budget
<1>. QED
  BY <1>2, <1>3, <1>4, <1>9 DEF Tokens

LEMMA TokensStep == Tokens /\ [Next]_vars => Tokens'
<1> SUFFICES ASSUME Tokens, [Next]_vars PROVE Tokens'
  OBVIOUS
<1>1. CASE UNCHANGED vars
  BY <1>1 DEF vars, Tokens, Base, Paired, Held, Aged, Old, Unique, Unseen, Budget, Sent, Signing
<1>2. ASSUME NEW t \in Tabs, Progress(t) PROVE Tokens'
  BY <1>2, QuietTokens, AdoptTokens, ServerTokens, EndTokens DEF Progress
<1>. QED
  BY <1>1, <1>2, QuietTokens, RevokedTokens, FormTokens, SignInFailsTokens, EndTokens,
     CallersTokens, ServerTokens
     DEF Next, ChangePassword, DisableTwoFactor

-----------------------------------------------------------------------------
(* The steps as the tokens see them. *)
SameTabs ==
    \A s \in Tabs : /\ tab'[s].hold = tab[s].hold
                    /\ tab'[s].act = "revoked" <=> tab[s].act = "revoked"

Resting ==
    /\ UNCHANGED <<live, flight, alarm>> /\ stored'.refresh = stored.refresh
    /\ SameTabs /\ causes \subseteq causes'

Failing == causes \subseteq causes' /\ causes' \cap {"lost", "closed"} # {}

Revoking ==
    /\ live' \subseteq live /\ UNCHANGED <<stored, flight, alarm>> /\ SameTabs
    /\ causes' = causes \cup {"revoked"}

Adopting(x) ==
    /\ live' = live \cup {x} /\ stored'.refresh = x /\ UNCHANGED <<flight, alarm>> /\ SameTabs
    /\ causes \subseteq causes' /\ (stored.refresh # NoToken => "replaced" \in causes')
    /\ \A s \in Tabs : tab[s].hold # x /\ \A g \in flight[s] : g.token # x

Leaving(t) ==
    /\ UNCHANGED <<live, stored, flight, alarm>> /\ Alone(t)
    /\ tab[t].hold = NoToken /\ tab'[t].hold = stored.refresh /\ tab[t].act # "revoked"
    /\ tab'[t].act = "revoked" => stored.refresh = NoToken
    /\ causes \subseteq causes' /\ ((\E s \in Tabs : flight[s] # {}) => "crossed" \in causes')

Ending(t) ==
    /\ live' = live \ {tab[t].hold} /\ UNCHANGED <<stored, flight, alarm, causes>> /\ Alone(t)
    /\ tab'[t].hold = tab[t].hold /\ tab'[t].act = "revoked"

Clearing(t) ==
    /\ UNCHANGED <<live, flight, alarm>> /\ stored'.refresh = NoToken /\ Alone(t)
    /\ tab[t].act = "revoked" /\ tab'[t].act # "revoked" /\ tab'[t].hold = NoToken
    /\ causes \subseteq causes'
    /\ stored.refresh \notin {tab[t].hold, NoToken} => "tabs" \in causes'

Sending(t, g) ==
    /\ UNCHANGED <<live, stored, alarm>> /\ SameTabs
    /\ flight[t] = {} /\ Flies(t, {g})
    /\ g.token = stored.refresh /\ g.pc = "sent" /\ g.got = NoToken /\ stored.refresh \in Token
    /\ causes \subseteq causes'
    /\ (\E s \in Tabs \ {t} : \E f \in flight[s] : f.token = stored.refresh) => "tabs" \in causes'
    /\ (\E s \in Tabs : tab[s].act \in {"logout", "revoked"} /\ tab[s].hold = stored.refresh)
         => "crossed" \in causes'

Granting(t, f, g) ==
    /\ f.token \in live /\ f.pc = "sent" /\ flight[t] = {f} /\ Flies(t, {g})
    /\ g.token = f.token /\ g.pc = "ok" /\ live' = (live \ {f.token}) \cup {g.got}
    /\ UNCHANGED <<stored, tab, causes, alarm>>
    /\ \A s \in Tabs : tab[s].hold # g.got /\ \A h \in flight[s] : h.token # g.got

Denying(t, f, g) ==
    /\ f.token \notin live /\ f.pc = "sent" /\ flight[t] = {f} /\ Flies(t, {g})
    /\ g.token = f.token /\ g.pc = "no" /\ g.got = f.got
    /\ live' \subseteq live /\ UNCHANGED <<stored, tab, causes>>

Refusing(t, f, g) ==
    /\ f.pc = "sent" /\ flight[t] = {f} /\ Flies(t, {g})
    /\ g.token = f.token /\ g.pc = "no" /\ g.got = f.got
    /\ UNCHANGED <<live, stored, tab, alarm>> /\ causes' = causes \cup {"refused"}

Taking(t, f) ==
    /\ f.pc \in {"ok", "no"} /\ flight[t] = {f} /\ Flies(t, {})
    /\ UNCHANGED <<live, alarm>> /\ SameTabs
    /\ stored'.refresh = IF f.pc = "ok" THEN f.got ELSE NoToken
    /\ causes \subseteq causes'
    /\ stored.refresh \notin {f.token, NoToken} => "tabs" \in causes'

Seen ==
    \/ Resting \/ Failing \/ Revoking \/ \E x \in Token : Adopting(x)
    \/ \E t \in Tabs :
         \/ Leaving(t) \/ Ending(t) \/ Clearing(t)
         \/ \E g \in Flight : Sending(t, g)
         \/ \E f, g \in Flight : Granting(t, f, g) \/ Denying(t, f, g) \/ Refusing(t, f, g)
         \/ \E f \in Flight : Taking(t, f)

LEMMA CallSeen ==
    ASSUME Tokens, NEW t \in Tabs, NEW r \in Tab, RefreshTokens(t, r),
           UNCHANGED <<live, stored, alarm>>,
           r.hold = tab[t].hold, r.act = tab[t].act \/ (r.act = "call" /\ tab[t].act = "none")
    PROVE  Resting \/ \E g \in Flight : Sending(t, g)
<1>a. Base
  BY DEF Tokens
<1>b. Alone(t) /\ (Joined(t, r) \/ Denied(t, r) \/ Launched(t, r))
  BY <1>a, RefreshEffect
<1>c. LET a == After(r, "no") IN
      a.hold = r.hold /\ a.act = IF r.act = "call" THEN "none" ELSE r.act
  BY AfterEffect DEF Has
<1>1. /\ tab'[t].hold = tab[t].hold
      /\ tab'[t].act = "revoked" <=> tab[t].act = "revoked"
  BY <1>b, <1>c DEF Joined, Denied, Launched
<1>2. SameTabs
  BY <1>b, <1>1 DEF SameTabs, Alone
<1>3. CASE Joined(t, r) \/ Denied(t, r)
  BY <1>2, <1>3 DEF Resting, Joined, Denied
<1>4. CASE Launched(t, r)
  <2>1. PICK g \in Flight : /\ g.token = stored.refresh /\ g.pc = "sent" /\ g.got = NoToken
                            /\ flight' = [flight EXCEPT ![t] = {g}]
    BY <1>4 DEF Launched
  <2>2. Flies(t, {g})
    BY <1>a, <2>1, OneFlies
  <2>. QED
    BY <1>2, <1>4, <2>1, <2>2 DEF Sending, Launched
<1>. QED
  BY <1>b, <1>3, <1>4

LEMMA StepSeen == ASSUME Tokens, [Next]_vars PROVE Seen
<1>a. Base /\ tab \in [Tabs -> Tab] /\ flight \in [Tabs -> SUBSET Flight]
      /\ \A t \in Tabs : \A f \in flight[t] : flight[t] = {f}
  BY DEF Tokens, Base
<1>b. \A t \in Tabs : tab[t].act \notin {"logout", "revoked"} => tab[t].hold = NoToken
  BY DEF Tokens, Held
<1>c. \A t \in Tabs : \A f \in flight[t] :
        IF f.pc = "ok" THEN f.got \in Token /\ f.got[1] = f.token[1] ELSE f.got = NoToken
  BY DEF Tokens, Paired
<1>1. CASE UNCHANGED vars
  BY <1>1 DEF vars, Seen, Resting, SameTabs
<1>2. ASSUME NEW t \in Tabs, BootMe(t) \/ Me(t) PROVE Seen
  <2>1. UNCHANGED <<live, stored, flight, alarm, causes>>
    BY <1>2 DEF BootMe, Me
  <2>2. Alone(t) /\ tab'[t].hold = tab[t].hold
        /\ (tab'[t].act = "revoked" <=> tab[t].act = "revoked")
    <3>1. CASE BootMe(t)
      BY <1>a, <3>1, BootMeEffect DEF Has
    <3>2. CASE Me(t)
      BY <1>a, <3>2, MeEffect DEF Has, Me, Act
    <3>. QED
      BY <1>2, <3>1, <3>2
  <2>. QED
    BY <2>1, <2>2 DEF Seen, Resting, SameTabs, Alone
<1>3. ASSUME NEW t \in Tabs, SignIn(t) \/ Verify(t) \/ SignUp(t) PROVE Seen
  <2>1. UNCHANGED <<live, stored, flight, alarm>> /\ causes \subseteq causes'
    BY <1>3 DEF SignIn, Verify, SignUp, Crossed
  <2>2. Alone(t) /\ tab'[t].hold = tab[t].hold
        /\ (tab'[t].act = "revoked" <=> tab[t].act = "revoked")
    BY <1>3, <1>a, FormEffect DEF Has
  <2>. QED
    BY <2>1, <2>2 DEF Seen, Resting, SameTabs, Alone
<1>4. ASSUME NEW t \in Tabs, SignInFails(t) PROVE Seen
  <2>1. tab[t].act \in {"signin", "signup", "me"} /\ UNCHANGED <<stored, flight, alarm>>
        /\ tab' = [tab EXCEPT ![t].act = "none"]
        /\ causes \subseteq causes'
        /\ (tab[t].act # "me" => "lost" \in causes') /\ (tab[t].act = "me" => UNCHANGED live)
    BY <1>4 DEF SignInFails, SigningIn, Act, Blame
  <2>2. Alone(t) /\ tab'[t].hold = tab[t].hold /\ tab'[t].act = "none"
    BY <1>a, <2>1, ActPut DEF Has
  <2>3. SameTabs
    BY <2>1, <2>2 DEF SameTabs, Alone
  <2>. QED
    BY <2>1, <2>3 DEF Seen, Resting, Failing
<1>5. ASSUME NEW t \in Tabs, Close(t) PROVE Seen
  <2>1. CASE tab[t].act = "none" /\ flight[t] = {}
    <3>1. UNCHANGED <<live, stored, alarm, causes>> /\ flight' = [flight EXCEPT ![t] = {}]
      BY <1>5, <2>1 DEF Close
    <3>2. flight' = flight
      BY <1>a, <2>1, <3>1
    <3>3. Alone(t) /\ tab'[t].hold = NoToken /\ tab'[t].act = "none" /\ tab[t].hold = NoToken
      BY <1>5, <1>a, <1>b, <2>1, CloseEffect DEF Has
    <3>4. SameTabs
      BY <2>1, <3>3 DEF SameTabs, Alone
    <3>. QED
      BY <3>1, <3>2, <3>4 DEF Seen, Resting
  <2>2. CASE ~(tab[t].act = "none" /\ flight[t] = {})
    BY <1>5, <2>2 DEF Close, Blame, Seen, Failing
  <2>. QED
    BY <2>1, <2>2
<1>6. ASSUME NEW t \in Tabs, BootFails(t) \/ \E f \in flight[t] : Lost(t, f) PROVE Seen
  BY <1>6 DEF BootFails, Lost, Blame, Seen, Failing
<1>7. ASSUME NEW t \in Tabs, Open(t) \/ Fire(t) \/ Call(t) PROVE Seen
  <2>1. \/ Unsigned(t)
        \/ \E r \in Tab : /\ RefreshTokens(t, r) /\ r.hold = tab[t].hold
                          /\ r.act = tab[t].act \/ (r.act = "call" /\ tab[t].act = "none")
    <3>1. CASE Open(t)
      BY <1>a, <3>1, OpenCalls DEF Has
    <3>2. CASE Fire(t)
      BY <1>a, <3>2, FireCalls DEF Has
    <3>3. CASE Call(t)
      BY <1>a, <3>3, CallCalls DEF Has, Call, Act
    <3>. QED
      BY <1>7, <3>1, <3>2, <3>3
  <2>2. UNCHANGED <<live, stored, alarm>>
    BY <1>7 DEF Open, Fire, Call
  <2>3. CASE Unsigned(t)
    BY <2>2, <2>3 DEF Unsigned, Has, Seen, Resting, SameTabs, Alone
  <2>4. Unsigned(t) \/ Resting \/ \E g \in Flight : Sending(t, g)
    BY <2>1, <2>2, CallSeen
  <2>. QED
    BY <2>3, <2>4 DEF Seen
<1>8. ASSUME NEW t \in Tabs, Adopt(t) PROVE Seen
  <2>1. PICK u \in Users :
          /\ live' = live \cup {New(u)} /\ stored'.refresh = New(u)
          /\ causes \subseteq causes' /\ (stored.refresh # NoToken => "replaced" \in causes')
          /\ tab' = [tab EXCEPT ![t] = [@ EXCEPT !.act = "me", !.access = u]]
    <3>1. PICK u \in Account :
            /\ live' = live \cup {New(u)}
            /\ stored' = [refresh |-> New(u), session |-> IF Act(t, "signin") THEN New(u) ELSE NoToken]
            /\ causes' = causes \cup {c \in {"replaced"} : stored.refresh # NoToken}
                                \cup {c \in {"switched"} : Apart(t, u)}
            /\ tab' = [tab EXCEPT ![t] = [@ EXCEPT !.act = "me", !.access = u]]
      BY <1>8 DEF Adopt
    <3>2. u \in Users
      BY AccountType
    <3>3. stored'.refresh = New(u)
      BY <3>1
    <3>4. causes \subseteq causes' /\ (stored.refresh # NoToken => "replaced" \in causes')
      BY <3>1
    <3>. QED
      BY <3>1, <3>2, <3>3, <3>4
  <2>2. tab[t].act \in {"signin", "signup"} /\ UNCHANGED <<flight, alarm>> /\ t \in Signing
    BY <1>8 DEF Adopt, Signing
  <2>3. Alone(t) /\ tab'[t].act = "me" /\ tab'[t].hold = tab[t].hold
    BY <1>a, <2>1, AdoptPut DEF Has
  <2>4. SameTabs
    BY <2>2, <2>3 DEF SameTabs, Alone
  <2>5. New(u) \in Token
        /\ \A s \in Tabs : tab[s].hold # New(u) /\ \A g \in flight[s] : g.token # New(u)
    BY <2>2, Novel
  <2>6. Adopting(New(u))
    BY <2>1, <2>2, <2>4, <2>5 DEF Adopting
  <2>. QED
    BY <2>5, <2>6 DEF Seen
<1>9. ASSUME NEW t \in Tabs, Logout(t) PROVE Seen
  <2>1. /\ UNCHANGED <<live, stored, flight, alarm>> /\ tab[t].act \in {"none", "leaving"}
        /\ causes \subseteq causes' /\ ((\E s \in Tabs : flight[s] # {}) => "crossed" \in causes')
    BY <1>9 DEF Logout, SignOut, Act
  <2>2. Alone(t) /\ tab'[t].hold = stored.refresh
        /\ (tab'[t].act = IF stored.refresh = NoToken THEN "revoked" ELSE "logout")
    BY <1>9, <1>a, LogoutEffect DEF Has
  <2>3. Leaving(t)
    BY <1>b, <2>1, <2>2 DEF Leaving
  <2>. QED
    BY <2>3 DEF Seen
<1>10. ASSUME NEW t \in Tabs, Revoke(t) PROVE Seen
  <2>1. tab' = [tab EXCEPT ![t].act = "revoked"] /\ UNCHANGED <<stored, flight, alarm>>
        /\ \/ live' = live \ {tab[t].hold} /\ UNCHANGED causes
           \/ causes' = causes \cup {"lost"}
    BY <1>10 DEF Revoke, Blame
  <2>2. Alone(t) /\ tab'[t].act = "revoked" /\ tab'[t].hold = tab[t].hold
    BY <1>a, <2>1, ActPut DEF Has
  <2>3. Ending(t) \/ Failing
    BY <2>1, <2>2 DEF Ending, Failing
  <2>. QED
    BY <2>3 DEF Seen
<1>11. ASSUME NEW t \in Tabs, Teardown(t) PROVE Seen
  <2>1. /\ UNCHANGED <<live, flight, alarm>> /\ stored' = Empty /\ tab[t].act = "revoked"
        /\ causes \subseteq causes'
        /\ stored.refresh \notin {tab[t].hold, NoToken} => "tabs" \in causes'
    BY <1>11 DEF Teardown, Act
  <2>2. Alone(t) /\ tab'[t].act = "none" /\ tab'[t].hold = NoToken
    BY <1>11, <1>a, TeardownEffect DEF Has
  <2>3. Clearing(t)
    BY <2>1, <2>2 DEF Clearing, Empty
  <2>. QED
    BY <2>3 DEF Seen
<1>12. ASSUME NEW t \in Tabs, SignOutEverywhere(t) PROVE Seen
  <2>1. /\ live' \subseteq live /\ UNCHANGED <<stored, flight, alarm>> /\ tab[t].act = "none"
        /\ causes' = causes \cup {"revoked"} /\ tab' = [tab EXCEPT ![t].act = "leaving"]
    BY <1>12 DEF SignOutEverywhere, Act, Blame
  <2>2. Alone(t) /\ tab'[t].act = "leaving" /\ tab'[t].hold = tab[t].hold
    BY <1>a, <2>1, ActPut DEF Has
  <2>. QED
    BY <2>1, <2>2 DEF Seen, Revoking, SameTabs, Alone
<1>13. CASE \/ Elsewhere
            \/ \E t \in Tabs : ResetPassword(t) \/ \E x \in live : RevokeSession(t, x)
  BY <1>13 DEF Elsewhere, ResetPassword, RevokeSession, Blame, Seen, Revoking, SameTabs
<1>14. ASSUME NEW t \in Tabs, NEW f \in flight[t], Rotate(t, f) PROVE Seen
  <2>1. t \in Sent /\ f.token[1] \in Users /\ f \in Flight /\ flight[t] = {f}
    BY <1>14, <1>a DEF Rotate, Sent, Flight, Token
  <2>2. /\ New(f.token[1]) \in Token
        /\ \A s \in Tabs : /\ tab[s].hold # New(f.token[1])
                           /\ \A h \in flight[s] : h.token # New(f.token[1])
    BY <2>1, Novel
  <2>3. PICK g \in Flight :
          /\ f.pc = "sent" /\ UNCHANGED <<stored, tab, causes>>
          /\ flight' = [flight EXCEPT ![t] = {g}] /\ g.token = f.token
          /\ \/ /\ f.token \in live /\ g.pc = "ok" /\ g.got = New(f.token[1])
                /\ live' = (live \ {f.token}) \cup {g.got} /\ alarm' = alarm
             \/ /\ f.token \notin live /\ g.pc = "no" /\ g.got = f.got /\ live' \subseteq live
    BY <1>14, <1>a, <2>2, RotateEffect
  <2>4. Flies(t, {g})
    BY <1>a, <2>3, OneFlies
  <2>5. Granting(t, f, g) \/ Denying(t, f, g)
    BY <2>1, <2>2, <2>3, <2>4 DEF Granting, Denying
  <2>. QED
    BY <2>1, <2>5 DEF Seen
<1>15. ASSUME NEW t \in Tabs, NEW f \in flight[t], Refuse(t, f) PROVE Seen
  <2>1. PICK g \in Flight :
          /\ f \in Flight /\ f.pc = "sent" /\ causes' = causes \cup {"refused"}
          /\ UNCHANGED <<live, stored, tab, alarm>>
          /\ flight' = [flight EXCEPT ![t] = {g}]
          /\ g.token = f.token /\ g.pc = "no" /\ g.got = f.got
    BY <1>15, <1>a, RefuseEffect
  <2>2. Flies(t, {g}) /\ flight[t] = {f}
    BY <1>a, <2>1, OneFlies
  <2>3. Refusing(t, f, g)
    BY <2>1, <2>2 DEF Refusing
  <2>. QED
    BY <2>1, <2>3 DEF Seen
<1>16. ASSUME NEW t \in Tabs, NEW f \in flight[t], Answered(t, f) PROVE Seen
  <2>1. f.pc = "ok" => f.got \in Token
    BY <1>c
  <2>2. /\ f \in Flight /\ f.pc \in {"ok", "no"} /\ flight[t] = {f}
        /\ flight' = [flight EXCEPT ![t] = {}] /\ Alone(t)
        /\ causes \subseteq causes'
        /\ stored.refresh \notin {f.token, NoToken} => "tabs" \in causes'
        /\ UNCHANGED <<live, alarm>>
        /\ tab'[t].hold = tab[t].hold
        /\ tab'[t].act = IF tab[t].act = "call" THEN "none" ELSE tab[t].act
        /\ \/ f.pc = "ok" /\ stored' = [refresh |-> f.got, session |-> f.got]
           \/ f.pc = "no" /\ stored' = Empty
    BY <1>16, <1>a, <2>1, AnsweredEffect DEF Ended, Has, Overwritten, Emptied
  <2>3. Flies(t, {}) /\ SameTabs
    BY <1>a, <2>2, NoneFlies DEF SameTabs, Alone
  <2>4. Taking(t, f)
    BY <2>2, <2>3 DEF Taking, Empty
  <2>. QED
    BY <2>2, <2>4 DEF Seen
<1>. QED
  BY <1>1, <1>2, <1>3, <1>4, <1>5, <1>6, <1>7, <1>8, <1>9, <1>10, <1>11, <1>12, <1>13, <1>14,
     <1>15, <1>16 DEF Next, Progress, ChangePassword, DisableTwoFactor

-----------------------------------------------------------------------------
(* The alarm.  While nothing has happened that the client does not guard     *)
(* against, every request carries a live token, every pair that was granted  *)
(* is live, the stored token is live or on its way out, no two tabs present  *)
(* one token, and no logout holds the token of a request.                    *)
Excused == causes \cap {"tabs", "crossed", "lost", "closed", "revoked"} # {}

Rightful ==
    /\ \A t \in Tabs : \A f \in flight[t] :
         (f.pc = "sent" => f.token \in live) /\ (f.pc = "ok" => f.got \in live)
    /\ \/ stored.refresh \in live \cup {NoToken}
       \/ \E t \in Tabs : \E f \in flight[t] : f.token = stored.refresh /\ f.pc = "ok"
       \/ \E t \in Tabs : tab[t].act = "revoked" /\ tab[t].hold = stored.refresh
    /\ \A t, s \in Tabs : \A f \in flight[t], g \in flight[s] : s # t => f.token # g.token
    /\ \A t, s \in Tabs : \A f \in flight[t] : f.token # tab[s].hold

Genuine == Excused \/ (~alarm /\ Rightful)

LEMMA SeenGrows == Seen => causes \subseteq causes'
<1>1. Resting \/ Failing \/ Revoking => causes \subseteq causes'
  BY DEF Resting, Failing, Revoking
<1>2. \A x \in Token : Adopting(x) => causes \subseteq causes'
  BY DEF Adopting
<1>3. \A t \in Tabs : Leaving(t) \/ Ending(t) \/ Clearing(t) => causes \subseteq causes'
  BY DEF Leaving, Ending, Clearing
<1>4. \A t \in Tabs : \A g \in Flight : Sending(t, g) => causes \subseteq causes'
  BY DEF Sending
<1>5. \A t \in Tabs : \A f, g \in Flight :
        Granting(t, f, g) \/ Denying(t, f, g) \/ Refusing(t, f, g) => causes \subseteq causes'
  BY DEF Granting, Denying, Refusing
<1>6. \A t \in Tabs : \A f \in Flight : Taking(t, f) => causes \subseteq causes'
  BY DEF Taking
<1>. QED
  BY <1>1, <1>2, <1>3, <1>4, <1>5, <1>6 DEF Seen

LEMMA GenuineStep == ASSUME Tokens, Genuine, [Next]_vars PROVE Genuine'
<1> SUFFICES ASSUME ~Excused' PROVE (~alarm /\ Rightful)'
  BY DEF Genuine
<1>0. Seen /\ causes \subseteq causes'
  BY StepSeen, SeenGrows
<1>r. ~alarm /\ Rightful
  BY <1>0 DEF Genuine, Excused
<1>f. \A t \in Tabs : \A f \in flight[t] : f \in Flight /\ f.token \in Token
  BY DEF Tokens, Base, Flight
<1>n. NoToken \notin Token
  BY ClientAuthAssumption DEF Token
<1>u. \A t \in Tabs : \A f \in flight[t] : f.pc = "ok" =>
        \A s \in Tabs : tab[s].hold # f.got /\ \A g \in flight[s] : g.token # f.got
  BY DEF Tokens, Unique, Unseen
<1>1. CASE Resting
  BY <1>r, <1>1 DEF Resting, SameTabs, Rightful
<1>2. ~Failing /\ ~Revoking
  BY DEF Failing, Revoking, Excused
<1>3. ASSUME NEW x \in Token, Adopting(x) PROVE (~alarm /\ Rightful)'
  BY <1>r, <1>3 DEF Adopting, SameTabs, Rightful
<1>4. ASSUME NEW t \in Tabs, Leaving(t) PROVE (~alarm /\ Rightful)'
  <2>1. \A s \in Tabs : flight[s] = {} /\ flight'[s] = {}
    BY <1>4 DEF Leaving, Excused
  <2>2. \A s \in Tabs : tab[s].act = "revoked" => tab'[s] = tab[s]
    BY <1>4 DEF Leaving, Alone
  <2>. QED
    BY <1>r, <1>4, <2>1, <2>2 DEF Leaving, Rightful
<1>5. ASSUME NEW t \in Tabs, Ending(t) PROVE (~alarm /\ Rightful)'
  <2>1. \A s \in Tabs : tab'[s].hold = tab[s].hold
    BY <1>5 DEF Ending, Alone
  <2>2. \A s \in Tabs : tab[s].act = "revoked" => tab'[s].act = "revoked"
    BY <1>5 DEF Ending, Alone
  <2>3. \A s \in Tabs : \A f \in flight[s] :
          (f.pc = "sent" => f.token \in live') /\ (f.pc = "ok" => f.got \in live')
    BY <1>r, <1>u, <1>5 DEF Ending, Rightful
  <2>4. \/ stored.refresh \in live' \cup {NoToken}
        \/ \E s \in Tabs : \E f \in flight[s] : f.token = stored.refresh /\ f.pc = "ok"
        \/ \E s \in Tabs : tab'[s].act = "revoked" /\ tab'[s].hold = stored.refresh
    BY <1>r, <1>5, <2>1, <2>2 DEF Ending, Rightful
  <2>. QED
    BY <1>r, <1>5, <2>1, <2>3, <2>4 DEF Ending, Rightful
<1>6. ASSUME NEW t \in Tabs, Clearing(t) PROVE (~alarm /\ Rightful)'
  <2>1. \A s \in Tabs : tab'[s].hold \in {tab[s].hold, NoToken}
    BY <1>6 DEF Clearing, Alone
  <2>. QED
    BY <1>r, <1>f, <1>n, <1>6, <2>1 DEF Clearing, Rightful
<1>7. ASSUME NEW t \in Tabs, NEW g \in Flight, Sending(t, g) PROVE (~alarm /\ Rightful)'
  <2>1. stored.refresh \in live
    BY <1>r, <1>n, <1>7 DEF Sending, Rightful, Excused
  <2>2. \A s \in Tabs \ {t} : \A f \in flight[s] : f.token # stored.refresh
    BY <1>7 DEF Sending, Excused
  <2>3. \A s \in Tabs : tab[s].hold # stored.refresh
    BY <1>n, <1>7 DEF Sending, Excused, Tokens, Held
  <2>4. \A s \in Tabs : tab'[s].hold = tab[s].hold
    BY <1>7 DEF Sending, SameTabs
  <2>5. /\ flight'[t] = {g} /\ \A s \in Tabs \ {t} : flight'[s] = flight[s]
        /\ g.token = stored.refresh /\ g.pc = "sent"
        /\ UNCHANGED <<live, stored, alarm>>
    BY <1>7 DEF Sending, Flies
  <2>6. \A s \in Tabs : \A f \in flight'[s] :
          (f.pc = "sent" => f.token \in live) /\ (f.pc = "ok" => f.got \in live)
    BY <1>r, <2>1, <2>5 DEF Rightful
  <2>7. \A s, q \in Tabs : \A f \in flight'[s], h \in flight'[q] : q # s => f.token # h.token
    BY <1>r, <2>2, <2>5 DEF Rightful
  <2>8. \A s, q \in Tabs : \A f \in flight'[s] : f.token # tab'[q].hold
    BY <1>r, <2>3, <2>4, <2>5 DEF Rightful
  <2>. QED
    BY <1>r, <2>1, <2>5, <2>6, <2>7, <2>8 DEF Rightful
<1>8. ASSUME NEW t \in Tabs, NEW f \in Flight, NEW g \in Flight, Granting(t, f, g)
      PROVE  (~alarm /\ Rightful)'
  <2>1. /\ f.token \in live /\ f.pc = "sent" /\ flight[t] = {f}
        /\ flight'[t] = {g} /\ \A s \in Tabs \ {t} : flight'[s] = flight[s]
        /\ g.token = f.token /\ g.pc = "ok" /\ live' = (live \ {f.token}) \cup {g.got}
        /\ UNCHANGED <<stored, tab, causes, alarm>>
    BY <1>8 DEF Granting, Flies
  <2>2. \A s \in Tabs \ {t} : \A h \in flight[s] :
          (h.pc = "sent" => h.token \in live') /\ (h.pc = "ok" => h.got \in live')
    BY <1>r, <1>u, <2>1 DEF Rightful
  <2>3. \A s \in Tabs : \A h \in flight'[s] :
          (h.pc = "sent" => h.token \in live') /\ (h.pc = "ok" => h.got \in live')
    BY <2>1, <2>2
  <2>4. \/ stored.refresh \in live' \cup {NoToken}
        \/ \E s \in Tabs : \E h \in flight'[s] : h.token = stored.refresh /\ h.pc = "ok"
        \/ \E s \in Tabs : tab[s].act = "revoked" /\ tab[s].hold = stored.refresh
    <3>1. CASE stored.refresh \in live \cup {NoToken}
      BY <2>1, <3>1
    <3>2. CASE \E s \in Tabs : \E h \in flight[s] : h.token = stored.refresh /\ h.pc = "ok"
      BY <2>1, <3>2
    <3>. QED
      BY <1>r, <3>1, <3>2 DEF Rightful
  <2>5. \A s, q \in Tabs : \A h \in flight'[s], k \in flight'[q] : q # s => h.token # k.token
    BY <1>r, <2>1 DEF Rightful
  <2>6. \A s, q \in Tabs : \A h \in flight'[s] : h.token # tab'[q].hold
    BY <1>r, <2>1 DEF Rightful
  <2>. QED
    BY <1>r, <2>1, <2>3, <2>4, <2>5, <2>6 DEF Rightful
<1>9. ASSUME NEW t \in Tabs, NEW f \in Flight, NEW g \in Flight PROVE ~Denying(t, f, g)
  BY <1>r DEF Denying, Rightful
<1>10. ASSUME NEW t \in Tabs, NEW f \in Flight, NEW g \in Flight, Refusing(t, f, g)
       PROVE  (~alarm /\ Rightful)'
  <2>1. /\ f.pc = "sent" /\ flight[t] = {f}
        /\ flight'[t] = {g} /\ \A s \in Tabs \ {t} : flight'[s] = flight[s]
        /\ g.token = f.token /\ g.pc = "no" /\ UNCHANGED <<live, stored, tab, alarm>>
    BY <1>10 DEF Refusing, Flies
  <2>2. \A s, q \in Tabs : \A h \in flight'[s], k \in flight'[q] : q # s => h.token # k.token
    BY <1>r, <2>1 DEF Rightful
  <2>3. \A s, q \in Tabs : \A h \in flight'[s] : h.token # tab'[q].hold
    BY <1>r, <2>1 DEF Rightful
  <2>4. \/ stored.refresh \in live \cup {NoToken}
        \/ \E s \in Tabs : \E h \in flight'[s] : h.token = stored.refresh /\ h.pc = "ok"
        \/ \E s \in Tabs : tab[s].act = "revoked" /\ tab[s].hold = stored.refresh
    BY <1>r, <2>1 DEF Rightful
  <2>5. \A s \in Tabs : \A h \in flight'[s] :
          (h.pc = "sent" => h.token \in live) /\ (h.pc = "ok" => h.got \in live)
    BY <1>r, <2>1 DEF Rightful
  <2>. QED
    BY <1>r, <2>1, <2>2, <2>3, <2>4, <2>5 DEF Rightful
<1>11. ASSUME NEW t \in Tabs, NEW f \in Flight, Taking(t, f) PROVE (~alarm /\ Rightful)'
  <2>1. /\ flight[t] = {f} /\ flight'[t] = {} /\ \A s \in Tabs \ {t} : flight'[s] = flight[s]
        /\ UNCHANGED <<live, alarm>> /\ SameTabs
        /\ stored'.refresh = IF f.pc = "ok" THEN f.got ELSE NoToken
    BY <1>11 DEF Taking, Flies
  <2>2. stored'.refresh \in live \cup {NoToken}
    BY <1>r, <2>1 DEF Rightful
  <2>. QED
    BY <1>r, <2>1, <2>2 DEF Rightful, SameTabs
<1>. QED
  BY <1>0, <1>1, <1>2, <1>3, <1>4, <1>5, <1>6, <1>7, <1>8, <1>9, <1>10, <1>11 DEF Seen

-----------------------------------------------------------------------------
(* The sessions.  A token whose request was answered is not live any more,   *)
(* nor is the one that a logout revoked: clearing it throws nothing away.    *)
Thrown == causes \cap {"lost", "closed", "refused", "replaced", "tabs", "crossed"} # {}

Known(x) ==
    \/ x = stored.refresh
    \/ \E t \in Tabs : x = tab[t].hold \/ \E f \in flight[t] : x \in {f.token, f.got}

Kept ==
    /\ \A x \in live : Known(x)
    /\ \A t \in Tabs : \A f \in flight[t] : f.pc # "sent" => f.token \notin live
    /\ \A t \in Tabs : tab[t].act = "revoked" => tab[t].hold \notin live

Spent == Thrown \/ Kept

LEMMA SpentStep == ASSUME Tokens, Spent, [Next]_vars PROVE Spent'
<1> SUFFICES ASSUME ~Thrown' PROVE Kept'
  BY DEF Spent
<1>0. Seen /\ causes \subseteq causes'
  BY StepSeen, SeenGrows
<1>k. Kept
  BY <1>0 DEF Spent, Thrown
<1>n. NoToken \notin live /\ live \subseteq Token
  BY ClientAuthAssumption DEF Tokens, Base, Token
<1>p. \A t \in Tabs : \A f \in flight[t] : f.pc # "ok" => f.got = NoToken
  BY DEF Tokens, Paired
<1>1. CASE Resting
  BY <1>k, <1>1 DEF Resting, SameTabs, Kept, Known
<1>2. ~Failing /\ \A t \in Tabs : \A f, g \in Flight : ~Refusing(t, f, g)
  BY DEF Failing, Refusing, Thrown
<1>3. CASE Revoking
  BY <1>k, <1>3 DEF Revoking, SameTabs, Kept, Known
<1>4. ASSUME NEW x \in Token, Adopting(x) PROVE Kept'
  <2>1. stored.refresh = NoToken
    BY <1>4 DEF Adopting, Thrown
  <2>. QED
    BY <1>k, <1>n, <1>4, <2>1 DEF Adopting, SameTabs, Kept, Known
<1>5. ASSUME NEW t \in Tabs, Leaving(t) PROVE Kept'
  <2>1. \A x \in live : Known(x)'
    <3>1. \A s \in Tabs : tab[s].hold # NoToken => tab'[s].hold = tab[s].hold
      BY <1>5 DEF Leaving, Alone
    <3>. QED
      BY <1>k, <1>n, <1>5, <3>1 DEF Leaving, Kept, Known
  <2>2. \A s \in Tabs : tab'[s].act = "revoked" => tab'[s].hold \notin live
    BY <1>k, <1>n, <1>5 DEF Leaving, Alone, Kept
  <2>. QED
    BY <1>k, <1>5, <2>1, <2>2 DEF Leaving, Kept
<1>6. ASSUME NEW t \in Tabs, Ending(t) PROVE Kept'
  <2>1. \A s \in Tabs : tab'[s].hold = tab[s].hold
    BY <1>6 DEF Ending, Alone
  <2>2. \A s \in Tabs : tab'[s].act = "revoked" => tab'[s].hold \notin live'
    BY <1>k, <1>6, <2>1 DEF Ending, Alone, Kept
  <2>. QED
    BY <1>k, <1>6, <2>1, <2>2 DEF Ending, Kept, Known
<1>7. ASSUME NEW t \in Tabs, Clearing(t) PROVE Kept'
  <2>1. stored.refresh \notin live
    BY <1>k, <1>n, <1>7 DEF Clearing, Kept, Thrown
  <2>2. tab[t].hold \notin live
    BY <1>k, <1>7 DEF Clearing, Kept
  <2>3. \A x \in live : Known(x)'
    <3>1. \A s \in Tabs : tab[s].hold \in live => tab'[s].hold = tab[s].hold
      BY <1>7, <2>2 DEF Clearing, Alone
    <3>. QED
      BY <1>k, <1>7, <2>1, <3>1 DEF Clearing, Kept, Known
  <2>4. \A s \in Tabs : tab'[s].act = "revoked" => tab'[s].hold \notin live
    BY <1>k, <1>7 DEF Clearing, Alone, Kept
  <2>. QED
    BY <1>k, <1>7, <2>3, <2>4 DEF Clearing, Kept
<1>8. ASSUME NEW t \in Tabs, NEW g \in Flight, Sending(t, g) PROVE Kept'
  <2>1. /\ flight[t] = {} /\ flight'[t] = {g} /\ \A s \in Tabs \ {t} : flight'[s] = flight[s]
        /\ g.pc = "sent" /\ UNCHANGED <<live, stored>> /\ SameTabs
    BY <1>8 DEF Sending, Flies
  <2>2. \A x \in live : Known(x)'
    BY <1>k, <2>1 DEF Kept, Known, SameTabs
  <2>. QED
    BY <1>k, <2>1, <2>2 DEF Kept, SameTabs
<1>9. ASSUME NEW t \in Tabs, NEW f \in Flight, NEW g \in Flight, Granting(t, f, g)
      PROVE  Kept'
  <2>1. /\ f.token \in live /\ f.pc = "sent" /\ flight[t] = {f}
        /\ flight'[t] = {g} /\ \A s \in Tabs \ {t} : flight'[s] = flight[s]
        /\ g.token = f.token /\ g.pc = "ok" /\ live' = (live \ {f.token}) \cup {g.got}
        /\ UNCHANGED <<stored, tab, causes, alarm>>
        /\ \A s \in Tabs : tab[s].hold # g.got /\ \A h \in flight[s] : h.token # g.got
    BY <1>9 DEF Granting, Flies
  <2>2. \A x \in live' : Known(x)'
    <3>1. Known(g.got)'
      BY <2>1 DEF Known
    <3>2. \A x \in live \ {f.token} : Known(x)'
      BY <1>k, <1>n, <1>p, <2>1 DEF Kept, Known
    <3>. QED
      BY <2>1, <3>1, <3>2
  <2>3. \A s \in Tabs : \A h \in flight'[s] : h.pc # "sent" => h.token \notin live'
    BY <1>k, <2>1 DEF Kept
  <2>. QED
    BY <1>k, <2>1, <2>2, <2>3 DEF Kept
<1>10. ASSUME NEW t \in Tabs, NEW f \in Flight, NEW g \in Flight, Denying(t, f, g)
       PROVE  Kept'
  <2>1. /\ f.token \notin live /\ flight[t] = {f}
        /\ flight'[t] = {g} /\ \A s \in Tabs \ {t} : flight'[s] = flight[s]
        /\ g.token = f.token /\ g.got = f.got /\ live' \subseteq live
        /\ UNCHANGED <<stored, tab, causes>>
    BY <1>10 DEF Denying, Flies
  <2>2. \A x \in live : Known(x)'
    BY <1>k, <2>1 DEF Kept, Known
  <2>. QED
    BY <1>k, <2>1, <2>2 DEF Kept
<1>11. ASSUME NEW t \in Tabs, NEW f \in Flight, Taking(t, f) PROVE Kept'
  <2>1. /\ flight[t] = {f} /\ flight'[t] = {} /\ \A s \in Tabs \ {t} : flight'[s] = flight[s]
        /\ UNCHANGED live /\ SameTabs /\ f.pc \in {"ok", "no"}
        /\ stored'.refresh = IF f.pc = "ok" THEN f.got ELSE NoToken
        /\ stored.refresh \in {f.token, NoToken}
    BY <1>11 DEF Taking, Flies, Thrown
  <2>2. f.token \notin live /\ stored.refresh \notin live
    BY <1>k, <1>n, <2>1 DEF Kept
  <2>3. f.got \in live => f.got = stored'.refresh
    BY <1>n, <1>p, <2>1
  <2>4. \A x \in live : Known(x)'
    BY <1>k, <2>1, <2>2, <2>3 DEF Kept, Known, SameTabs
  <2>. QED
    BY <1>k, <2>1, <2>4 DEF Kept, SameTabs
<1>. QED
  BY <1>0, <1>1, <1>2, <1>3, <1>4, <1>5, <1>6, <1>7, <1>8, <1>9, <1>10, <1>11 DEF Seen

(* The badge: whoever writes the store writes the id of the token, or none.  *)
LEMMA BadgeStep == BadgeIsThisDevice /\ [Next]_vars => BadgeIsThisDevice'
<1> SUFFICES ASSUME BadgeIsThisDevice, [Next]_vars PROVE BadgeIsThisDevice'
  OBVIOUS
<1>1. CASE stored' = stored
  BY <1>1 DEF BadgeIsThisDevice
<1>2. CASE stored' = Empty
  BY <1>2 DEF BadgeIsThisDevice, Empty
<1>3. ASSUME NEW t \in Tabs, Adopt(t) PROVE BadgeIsThisDevice'
  BY <1>3 DEF Adopt, BadgeIsThisDevice
<1>4. ASSUME NEW t \in Tabs, NEW f \in flight[t], Answered(t, f) PROVE BadgeIsThisDevice'
  BY <1>4 DEF Answered, BadgeIsThisDevice, Empty
<1>5. UNCHANGED vars \/ Elsewhere => stored' = stored
  BY DEF vars, Elsewhere
<1>6. ASSUME NEW t \in Tabs PROVE BootMe(t) \/ Me(t) \/ Revoke(t) \/ Logout(t) => stored' = stored
  BY DEF BootMe, Me, Revoke, Logout
<1>7. ASSUME NEW t \in Tabs PROVE Teardown(t) \/ BootFails(t) => stored' = Empty
  BY DEF Teardown, BootFails
<1>8. ASSUME NEW t \in Tabs, NEW f \in flight[t]
      PROVE  /\ Rotate(t, f) \/ Refuse(t, f) => stored' = stored
             /\ Lost(t, f) => stored' \in {stored, Empty}
  BY DEF Rotate, Refuse, Lost
<1>9. ASSUME NEW t \in Tabs
      PROVE  Open(t) \/ Close(t) \/ Fire(t) \/ Call(t) => stored' = stored
  BY DEF Open, Close, Fire, Call
<1>10. ASSUME NEW t \in Tabs
       PROVE  SignIn(t) \/ Verify(t) \/ SignUp(t) \/ SignInFails(t) => stored' = stored
  BY DEF SignIn, Verify, SignUp, SignInFails
<1>11. ASSUME NEW t \in Tabs
       PROVE  /\ SignOutEverywhere(t) \/ ResetPassword(t) => stored' = stored
              /\ (\E x \in live : RevokeSession(t, x)) => stored' = stored
  BY DEF SignOutEverywhere, ResetPassword, RevokeSession
<1>12. ASSUME NEW t \in Tabs, Progress(t) PROVE BadgeIsThisDevice'
  BY <1>1, <1>2, <1>3, <1>4, <1>6, <1>7, <1>8, <1>12 DEF Progress
<1>. QED
  BY <1>1, <1>2, <1>5, <1>6, <1>7, <1>8, <1>9, <1>10, <1>11, <1>12
     DEF Next, ChangePassword, DisableTwoFactor

-----------------------------------------------------------------------------
(* The tabs.  A closed tab has nothing under way; unless a sign-in or a      *)
(* logout crossed a refresh, the boot, the timer, the refresh and the forms  *)
(* take turns in a tab; and unless another tab signed in over it, a tab and  *)
(* its request are for the account that the browser stores.                  *)
Shut(t) ==
    tab[t].status = "closed" =>
        /\ tab[t].boot = "no" /\ tab[t].act = "none" /\ ~tab[t].timer /\ ~tab[t].waits
        /\ flight[t] = {} /\ tab[t].user = NoUser /\ tab[t].access = NoUser

Order(t) ==
    /\ tab[t].timer => tab[t].status = "auth" /\ ~tab[t].waits /\ tab[t].boot = "no"
    /\ tab[t].waits => tab[t].status = "auth" /\ flight[t] # {} /\ tab[t].boot = "no"
    /\ tab[t].act \in SigningIn => flight[t] = {}
    /\ tab[t].boot # "no" => tab[t].status = "loading" /\ tab[t].act \in {"none", "call"}
    /\ tab[t].boot = "me" => flight[t] = {} /\ tab[t].access # NoUser
    /\ tab[t].act = "me" => tab[t].access # NoUser
    /\ tab[t].status = "auth" => tab[t].user # NoUser
    /\ tab[t].status = "auth" => tab[t].timer \/ tab[t].waits \/ "lost" \in causes

Fits(t) ==
    /\ stored.refresh # NoToken =>
         /\ tab[t].access \in {NoUser, stored.refresh[1]}
         /\ tab[t].user \in {NoUser, stored.refresh[1]} \/ tab[t].act = "me"
    /\ \A f \in flight[t] : tab[t].user \in {NoUser, f.token[1]}
    /\ tab[t].status = "auth" /\ tab[t].access # NoUser /\ tab[t].act # "me"
         => tab[t].user = tab[t].access

Mixed == causes \cap {"switched", "crossed", "halfway"} # {}

Neat ==
    /\ \A t \in Tabs : Shut(t)
    /\ "crossed" \in causes \/ \A t \in Tabs : Order(t)
    /\ Mixed \/ \A t \in Tabs : Fits(t)

LEMMA InitNeat == Init => Neat
BY DEF Init, Neat, Shut, Order, Fits, Closed, Empty, SigningIn

(* A step of one tab, for the others: the store is theirs too. *)
LEMMA OneTab ==
    ASSUME Neat, NEW t \in Tabs, Alone(t),
           \A s \in Tabs \ {t} : flight'[s] = flight[s],
           causes \subseteq causes', Shut(t)',
           "crossed" \notin causes' => Order(t)',
           ~Mixed' => /\ Fits(t)'
                      /\ \/ stored'.refresh \in {stored.refresh, NoToken}
                         \/ \A s \in Tabs \ {t} :
                              {tab[s].user, tab[s].access} \subseteq {NoUser, stored'.refresh[1]}
    PROVE  Neat'
<1>1. ASSUME NEW s \in Tabs PROVE Shut(s)'
  BY DEF Neat, Shut, Alone
<1>2. ASSUME "crossed" \notin causes', NEW s \in Tabs PROVE Order(s)'
  <2>1. "crossed" \notin causes
    BY <1>2
  <2>2. s # t => tab'[s] = tab[s] /\ flight'[s] = flight[s]
    BY DEF Alone
  <2>3. Order(s)
    BY <2>1 DEF Neat
  <2>. QED
    BY <1>2, <2>2, <2>3 DEF Order
<1>3. ASSUME ~Mixed', NEW s \in Tabs PROVE Fits(s)'
  <2>1. Fits(s)
    BY <1>3 DEF Neat, Mixed
  <2>2. s # t => tab'[s] = tab[s] /\ flight'[s] = flight[s]
    BY DEF Alone
  <2>. QED
    BY <1>3, <2>1, <2>2 DEF Fits
<1>. QED
  BY <1>1, <1>2, <1>3 DEF Neat

(* What a step of tab t may take for granted. *)
LEMMA Neatly ==
    ASSUME Tokens, Neat, NEW t \in Tabs, causes \subseteq causes'
    PROVE  /\ Shut(t) /\ tab[t] \in Tab /\ Base
           /\ "crossed" \notin causes' => Order(t)
           /\ ~Mixed' => Fits(t) /\ Order(t)
BY DEF Tokens, Base, Neat, Mixed

LEMMA BootNeat ==
    ASSUME Tokens, Neat, NEW t \in Tabs, BootMe(t) \/ BootFails(t) \/ Me(t) PROVE Neat'
<1>0. causes \subseteq causes' /\ flight' = flight
  BY DEF BootMe, BootFails, Me, Blame
<1>a. Shut(t) /\ Base /\ ("crossed" \notin causes' => Order(t)) /\ (~Mixed' => Fits(t) /\ Order(t))
  BY <1>0, Neatly
<1>1. CASE BootMe(t)
  <2>1. /\ Alone(t) /\ stored' = stored /\ tab[t].boot = "me"
        /\ Has(tab'[t], "auth", tab[t].access, tab[t].access, "no", tab[t].access # NoUser,
               tab[t].waits, tab[t].act, tab[t].hold)
    BY <1>1, <1>a, BootMeEffect DEF BootMe
  <2>2. Shut(t)'
    BY <2>1 DEF Has, Shut
  <2>3. "crossed" \notin causes' => Order(t)'
    BY <1>0, <1>a, <2>1 DEF Has, Order
  <2>4. ~Mixed' => Fits(t)'
    BY <1>0, <1>a, <2>1 DEF Has, Order, Fits
  <2>. QED
    BY <1>0, <2>1, <2>2, <2>3, <2>4, OneTab
<1>2. CASE BootFails(t)
  <2>1. /\ Alone(t) /\ stored' = Empty /\ tab[t].boot = "me" /\ causes' = causes \cup {"lost"}
        /\ Has(tab'[t], "anon", tab[t].user, NoUser, "no", tab[t].timer, tab[t].waits,
               tab[t].act, tab[t].hold)
    BY <1>2, <1>a, BootFailsEffect DEF BootFails, Blame
  <2>2. Shut(t)'
    BY <2>1 DEF Has, Shut
  <2>3. "crossed" \notin causes' => Order(t)'
    BY <1>0, <1>a, <2>1 DEF Has, Order, SigningIn
  <2>4. ~Mixed' => Fits(t)'
    BY <1>0, <1>a, <2>1 DEF Has, Order, Fits, Empty
  <2>. QED
    BY <1>0, <2>1, <2>2, <2>3, <2>4, OneTab DEF Empty
<1>3. CASE Me(t)
  <2>1. /\ Alone(t) /\ stored' = stored /\ tab[t].act = "me"
        /\ Has(tab'[t], "auth", tab[t].access, tab[t].access, tab[t].boot, tab[t].access # NoUser,
               tab[t].waits, "none", tab[t].hold)
    BY <1>3, <1>a, MeEffect DEF Me, Act
  <2>2. Shut(t)'
    BY <2>1 DEF Has, Shut
  <2>3. "crossed" \notin causes' => Order(t)'
    BY <1>0, <1>a, <2>1 DEF Has, Order, SigningIn
  <2>4. ~Mixed' => Fits(t)'
    BY <1>0, <1>a, <2>1 DEF Has, Order, Fits, SigningIn
  <2>. QED
    BY <1>0, <2>1, <2>2, <2>3, <2>4, OneTab
<1>. QED
  BY <1>1, <1>2, <1>3

LEMMA CloseNeat == ASSUME Tokens, Neat, NEW t \in Tabs, Close(t) PROVE Neat'
<1>0. causes \subseteq causes' /\ stored' = stored
  BY DEF Close, Blame
<1>a. Base
  BY DEF Tokens
<1>1. Flies(t, {})
  BY <1>a, NoneFlies DEF Close
<1>2. /\ Alone(t)
      /\ Has(tab'[t], "closed", NoUser, NoUser, "no", FALSE, FALSE, "none", NoToken)
  BY <1>a, CloseEffect
<1>3. Shut(t)' /\ Order(t)' /\ Fits(t)'
  BY <1>1, <1>2 DEF Has, Flies, Shut, Order, Fits, SigningIn
<1>. QED
  BY <1>0, <1>1, <1>2, <1>3, OneTab DEF Flies

(* The steps that change nothing of the tab but what its user waits for. *)
LEMMA ActNeat ==
    ASSUME Tokens, Neat, NEW t \in Tabs, Alone(t), UNCHANGED <<stored, flight>>,
           causes \subseteq causes', NEW a, NEW h,
           LET r == tab[t] IN
           Has(tab'[t], r.status, r.user, r.access, r.boot, r.timer, r.waits, a, h),
           a # "me",
           tab[t].status # "closed",
           "crossed" \notin causes' => tab[t].boot = "no" /\ (a \in SigningIn => flight[t] = {}),
           ~Mixed' => tab[t].act # "me"
    PROVE  Neat'
<1>a. ("crossed" \notin causes' => Order(t)) /\ (~Mixed' => Fits(t) /\ Order(t))
  BY Neatly
<1>1. Shut(t)'
  BY DEF Has, Shut
<1>2. "crossed" \notin causes' => Order(t)'
  BY <1>a DEF Has, Order
<1>3. ~Mixed' => Fits(t)'
  BY <1>a DEF Has, Fits
<1>. QED
  BY <1>1, <1>2, <1>3, OneTab

LEMMA ActsNeat ==
    ASSUME Tokens, Neat, NEW t \in Tabs,
           \/ SignIn(t) \/ Verify(t) \/ SignUp(t) \/ SignInFails(t)
           \/ Logout(t) \/ Revoke(t) \/ SignOutEverywhere(t)
    PROVE  Neat'
<1>0. UNCHANGED <<stored, flight>> /\ causes \subseteq causes'
  BY DEF SignIn, Verify, SignUp, SignInFails, Logout, Revoke, SignOutEverywhere, Crossed, Blame
<1>a. Shut(t) /\ Base /\ ("crossed" \notin causes' => Order(t)) /\ (~Mixed' => Fits(t) /\ Order(t))
  BY <1>0, Neatly
<1>1. CASE SignIn(t) \/ Verify(t) \/ SignUp(t)
  <2>1. PICK a \in {"none", "signin", "signup"} :
          /\ Alone(t) /\ tab[t].act = "none"
          /\ LET r == tab[t] IN
             Has(tab'[t], r.status, r.user, r.access, r.boot, r.timer, r.waits, a, r.hold)
    BY <1>1, <1>a, FormEffect
  <2>2. tab[t].status # "closed" /\ ("crossed" \notin causes' => tab[t].boot = "no" /\ flight[t] = {})
    BY <1>1 DEF SignIn, Verify, SignUp, Crossed
  <2>. QED
    BY <1>0, <2>1, <2>2, ActNeat
<1>2. CASE SignInFails(t)
  <2>1. /\ tab[t].act \in SigningIn /\ tab' = [tab EXCEPT ![t].act = "none"]
        /\ tab[t].act = "me" => "halfway" \in causes'
    BY <1>2 DEF SignInFails, Blame, Act
  <2>2. /\ Alone(t)
        /\ LET r == tab[t] IN
           Has(tab'[t], r.status, r.user, r.access, r.boot, r.timer, r.waits, "none", r.hold)
    BY <1>a, <2>1, ActPut
  <2>3. tab[t].status # "closed" /\ ("crossed" \notin causes' => tab[t].boot = "no")
    BY <1>a, <2>1 DEF Shut, Order, SigningIn
  <2>4. ~Mixed' => tab[t].act # "me"
    BY <2>1 DEF Mixed
  <2>. QED
    BY <1>0, <2>2, <2>3, <2>4, ActNeat DEF SigningIn
<1>3. CASE Logout(t)
  <2>1. tab[t].status = "auth" /\ tab[t].act \in {"none", "leaving"}
    BY <1>3 DEF Logout, Guarded, SignOut, Act
  <2>2. PICK a \in {"revoked", "logout"} :
          a = IF stored.refresh = NoToken THEN "revoked" ELSE "logout"
    OBVIOUS
  <2>3. /\ Alone(t)
        /\ LET r == tab[t] IN
           Has(tab'[t], r.status, r.user, r.access, r.boot, r.timer, r.waits, a, stored.refresh)
    BY <1>3, <1>a, <2>2, LogoutEffect
  <2>4. tab[t].status # "closed" /\ ("crossed" \notin causes' => tab[t].boot = "no")
    BY <1>a, <2>1 DEF Order
  <2>. QED
    BY <1>0, <2>1, <2>3, <2>4, ActNeat DEF SigningIn
<1>4. CASE Revoke(t)
  <2>1. tab[t].act = "logout" /\ tab' = [tab EXCEPT ![t].act = "revoked"]
    BY <1>4 DEF Revoke, Act
  <2>2. /\ Alone(t)
        /\ LET r == tab[t] IN
           Has(tab'[t], r.status, r.user, r.access, r.boot, r.timer, r.waits, "revoked", r.hold)
    BY <1>a, <2>1, ActPut
  <2>3. tab[t].status # "closed" /\ ("crossed" \notin causes' => tab[t].boot = "no")
    BY <1>a, <2>1 DEF Shut, Order
  <2>4. tab[t].act # "me" /\ "revoked" # "me" /\ "revoked" \notin SigningIn
    BY <2>1 DEF SigningIn
  <2>. QED
    BY <1>0, <2>2, <2>3, <2>4, ActNeat
<1>5. CASE SignOutEverywhere(t)
  <2>1. /\ tab[t].status = "auth" /\ tab[t].act = "none"
        /\ tab' = [tab EXCEPT ![t].act = "leaving"]
    BY <1>5 DEF SignOutEverywhere, Guarded, Act
  <2>2. /\ Alone(t)
        /\ LET r == tab[t] IN
           Has(tab'[t], r.status, r.user, r.access, r.boot, r.timer, r.waits, "leaving", r.hold)
    BY <1>a, <2>1, ActPut
  <2>3. tab[t].status # "closed" /\ ("crossed" \notin causes' => tab[t].boot = "no")
    BY <1>a, <2>1 DEF Order
  <2>. QED
    BY <1>0, <2>1, <2>2, <2>3, ActNeat DEF SigningIn
<1>. QED
  BY <1>1, <1>2, <1>3, <1>4, <1>5

LEMMA TeardownNeat == ASSUME Tokens, Neat, NEW t \in Tabs, Teardown(t) PROVE Neat'
<1>0. /\ causes \subseteq causes' /\ flight' = flight /\ stored' = Empty /\ tab[t].act = "revoked"
      /\ flight[t] # {} => "crossed" \in causes'
  BY DEF Teardown, Act
<1>a. Base /\ ("crossed" \notin causes' => Order(t)) /\ (~Mixed' => Fits(t) /\ Order(t))
  BY <1>0, Neatly
<1>1. /\ Alone(t)
      /\ Has(tab'[t], "anon", NoUser, NoUser, tab[t].boot, FALSE, tab[t].waits, "none", NoToken)
  BY <1>a, TeardownEffect
<1>2. Shut(t)'
  BY <1>1 DEF Has, Shut
<1>3. "crossed" \notin causes' => Order(t)'
  BY <1>0, <1>a, <1>1 DEF Has, Order, SigningIn
<1>4. ~Mixed' => Fits(t)'
  BY <1>0, <1>a, <1>1 DEF Has, Fits, Empty
<1>. QED
  BY <1>0, <1>1, <1>2, <1>3, <1>4, OneTab DEF Empty

LEMMA AdoptNeat == ASSUME Tokens, Neat, NEW t \in Tabs, Adopt(t) PROVE Neat'
<1>1. PICK u \in Account :
        /\ stored' = [refresh |-> New(u), session |-> IF Act(t, "signin") THEN New(u) ELSE NoToken]
        /\ causes' = causes \cup {c \in {"replaced"} : stored.refresh # NoToken}
                            \cup {c \in {"switched"} : Apart(t, u)}
        /\ tab' = [tab EXCEPT ![t] = [@ EXCEPT !.act = "me", !.access = u]]
  BY DEF Adopt
<1>2. u \in Users /\ u # NoUser
  BY AccountType, ClientAuthAssumption
<1>3. stored'.refresh = New(u) /\ stored'.refresh[1] = u
  BY <1>1 DEF New
<1>4. /\ causes \subseteq causes' /\ flight' = flight /\ tab[t].act \in {"signin", "signup"}
      /\ Apart(t, u) => "switched" \in causes'
  BY <1>1 DEF Adopt
<1>a. /\ Shut(t) /\ Base
      /\ ("crossed" \notin causes' => Order(t)) /\ (~Mixed' => Fits(t) /\ Order(t))
  BY <1>4, Neatly
<1>5. /\ Alone(t)
      /\ LET r == tab[t] IN
         Has(tab'[t], r.status, r.user, u, r.boot, r.timer, r.waits, "me", r.hold)
  BY <1>a, <1>1, <1>2, AdoptPut
<1>6. Shut(t)'
  BY <1>a, <1>4, <1>5 DEF Has, Shut
<1>7. "crossed" \notin causes' => Order(t)'
  BY <1>a, <1>2, <1>4, <1>5 DEF Has, Order, SigningIn
<1>8. ~Mixed' => Fits(t)'
  BY <1>a, <1>3, <1>4, <1>5 DEF Has, Fits, Order, SigningIn
<1>9. ~Mixed' => \A s \in Tabs \ {t} :
                   {tab[s].user, tab[s].access} \subseteq {NoUser, stored'.refresh[1]}
  BY <1>3, <1>4 DEF Mixed, Apart
<1>. QED
  BY <1>4, <1>5, <1>6, <1>7, <1>8, <1>9, OneTab

(* A caller of refreshTokens, whose request is for the stored token. *)
LEMMA CallersNeat ==
    ASSUME Tokens, Neat, NEW t \in Tabs, Open(t) \/ Fire(t) \/ Call(t) PROVE Neat'
<1>0. stored' = stored /\ causes \subseteq causes'
  BY DEF Open, Fire, Call, RefreshTokens, Latch, Send
<1>a. /\ Shut(t) /\ Base /\ tab[t] \in Tab
      /\ ("crossed" \notin causes' => Order(t)) /\ (~Mixed' => Fits(t) /\ Order(t))
  BY <1>0, Neatly
<1>b. NoUser \notin Users
  BY ClientAuthAssumption
<1>3. /\ Open(t) => tab[t].status = "closed"
      /\ Fire(t) => tab[t].timer
      /\ Call(t) => tab[t].status # "closed" /\ tab[t].act = "none"
  BY DEF Open, Fire, Call, Guarded, Act
<1>c. CASE Unsigned(t)
  <2>1. Alone(t) /\ flight' = flight /\ tab[t].status = "closed"
    BY <1>c DEF Unsigned
  <2>2. Shut(t)' /\ Order(t)' /\ Fits(t)'
    BY <1>a, <1>c, <2>1 DEF Unsigned, Has, Shut, Order, Fits, SigningIn
  <2>. QED
    BY <1>0, <2>1, <2>2, OneTab
<1>. SUFFICES ASSUME ~Unsigned(t) PROVE Neat'
  BY <1>c
<1>1. PICK r \in Tab :
        /\ RefreshTokens(t, r)
        /\ LET m == tab[t] IN
           \/ /\ Open(t)
              /\ Has(r, "loading", m.user, m.access, "refresh", m.timer, m.waits, m.act, m.hold)
           \/ /\ Fire(t)
              /\ Has(r, m.status, m.user, m.access, m.boot, FALSE, TRUE, m.act, m.hold)
           \/ /\ Call(t)
              /\ Has(r, m.status, m.user, m.access, m.boot, m.timer, m.waits, "call", m.hold)
  BY <1>a, OpenCalls, FireCalls, CallCalls
<1>2. Alone(t) /\ (Joined(t, r) \/ Denied(t, r) \/ Launched(t, r))
  BY <1>a, <1>1, RefreshEffect
<1>. DEFINE a == After(r, "no")
<1>4. Has(a, IF r.boot = "refresh" \/ r.waits THEN "anon" ELSE r.status,
             IF r.waits THEN NoUser ELSE r.user, r.access,
             IF r.boot # "refresh" THEN r.boot ELSE "no",
             r.timer, FALSE, IF r.act = "call" THEN "none" ELSE r.act, r.hold)
  BY AfterEffect DEF Has
<1>. HIDE DEF a
<1>5. CASE Joined(t, r)
  <2>1. tab'[t] = r /\ flight' = flight /\ flight[t] # {} /\ causes' = causes
    BY <1>5 DEF Joined
  <2>2. Shut(t)'
    BY <1>a, <1>1, <1>3, <2>1 DEF Has, Shut
  <2>3. "crossed" \notin causes' => Order(t)'
    BY <1>a, <1>1, <1>3, <2>1 DEF Has, Shut, Order, SigningIn
  <2>4. ~Mixed' => Fits(t)'
    BY <1>0, <1>a, <1>1, <1>3, <2>1 DEF Has, Shut, Fits
  <2>. QED
    BY <1>0, <1>2, <2>1, <2>2, <2>3, <2>4, OneTab
<1>6. CASE Denied(t, r)
  <2>1. tab'[t] = a /\ flight' = flight /\ flight[t] = {} /\ causes' = causes
    BY <1>6 DEF Denied, a
  <2>2. Shut(t)'
    BY <1>a, <1>1, <1>3, <1>4, <2>1 DEF Has, Shut
  <2>3. "crossed" \notin causes' => Order(t)'
    BY <1>a, <1>1, <1>3, <1>4, <2>1 DEF Has, Shut, Order, SigningIn
  <2>4. ~Mixed' => Fits(t)'
    BY <1>0, <1>a, <1>1, <1>3, <1>4, <2>1 DEF Has, Shut, Fits, Order
  <2>. QED
    BY <1>0, <1>2, <2>1, <2>2, <2>3, <2>4, OneTab
<1>7. CASE Launched(t, r)
  <2>1. PICK g \in Flight : g.token = stored.refresh /\ flight' = [flight EXCEPT ![t] = {g}]
    BY <1>7 DEF Launched
  <2>2. /\ tab'[t] = r /\ stored.refresh # NoToken
        /\ tab[t].act \in SigningIn \/ tab[t].boot = "me" => "crossed" \in causes'
    BY <1>7, ClientAuthAssumption DEF Launched, Token
  <2>3. Flies(t, {g})
    BY <1>a, <2>1, OneFlies
  <2>4. Shut(t)'
    BY <1>a, <1>1, <1>3, <2>2 DEF Has, Shut
  <2>5. "crossed" \notin causes' => Order(t)'
    BY <1>0, <1>a, <1>1, <1>3, <2>2, <2>3 DEF Has, Shut, Order, Flies, SigningIn
  <2>6. ~Mixed' => Fits(t)'
    <3>1. ~Mixed' => tab[t].act # "me"
      BY <2>2 DEF SigningIn, Mixed
    <3>. QED
      BY <1>0, <1>a, <1>1, <1>3, <2>1, <2>2, <2>3, <3>1 DEF Has, Shut, Fits, Flies
  <2>. QED
    BY <1>0, <1>2, <2>3, <2>4, <2>5, <2>6, OneTab DEF Flies
<1>. QED
  BY <1>2, <1>5, <1>6, <1>7

LEMMA ServerNeat ==
    ASSUME Tokens, Neat, NEW t \in Tabs, NEW f \in flight[t], Rotate(t, f) \/ Refuse(t, f)
    PROVE  Neat'
<1>a. Base /\ f \in Flight /\ flight[t] = {f}
  BY DEF Tokens, Base
<1>1. PICK g \in Flight : /\ flight' = [flight EXCEPT ![t] = {g}] /\ g.token = f.token
                          /\ UNCHANGED <<stored, tab>> /\ causes \subseteq causes'
  <2>1. CASE Rotate(t, f)
    <3>1. t \in Sent /\ f.token[1] \in Users
      BY <1>a, <2>1 DEF Rotate, Sent, Flight, Token
    <3>2. New(f.token[1]) \in Token
      BY <3>1, Novel
    <3>. QED
      BY <1>a, <2>1, <3>2, RotateEffect
  <2>2. CASE Refuse(t, f)
    BY <1>a, <2>2, RefuseEffect
  <2>. QED
    BY <2>1, <2>2
<1>2. Flies(t, {g})
  BY <1>a, <1>1, OneFlies
<1>3. Shut(t) /\ ("crossed" \notin causes' => Order(t)) /\ (~Mixed' => Fits(t) /\ Order(t))
  BY <1>1, Neatly
<1>4. Alone(t)
  BY <1>1, <1>a DEF Alone, Base
<1>5. Shut(t)'
  BY <1>a, <1>1, <1>3 DEF Shut
<1>6. "crossed" \notin causes' => Order(t)'
  BY <1>a, <1>1, <1>2, <1>3 DEF Order, Flies
<1>7. ~Mixed' => Fits(t)'
  BY <1>a, <1>1, <1>2, <1>3 DEF Fits, Flies
<1>. QED
  BY <1>1, <1>2, <1>4, <1>5, <1>6, <1>7, OneTab DEF Flies

LEMMA AnsweredNeat ==
    ASSUME Tokens, Neat, NEW t \in Tabs, NEW f \in flight[t], Answered(t, f) PROVE Neat'
<1>c. (f.pc = "ok" => f.got \in Token /\ f.got[1] = f.token[1]) /\ Base
  BY DEF Tokens, Paired
<1>1. /\ f \in Flight /\ flight[t] = {f}
      /\ flight' = [flight EXCEPT ![t] = {}] /\ Alone(t)
      /\ causes' = causes \cup Overwritten(t, f) \cup Emptied
      /\ \/ /\ f.pc = "ok" /\ stored' = [refresh |-> f.got, session |-> f.got]
            /\ Ended(tab'[t], tab[t], f.got[1], "ok")
         \/ /\ f.pc = "no" /\ stored' = Empty
            /\ Ended(tab'[t], tab[t], NoUser, "no")
  BY <1>c, AnsweredEffect
<1>2. /\ Shut(t) /\ causes \subseteq causes'
      /\ ("crossed" \notin causes' => Order(t)) /\ (~Mixed' => Fits(t) /\ Order(t))
  BY <1>1, Neatly
<1>3. Flies(t, {})
  BY <1>c, <1>1, NoneFlies
<1>4. CASE f.pc = "ok"
  <2>1. Ended(tab'[t], tab[t], f.got[1], "ok") /\ stored'.refresh = f.got
    BY <1>1, <1>4
  <2>2. f.got[1] \in Users /\ f.got[1] # NoUser
    BY <1>c, <1>4, ClientAuthAssumption DEF Token
  <2>3. Shut(t)'
    BY <1>1, <1>2, <2>1 DEF Ended, Has, Shut
  <2>4. "crossed" \notin causes' => Order(t)'
    BY <1>1, <1>2, <1>3, <2>1, <2>2 DEF Ended, Has, Order, Flies, SigningIn
  <2>5. ~Mixed' => Fits(t)'
    BY <1>c, <1>1, <1>2, <1>3, <1>4, <2>1, <2>2 DEF Ended, Has, Order, Fits, Flies
  <2>6. ~Mixed' => \A s \in Tabs \ {t} :
                     {tab[s].user, tab[s].access} \subseteq {NoUser, stored'.refresh[1]}
    BY <1>1, <1>4, <2>1 DEF Mixed, Overwritten, Apart
  <2>. QED
    BY <1>1, <1>2, <1>3, <2>3, <2>4, <2>5, <2>6, OneTab DEF Flies
<1>5. CASE f.pc = "no"
  <2>1. Ended(tab'[t], tab[t], NoUser, "no") /\ stored'.refresh = NoToken
    BY <1>1, <1>5 DEF Empty
  <2>3. Shut(t)'
    BY <1>1, <1>2, <2>1 DEF Ended, Has, Shut
  <2>4. "crossed" \notin causes' => Order(t)'
    BY <1>1, <1>2, <1>3, <2>1 DEF Ended, Has, Order, Flies, SigningIn
  <2>5. ~Mixed' => Fits(t)'
    BY <1>3, <2>1 DEF Ended, Has, Fits, Flies
  <2>. QED
    BY <1>1, <1>2, <1>3, <2>1, <2>3, <2>4, <2>5, OneTab DEF Flies
<1>. QED
  BY <1>1, <1>4, <1>5

LEMMA LostNeat ==
    ASSUME Tokens, Neat, NEW t \in Tabs, NEW f \in flight[t], Lost(t, f) PROVE Neat'
<1>c. Base
  BY DEF Tokens
<1>1. /\ flight[t] = {f} /\ flight' = [flight EXCEPT ![t] = {}] /\ Alone(t)
      /\ causes' = causes \cup {"lost"} /\ stored' \in {stored, Empty}
  BY <1>c, LostEffect
<1>2. PICK x \in Users \cup {NoUser} :
        /\ Ended(tab'[t], tab[t], x, "error")
        /\ x = tab[t].access \/ (tab[t].boot = "refresh" /\ x = NoUser)
  BY <1>c, LostEffect
<1>3. /\ Shut(t) /\ causes \subseteq causes' /\ stored'.refresh \in {stored.refresh, NoToken}
      /\ ("crossed" \notin causes' => Order(t)) /\ (~Mixed' => Fits(t) /\ Order(t))
  BY <1>1, Neatly DEF Empty
<1>4. Flies(t, {})
  BY <1>c, <1>1, NoneFlies
<1>5. Shut(t)'
  BY <1>1, <1>2, <1>3 DEF Ended, Has, Shut
<1>6. "crossed" \notin causes' => Order(t)'
  BY <1>1, <1>2, <1>3, <1>4 DEF Ended, Has, Order, Flies, SigningIn
<1>7. ~Mixed' => Fits(t)'
  BY <1>1, <1>2, <1>3, <1>4 DEF Ended, Has, Order, Fits, Flies
<1>. QED
  BY <1>1, <1>3, <1>4, <1>5, <1>6, <1>7, OneTab DEF Flies

LEMMA NeatStep == Tokens /\ Neat /\ [Next]_vars => Neat'
<1> SUFFICES ASSUME Tokens, Neat, [Next]_vars PROVE Neat'
  OBVIOUS
<1>1. ASSUME UNCHANGED <<stored, tab, flight>>, causes \subseteq causes' PROVE Neat'
  <2>1. \A s \in Tabs : Shut(s)'
    BY <1>1 DEF Neat, Shut
  <2>2. "crossed" \notin causes' => \A s \in Tabs : Order(s)'
    BY <1>1 DEF Neat, Order
  <2>3. ~Mixed' => \A s \in Tabs : Fits(s)'
    BY <1>1 DEF Neat, Fits, Mixed
  <2>. QED
    BY <2>1, <2>2, <2>3 DEF Neat
<1>2. CASE UNCHANGED vars
  BY <1>1, <1>2 DEF vars
<1>3. CASE \/ Elsewhere
           \/ \E t \in Tabs : ResetPassword(t) \/ \E x \in live : RevokeSession(t, x)
  BY <1>1, <1>3 DEF Elsewhere, ResetPassword, RevokeSession, Blame
<1>4. ASSUME NEW t \in Tabs, Progress(t) PROVE Neat'
  BY <1>4, BootNeat, AdoptNeat, ActsNeat, TeardownNeat, ServerNeat, AnsweredNeat DEF Progress
<1>. QED
  BY <1>2, <1>3, <1>4, BootNeat, CloseNeat, CallersNeat, ActsNeat, ServerNeat, LostNeat
     DEF Next, ChangePassword, DisableTwoFactor

-----------------------------------------------------------------------------
(* The session that a tab goes on with.  While no request was lost and no    *)
(* session was cleared under such a tab, there is a token in the store, so   *)
(* that its timer finds one, and no tab is left with a settled promise.      *)
Stranded == causes \cap {"lost", "emptied"} # {}

Fed ==
    /\ latched \subseteq Tabs
    /\ \/ Stranded
       \/ latched = {} /\ \A t \in Tabs : Uses(tab[t]) => stored.refresh # NoToken

(* A step after which nobody uses the session who did not use it before. *)
LEMMA FewerUse ==
    ASSUME Base, Fed, causes \subseteq causes', latched' \subseteq latched,
           stored'.refresh # NoToken \/ stored'.refresh = stored.refresh,
           \A s \in Tabs : Uses(tab'[s]) => Uses(tab[s])
    PROVE  Fed'
BY DEF Fed, Stranded

LEMMA TabUses ==
    ASSUME Base, Fed, causes \subseteq causes', latched' \subseteq latched,
           stored'.refresh # NoToken \/ stored'.refresh = stored.refresh,
           NEW t \in Tabs, Alone(t), Uses(tab'[t]) => Uses(tab[t])
    PROVE  Fed'
<1>1. \A s \in Tabs : Uses(tab'[s]) => Uses(tab[s])
  BY DEF Alone
<1>. QED
  BY <1>1, FewerUse

LEMMA FedCallers ==
    ASSUME Tokens, Fed, causes \subseteq causes', NEW t \in Tabs, Open(t) \/ Fire(t) \/ Call(t)
    PROVE  Fed'
<1>a. Base
  BY DEF Tokens
<1>0. stored' = stored
  BY DEF Open, Fire, Call
<1>1. CASE Unsigned(t)
  BY <1>a, <1>0, <1>1, TabUses DEF Unsigned, Has, Uses
<1>2. ASSUME NEW r \in Tab, RefreshTokens(t, r), Uses(r) => Uses(tab[t]),
             stored.refresh # NoToken \/ Uses(tab[t])
      PROVE  Fed'
  <2>1. Alone(t) /\ (Joined(t, r) \/ Denied(t, r) \/ Launched(t, r))
    BY <1>a, <1>2, RefreshEffect
  <2>2. CASE Joined(t, r) \/ Launched(t, r)
    BY <1>a, <1>0, <1>2, <2>1, <2>2, TabUses DEF Joined, Launched
  <2>3. CASE Denied(t, r)
    <3>1. Stranded
      BY <1>2, <2>3 DEF Fed, Denied
    <3>. QED
      BY <3>1, <2>3 DEF Fed, Stranded, Denied
  <2>. QED
    BY <2>1, <2>2, <2>3
<1>3. CASE Open(t)
  BY <1>a, <1>1, <1>2, <1>3, OpenCalls DEF Has, Uses
<1>4. CASE Fire(t)
  <2>1. Uses(tab[t])
    BY <1>4 DEF Fire, Uses
  <2>. QED
    BY <1>a, <1>2, <1>4, <2>1, FireCalls
<1>5. CASE Call(t)
  <2>1. stored.refresh # NoToken
    BY <1>5 DEF Call
  <2>. QED
    BY <1>a, <1>2, <1>5, <2>1, CallCalls DEF Has, Uses
<1>. QED
  BY <1>3, <1>4, <1>5

(* The steps that clear the session, and those that leave the store alone. *)
LEMMA FedEmptied ==
    ASSUME Fed, causes \subseteq causes', latched' = latched, stored' = Empty, Emptied \subseteq causes'
    PROVE  Fed'
<1>1. CASE \E s \in Tabs : Uses(tab'[s])
  BY <1>1 DEF Emptied, Fed, Stranded
<1>2. CASE ~\E s \in Tabs : Uses(tab'[s])
  BY <1>2 DEF Fed, Stranded
<1>. QED
  BY <1>1, <1>2

LEMMA FedAnswered ==
    ASSUME Tokens, Fed, causes \subseteq causes', NEW t \in Tabs, NEW f \in flight[t], Answered(t, f)
    PROVE  Fed'
<1>c. Base /\ (f.pc = "ok" => f.got \in Token /\ f.got # NoToken)
  BY ClientAuthAssumption DEF Tokens, Paired, Token
<1>1. latched' = latched
  BY DEF Answered
<1>2. CASE f.pc = "ok"
  <2>1. stored'.refresh # NoToken
    BY <1>2, <1>c DEF Answered
  <2>. QED
    BY <1>1, <2>1 DEF Fed, Stranded
<1>3. CASE f.pc # "ok"
  <2>1. stored' = Empty /\ Emptied \subseteq causes'
    BY <1>3 DEF Answered
  <2>. QED
    BY <1>1, <2>1, FedEmptied
<1>. QED
  BY <1>2, <1>3

LEMMA FedStep == Tokens /\ Fed /\ [Next]_vars => Fed'
<1> SUFFICES ASSUME Tokens, Fed, [Next]_vars PROVE Fed'
  OBVIOUS
<1>0. causes \subseteq causes'
  BY StepSeen, SeenGrows
<1>a. Base
  BY DEF Tokens
<1>1. ASSUME UNCHANGED <<stored, tab, latched>> PROVE Fed'
  BY <1>0, <1>1 DEF Fed, Stranded
<1>2. CASE UNCHANGED vars
  BY <1>1, <1>2 DEF vars
<1>3. CASE \/ Elsewhere
           \/ \E t \in Tabs : ResetPassword(t) \/ \E x \in live : RevokeSession(t, x)
  BY <1>1, <1>3 DEF Elsewhere, ResetPassword, RevokeSession
<1>4. ASSUME NEW t \in Tabs, NEW f \in flight[t], Rotate(t, f) \/ Refuse(t, f) PROVE Fed'
  BY <1>1, <1>4 DEF Rotate, Refuse
<1>5. ASSUME NEW t \in Tabs, (\E f \in flight[t] : Lost(t, f)) \/ BootFails(t) PROVE Fed'
  BY <1>5 DEF Lost, BootFails, Blame, Fed, Stranded
<1>6. ASSUME NEW t \in Tabs, BootMe(t) PROVE Fed'
  <2>1. stored' = stored /\ latched' = latched /\ Uses(tab[t])
    BY <1>6 DEF BootMe, Uses
  <2>. QED
    BY <1>0, <1>a, <1>6, <2>1, BootMeEffect, TabUses
<1>7. ASSUME NEW t \in Tabs, Me(t) PROVE Fed'
  <2>1. stored' = stored /\ latched' = latched /\ Uses(tab[t])
    BY <1>7 DEF Me, Uses, Act
  <2>. QED
    BY <1>0, <1>a, <1>7, <2>1, MeEffect, TabUses
<1>8. ASSUME NEW t \in Tabs, Adopt(t) PROVE Fed'
  <2>1. latched' = latched /\ t \in Signing
    BY <1>8 DEF Adopt, Signing
  <2>2. PICK u \in Account : stored'.refresh = New(u)
    BY <1>8 DEF Adopt
  <2>3. New(u) \in Token /\ New(u) # NoToken
    BY <2>1, <2>2, AccountType, Novel, ClientAuthAssumption DEF Token
  <2>. QED
    BY <1>0, <2>1, <2>2, <2>3 DEF Fed, Stranded
<1>9. ASSUME NEW t \in Tabs, Close(t) PROVE Fed'
  <2>1. stored' = stored /\ latched' \subseteq latched
    BY <1>9 DEF Close
  <2>2. Alone(t) /\ ~Uses(tab'[t])
    BY <1>9, <1>a, CloseEffect DEF Has, Uses
  <2>. QED
    BY <1>0, <1>a, <2>1, <2>2, TabUses
<1>10. ASSUME NEW t \in Tabs, SignIn(t) \/ Verify(t) \/ SignUp(t) PROVE Fed'
  <2>1. stored' = stored /\ latched' = latched
    BY <1>10 DEF SignIn, Verify, SignUp
  <2>2. Alone(t) /\ (Uses(tab'[t]) => Uses(tab[t]))
    BY <1>10, <1>a, FormEffect DEF Has, Uses
  <2>. QED
    BY <1>0, <1>a, <2>1, <2>2, TabUses
<1>11. ASSUME NEW t \in Tabs, SignInFails(t) \/ Revoke(t) \/ SignOutEverywhere(t) PROVE Fed'
  <2>1. stored' = stored /\ latched' = latched
    BY <1>11 DEF SignInFails, Revoke, SignOutEverywhere
  <2>2. PICK a \in {"none", "revoked", "leaving"} : tab' = [tab EXCEPT ![t].act = a]
    BY <1>11 DEF SignInFails, Revoke, SignOutEverywhere
  <2>3. Alone(t) /\ (Uses(tab'[t]) => Uses(tab[t]))
    BY <1>a, <2>2, ActPut DEF Has, Uses
  <2>. QED
    BY <1>0, <1>a, <2>1, <2>3, TabUses
<1>12. ASSUME NEW t \in Tabs, Logout(t) PROVE Fed'
  <2>1. stored' = stored /\ latched' = latched
    BY <1>12 DEF Logout
  <2>2. Alone(t) /\ (Uses(tab'[t]) => Uses(tab[t]))
    BY <1>12, <1>a, LogoutEffect DEF Has, Uses
  <2>. QED
    BY <1>0, <1>a, <2>1, <2>2, TabUses
<1>13. ASSUME NEW t \in Tabs, Teardown(t) PROVE Fed'
  BY <1>0, <1>13, FedEmptied DEF Teardown
<1>14. ASSUME NEW t \in Tabs, Progress(t) PROVE Fed'
  BY <1>0, <1>4, <1>6, <1>7, <1>8, <1>11, <1>12, <1>13, <1>14, FedAnswered DEF Progress
<1>. QED
  BY <1>0, <1>2, <1>3, <1>4, <1>5, <1>9, <1>10, <1>11, <1>12, <1>14, FedCallers
     DEF Next, ChangePassword, DisableTwoFactor

-----------------------------------------------------------------------------
(* The inductive invariant. *)
AuthInv == Tokens /\ Genuine /\ Spent /\ BadgeIsThisDevice /\ Neat /\ Fed

LEMMA InitInv == Init => AuthInv
<1> SUFFICES ASSUME Init PROVE AuthInv
  OBVIOUS
<1>1. Genuine
  BY DEF Init, Genuine, Rightful, Empty
<1>2. Spent
  BY DEF Init, Spent, Kept, Closed
<1>3. BadgeIsThisDevice
  BY DEF Init, BadgeIsThisDevice, Empty
<1>4. Fed
  BY DEF Init, Fed, Uses, Closed
<1>. QED
  BY <1>1, <1>2, <1>3, <1>4, InitTokens, InitNeat DEF AuthInv

LEMMA StepInv == AuthInv /\ [Next]_vars => AuthInv'
BY TokensStep, GenuineStep, SpentStep, BadgeStep, NeatStep, FedStep DEF AuthInv

LEMMA Invariance == Spec => []AuthInv
BY InitInv, StepInv, PTL DEF Spec

-----------------------------------------------------------------------------
(* Every state is well typed, and no tab ever has two refreshes of its own   *)
(* under way: refreshInFlight is one promise that every caller awaits.       *)
THEOREM TypeCorrect == Spec => []TypeOK
<1>1. AuthInv => TypeOK
  <2> SUFFICES ASSUME AuthInv PROVE TypeOK
    OBVIOUS
  <2>1. Base /\ latched \subseteq Tabs
    BY DEF AuthInv, Tokens, Fed
  <2>2. ASSUME NEW t \in Tabs PROVE flight[t] \subseteq Flight /\ Cardinality(flight[t]) <= 1
    <3>1. flight[t] \subseteq Flight
      BY <2>1 DEF Base
    <3>2. CASE flight[t] = {}
      BY <3>1, <3>2, FS_EmptySet
    <3>3. ASSUME NEW f \in flight[t] PROVE Cardinality(flight[t]) <= 1
      <4>1. flight[t] = {f}
        BY <2>1 DEF Base
      <4>. QED
        BY <4>1, FS_Singleton
    <3>. QED
      BY <3>1, <3>2, <3>3
  <2>. QED
    BY <2>1, <2>2 DEF Base, TypeOK, Causes
<1>. QED
  BY <1>1, Invariance, PTL

(* The server takes a refresh token of this browser for a stolen one, and    *)
(* revokes every session of its account, only after something the client     *)
(* does not guard against: two tabs that refresh at once, a refresh that     *)
(* crosses a logout, a request that was lost or cut short, a revocation.     *)
THEOREM NoAlarmWithoutCause == Spec => []NoFalseAlarm
<1>1. AuthInv => NoFalseAlarm
  BY DEF AuthInv, Genuine, Excused, NoFalseAlarm
<1>. QED
  BY <1>1, Invariance, PTL

(* The session id in localStorage is that of the token beside it, or none;   *)
(* and every session the server keeps is held by the store, by a logout or   *)
(* by a refresh under way, unless a listed cause threw its token away.       *)
THEOREM StoreSafe == Spec => []StoreSafety
<1>1. AuthInv => StoreSafety
  <2> SUFFICES ASSUME AuthInv PROVE SessionsAreHeld
    BY DEF AuthInv, StoreSafety
  <2>. QED
    BY DEF AuthInv, Spent, Thrown, Kept, Known, SessionsAreHeld
<1>. QED
  BY <1>1, Invariance, PTL

(* A tab that signed out has no timer that would bring the session back, a   *)
(* signed-in tab shows the account its requests are made for and has a       *)
(* refresh planned that will be sent, unless the listed races happened.      *)
THEOREM TabSafe == Spec => []TabSafety
<1>1. AuthInv => TabSafety
  <2> SUFFICES ASSUME AuthInv PROVE TabSafety
    OBVIOUS
  <2>1. "crossed" \notin causes => \A t \in Tabs : Order(t)
    BY DEF AuthInv, Neat
  <2>2. causes \cap {"switched", "crossed", "halfway"} = {} => \A t \in Tabs : Fits(t)
    BY DEF AuthInv, Neat, Mixed
  <2>3. OutIsOut
    BY <2>1 DEF OutIsOut, Order
  <2>4. ShowsWhoItIs
    BY <2>2 DEF ShowsWhoItIs, Fits, Idle
  <2>5. RefreshIsPlanned
    BY <2>1 DEF AuthInv, Fed, Stranded, RefreshIsPlanned, Order
  <2>. QED
    BY <2>3, <2>4, <2>5 DEF TabSafety
<1>. QED
  BY <1>1, Invariance, PTL

-----------------------------------------------------------------------------
(* Keys, pages, and what the reducers make of them *)
LEMMA KeyFacts ==
    /\ \A k \in Key : /\ k = <<k[1], k[2]>> /\ k[2] \in 1..MaxPage
                      /\ k[1] \in Paged \cup Panels \cup {"task"}
                      /\ k[1] \notin Paged => k[2] = 1
    /\ \A l \in Paged, p \in 1..MaxPage : <<l, p>> \in Key
    /\ Trash \subseteq Key /\ \A k \in Key : k \in Trash <=> k[1] = "trash"
    /\ NoPage \notin Key /\ NoPage \notin Page
    /\ 1 \in 1..MaxPage
<1>1. NoPage \notin Key /\ NoPage \notin Page
  BY NoPageAssumption
<1>2. \A k \in Key : /\ k = <<k[1], k[2]>> /\ k[2] \in 1..MaxPage
                     /\ k[1] \in Paged \cup Panels \cup {"task"}
                     /\ k[1] \notin Paged => k[2] = 1
  BY ClientBoardAssumption DEF Key, Paged, Panels
<1>3. \A l \in Paged, p \in 1..MaxPage : <<l, p>> \in Key
  BY DEF Key, Paged
<1>4. Trash \subseteq Key /\ \A k \in Key : k \in Trash <=> k[1] = "trash"
  BY DEF Trash
<1>5. 1 \in 1..MaxPage
  BY ClientBoardAssumption
<1>. QED
  BY <1>1, <1>2, <1>3, <1>4, <1>5

LEMMA CeilType == ASSUME NEW n \in Nat PROVE Ceil(n) \in Nat /\ Ceil(n) <= n
<1>1. Limit \in Nat \ {0}
  BY ClientBoardAssumption
<1>. DEFINE q == (n + Limit - 1) \div Limit
<1>2. q \in Nat /\ q * Limit <= n + Limit - 1
  BY <1>1
<1>3. ASSUME q > n PROVE FALSE
  <2>1. (n + 1) * Limit <= q * Limit
    <3>. HIDE DEF q
    <3>. QED
      BY <1>1, <1>2, <1>3 DEF q
  <2>2. (n + 1) * Limit = n * Limit + Limit /\ n <= n * Limit
    BY <1>1
  <2>. QED
    <3>. HIDE DEF q
    <3>. QED
      BY <1>1, <1>2, <2>1, <2>2
<1>. QED
  BY <1>2, <1>3 DEF Ceil

(* A reducer that changes rows, and neither the number of the page nor that  *)
(* of all pages.                                                             *)
Alike(d, e) ==
    IF d = NoPage THEN e = NoPage
    ELSE e \in Page /\ e.page = d.page /\ e.pages = d.pages

LEMMA Reducers ==
    ASSUME NEW d \in Page \cup {NoPage}, NEW t \in Items, NEW to \in BOOLEAN
    PROVE  /\ Alike(d, Patch(d, t, to)) /\ Alike(d, Drop(d, t)) /\ Alike(d, Prepend(d, t, to))
           /\ OnPage(Drop(d, t)) = OnPage(d) \ {t}
<1>1. CASE d = NoPage
  BY <1>1 DEF Alike, Patch, Drop, Prepend, OnPage
<1>2. CASE d # NoPage
  <2>1. d \in Page
    BY <1>2
  <2>. DEFINE row == IF to THEN "on" ELSE "off"
  <2>2. row \in Row /\ "no" \in Row
    BY DEF Row
  <2>3. /\ [d EXCEPT !.rows[t] = row] \in Page
        /\ [d EXCEPT !.rows[t] = row].page = d.page /\ [d EXCEPT !.rows[t] = row].pages = d.pages
    <3>. HIDE DEF row
    <3>. QED
      BY <2>1, <2>2 DEF Page
  <2>4. Alike(d, Patch(d, t, to))
    BY <1>2, <2>1, <2>3 DEF Alike, Patch
  <2>5. Minus(d.total) \in Nat /\ d.total + 1 \in Nat
    BY <2>1 DEF Page, Minus
  <2>. DEFINE less == Minus(d.total)
              e == [d EXCEPT !.rows[t] = "no", !.total = less]
  <2>6. e \in Page /\ e.page = d.page /\ e.pages = d.pages /\ e.rows = [d.rows EXCEPT ![t] = "no"]
    <3>. HIDE DEF less
    <3>. QED
      BY <2>1, <2>2, <2>5 DEF Page, less
  <2>7. Drop(d, t) = e
    BY <1>2 DEF Drop
  <2>8. OnPage(e) = OnPage(d) \ {t}
    <3>1. e # NoPage /\ d.rows \in [Items -> Row]
      BY <2>1, <2>6, KeyFacts DEF Page
    <3>. HIDE DEF e
    <3>. QED
      BY <1>2, <2>6, <3>1 DEF OnPage
  <2>9. Alike(d, Drop(d, t))
    BY <1>2, <2>6, <2>7 DEF Alike
  <2>. DEFINE more == d.total + 1
              f == [d EXCEPT !.rows[t] = row, !.total = more]
  <2>10. f \in Page /\ f.page = d.page /\ f.pages = d.pages
    <3>. HIDE DEF more, row
    <3>. QED
      BY <2>1, <2>2, <2>5 DEF Page, more
  <2>11. Prepend(d, t, to) \in {d, f}
    BY <1>2 DEF Prepend
  <2>12. Alike(d, Prepend(d, t, to))
    BY <1>2, <2>1, <2>10, <2>11 DEF Alike
  <2>. QED
    BY <2>4, <2>7, <2>8, <2>9, <2>12
<1>. QED
  BY <1>1, <1>2

LEMMA InFinite ==
    ASSUME NEW l PROVE /\ In(l) \subseteq Items /\ IsFiniteSet(In(l)) /\ Cardinality(In(l)) \in Nat
<1>1. In(l) \subseteq Items
  BY DEF In
<1>. QED
  BY <1>1, FS_Subset, FS_CardinalityType, ClientBoardAssumption

Size == Ceil(Cardinality(In("deck")))

LEMMA ListingOK ==
    ASSUME db \in [Items -> Item], NEW k \in Key
    PROVE  /\ Listing(k) \in Page /\ Listing(k).page = k[2]
           /\ OnPage(Listing(k)) \subseteq In(k[1])
           /\ k[1] = "deck" => Listing(k).pages = Size
<1>. DEFINE S == In(k[1])
            on(t) == CASE k[1] \in Paged -> Newer(t, S) \in ((k[2] - 1) * Limit)..(k[2] * Limit - 1)
                       [] k[1] = "task"  -> t = TheTask
                       [] OTHER          -> TRUE
            rows == [t \in Items |-> IF t \in S /\ on(t) THEN (IF db[t].on THEN "on" ELSE "off") ELSE "no"]
            total == Cardinality(S)
            pages == IF k[1] \in Paged THEN Ceil(total) ELSE 1
<1>1. Listing(k) = [rows |-> rows, total |-> total, pages |-> pages, page |-> k[2]]
  BY DEF Listing
<1>2. rows \in [Items -> Row] /\ \A t \in Items : rows[t] # "no" => t \in S
  BY DEF Row
<1>3. total \in Nat /\ pages \in {1} \cup 0..Cardinality(Items) /\ k[2] \in 1..MaxPage
  <2>1. total \in Nat /\ total <= Cardinality(Items) /\ Cardinality(Items) \in Nat
    BY InFinite, FS_Subset, FS_CardinalityType, ClientBoardAssumption
  <2>2. Ceil(total) \in Nat /\ Ceil(total) <= total
    BY <2>1, CeilType
  <2>. HIDE DEF total
  <2>3. Ceil(total) \in 0..Cardinality(Items)
    BY <2>1, <2>2
  <2>. QED
    BY <2>1, <2>3, KeyFacts
<1>4. k[1] = "deck" => pages = Size
  BY DEF Size, Paged
<1>. HIDE DEF rows, total, pages, S
<1>5. Listing(k) \in Page /\ Listing(k).page = k[2] /\ Listing(k).rows = rows /\ Listing(k).pages = pages
  BY <1>1, <1>2, <1>3 DEF Page
<1>6. OnPage(Listing(k)) \subseteq S
  BY <1>2, <1>5, KeyFacts DEF OnPage
<1>. QED
  BY <1>4, <1>5, <1>6 DEF S

-----------------------------------------------------------------------------
(* What holds of the records, whatever happens.  A request that was read has *)
(* data, and only that; a page has the number of its key; an application     *)
(* that shows a panel shows no other list, and one that does not shows none. *)
Active(m) == mut[m].pc \in {"sent", "ok", "no"}
Plainly == {"create", "edit", "grant"}      \* without a snapshot, and no invalidation on error
InPanels == view[1] \in Panels
Numbered(d, k) == d = NoPage \/ d.page = k[2]

FetchOK ==
    \A k \in Key : /\ Numbered(cache[k], k) /\ Numbered(fetch[k].data, k)
                   /\ fetch[k].pc = "read" <=> fetch[k].data # NoPage

RecordOK(m) ==
    /\ ~Active(m) => mut[m].snap = NoPage
    /\ mut[m].snap # NoPage =>
         mut[m].key # NoPage /\ mut[m].op \notin Plainly /\ Numbered(mut[m].snap, mut[m].key)
    /\ Active(m) =>
         /\ mut[m].op # "none" /\ (mut[m].op = "create" => mut[m].key # NoPage)
         /\ IF InPanels THEN mut[m].key = view ELSE mut[m].key = NoPage \/ mut[m].key[1] \in Paged
         /\ mut[m].key # NoPage => Latest(mut[m])[1] = mut[m].key[1]
         /\ mut[m].op \in {"grant", "add"} => InPanels
         /\ mut[m].op \in {"purge", "clear"} => mut[m].key \in Trash
         /\ mut[m].op = "restore" => mut[m].key \in Trash \/ (mut[m].key = NoPage /\ "undone" \in strays)
         /\ mut[m].op \in {"toggle", "edit", "create", "remove"} => mut[m].key \notin Trash
         /\ mut[m].op = "clear" => mut[m].snap = NoPage
         /\ mut[m].op # "clear" => mut[m].item \in Items
MutOK == \A m \in Mutations : RecordOK(m)

(* A list is left for its second page only when the first has come, so the   *)
(* pager never asks for page 0.                                              *)
PagerOK ==
    /\ view[2] > 1 => cache[<<view[1], 1>>] # NoPage
    /\ view[2] = 1 /\ cache[view] = NoPage => prev = NoPage

BoardBase == BoardTypeOK /\ FetchOK /\ MutOK /\ PagerOK

-----------------------------------------------------------------------------
(* The kinds of steps, point by point.                                       *)
Caches  == [Key -> Page \cup {NoPage}]
Flags   == [Key -> BOOLEAN]
Fetch   == [pc : {"idle", "sent", "read"}, data : Page \cup {NoPage}]
StrayCauses  == {"unread", "lost", "twice", "shrunk", "cancelled", "overlap", "undone", "raced", "reverted"}

SameRecord(n) ==
    /\ mut'[n].op = mut[n].op /\ mut'[n].item = mut[n].item /\ mut'[n].key = mut[n].key
    /\ mut'[n].snap = mut[n].snap /\ mut'[n].pc = mut[n].pc

(* the answer to a GET is read on the server *)
Reads(k) ==
    /\ fetch' \in [Key -> Fetch]
    /\ fetch[k].pc = "sent" /\ fetch'[k].pc = "read" /\ fetch'[k].data = Listing(k)
    /\ \A j \in Key \ {k} : fetch'[j] = fetch[j]
    /\ UNCHANGED <<db, view, prev, cache, fresh, mut, toasts, moves, seen, strays>>

(* it comes into the cache *)
Arrives(k) ==
    /\ fetch' \in [Key -> Fetch] /\ cache' \in Caches /\ fresh' \in Flags
    /\ fetch[k].pc = "read" /\ fetch'[k] = NoFetch /\ cache'[k] = fetch[k].data
    /\ \A j \in Key \ {k} : fetch'[j] = fetch[j] /\ cache'[j] = cache[j] /\ fresh'[j] = fresh[j]
    /\ prev' = IF k = view THEN NoPage ELSE prev
    /\ seen' \in [Trash -> SUBSET Items]
    /\ \A j \in Trash : seen'[j] = IF j = k THEN OnPage(fetch[k].data) ELSE seen[j]
    /\ UNCHANGED <<db, view, mut, toasts, moves, strays>>

(* it does not *)
Vanishes(k) ==
    /\ fetch' \in [Key -> Fetch] /\ fetch'[k] = NoFetch
    /\ \A j \in Key \ {k} : fetch'[j] = fetch[j]
    /\ moves' \in 0..MaxMoves /\ strays' = strays \cup {"unread"}
    /\ UNCHANGED <<db, view, prev, cache, fresh, mut, toasts, seen>>

(* another key comes on the screen *)
Turns(k) ==
    /\ view' = k /\ prev' \in Page \cup {NoPage} /\ fetch' \in [Key -> Fetch]
    /\ \A j \in Key : \/ fetch'[j] = fetch[j]
                      \/ fetch[j].pc = "idle" /\ fetch'[j].pc = "sent" /\ fetch'[j].data = fetch[j].data
    /\ moves' \in 0..MaxMoves /\ strays' \in {strays, strays \cup {"twice"}}
    /\ ~InPanels /\ k[1] \notin Panels
    /\ mut' \in [Mutations -> Mutation]
    /\ \A n \in Mutations : SameRecord(n) /\ (mut[n].key # NoPage /\ Active(n) => Latest(mut[n])'[1] = mut[n].key[1])
    /\ PagerOK'
    /\ k[1] = "deck" => \/ k[2] = 1 \/ "twice" \in strays'
                        \/ /\ view[1] = "deck" /\ cache[view] # NoPage
                           /\ k[2] < view[2] \/ k[2] <= cache[view].pages
    /\ UNCHANGED <<db, cache, fresh, toasts, seen>>

(* a mutation begins *)
Begins(m, op, t, key, snap) ==
    /\ mut' \in [Mutations -> Mutation] /\ mut[m].pc = "idle"
    /\ mut'[m].op = op /\ mut'[m].item = t /\ mut'[m].key = key /\ mut'[m].snap = snap
    /\ mut'[m].left = NoPage /\ mut'[m].pc = "sent"
    /\ \A n \in Mutations \ {m} : SameRecord(n) /\ mut'[n].left = mut[n].left

(* with its result shown at once *)
Guesses(m, op, t, d) ==
    /\ op \in {"toggle", "remove", "restore", "purge", "add"}
    /\ Begins(m, op, t, view, cache[view])
    /\ cache' \in Caches /\ fresh' \in Flags /\ fetch' \in [Key -> Fetch]
    /\ cache'[view] = d /\ fetch'[view] = NoFetch
    /\ \A j \in Key \ {view} : fetch'[j] = fetch[j] /\ cache'[j] = cache[j] /\ fresh'[j] = fresh[j]
    /\ d = NoPage => cache[view] = NoPage
    /\ d # NoPage => d.page = view[2]
    /\ view[1] \in Paged => Alike(cache[view], d)
    /\ op = "add" => InPanels
    /\ op \in {"toggle", "remove"} => view[1] = "deck" \/ InPanels
    /\ op \in {"restore", "purge"} <=> view \in Trash
    /\ view \in Trash => OnPage(d) = OnPage(cache[view]) \ {t}
    /\ strays' = strays \cup If("cancelled", view \in Trash /\ cache[view] = NoPage) \cup Overlap(m)
    /\ UNCHANGED <<db, view, prev, toasts, moves, seen>>

(* or not *)
Asks(m, op, t, key) ==
    /\ Begins(m, op, t, key, NoPage)
    /\ t \in Items \/ op = "clear"
    /\ op \notin {"none", "add", "purge", "toggle"}
    /\ IF InPanels THEN key = view ELSE key = NoPage \/ (key = view /\ view[1] \in Paged)
    /\ op = "grant" => InPanels
    /\ op = "clear" => view \in Trash /\ key = view
    /\ op = "create" => key = view
    /\ op = "restore" => key = NoPage /\ "undone" \in strays'
    /\ op \in {"create", "edit", "remove"} => key \notin Trash
    /\ strays' \in {strays \cup Overlap(m), strays \cup ({"undone"} \cup Overlap(m))}
    /\ toasts' \subseteq Items
    /\ UNCHANGED <<db, view, prev, cache, fresh, fetch, moves, seen>>

(* its request is served, refused, or lost *)
Meets(m, pc) ==
    /\ mut[m].pc = "sent" /\ mut' \in [Mutations -> Mutation] /\ mut'[m].pc = pc
    /\ mut'[m].op = mut[m].op /\ mut'[m].item = mut[m].item /\ mut'[m].key = mut[m].key
    /\ mut'[m].snap = mut[m].snap /\ mut'[m].left = mut[m].left
    /\ \A n \in Mutations \ {m} : mut'[n] = mut[n]
    /\ UNCHANGED <<view, prev, cache, fresh, fetch, toasts>>

(* it ends *)
Ends(m) ==
    /\ mut' \in [Mutations -> Mutation] /\ Active(m)
    /\ mut'[m].pc = "done" /\ mut'[m].snap = NoPage
    /\ \A n \in Mutations \ {m} : mut'[n] = mut[n]
    /\ UNCHANGED <<db, view, prev, moves, seen>>

LEMMA NoFetchOK == NoFetch \in Fetch /\ NoFetch.pc = "idle" /\ NoFetch.data = NoPage
BY DEF NoFetch, Fetch

LEMMA ReadEffect == ASSUME BoardBase, NEW k \in Key, Read(k) PROVE Reads(k)
<1>1. Listing(k) \in Page
  BY ListingOK DEF BoardBase, BoardTypeOK
<1>. DEFINE f == [pc |-> "read", data |-> Listing(k)]
<1>2. f \in Fetch /\ f.pc = "read" /\ f.data = Listing(k)
  BY <1>1 DEF Fetch
<1>. HIDE DEF f
<1>3. fetch' = [fetch EXCEPT ![k] = f]
  BY DEF Read, f
<1>. QED
  BY <1>2, <1>3 DEF Read, Reads, BoardBase, BoardTypeOK, Fetch

LEMMA ArriveEffect == ASSUME BoardBase, NEW k \in Key, Arrive(k) PROVE Arrives(k)
<1>1. PICK d \in Page \cup {NoPage} : d = fetch[k].data
  BY DEF BoardBase, BoardTypeOK
<1>2. /\ fetch' = [fetch EXCEPT ![k] = NoFetch] /\ cache' = [cache EXCEPT ![k] = d]
      /\ fresh' = [fresh EXCEPT ![k] = TRUE]
  BY <1>1 DEF Arrive
<1>3. /\ fetch' \in [Key -> Fetch] /\ fetch'[k] = NoFetch
      /\ \A j \in Key \ {k} : fetch'[j] = fetch[j]
  BY <1>2, NoFetchOK DEF BoardBase, BoardTypeOK, Fetch
<1>4. /\ cache' \in Caches /\ cache'[k] = d
      /\ \A j \in Key \ {k} : cache'[j] = cache[j]
  BY <1>2 DEF BoardBase, BoardTypeOK, Caches
<1>5. fresh' \in Flags /\ \A j \in Key \ {k} : fresh'[j] = fresh[j]
  BY <1>2 DEF BoardBase, BoardTypeOK, Flags
<1>6. OnPage(d) \subseteq Items
  BY DEF OnPage
<1>7. /\ seen' \in [Trash -> SUBSET Items]
      /\ \A j \in Trash : seen'[j] = IF j = k THEN OnPage(d) ELSE seen[j]
  BY <1>1, <1>6 DEF BoardBase, BoardTypeOK, Arrive
<1>. QED
  BY <1>1, <1>3, <1>4, <1>5, <1>7 DEF Arrive, Arrives

LEMMA FetchFailsEffect == ASSUME BoardBase, NEW k \in Key, FetchFails(k) PROVE Vanishes(k)
<1>1. fetch' = [fetch EXCEPT ![k] = NoFetch]
  BY DEF FetchFails
<1>2. moves' \in 0..MaxMoves
  BY ClientBoardAssumption DEF FetchFails, Move, BoardBase, BoardTypeOK
<1>. QED
  BY <1>1, <1>2, NoFetchOK DEF FetchFails, Vanishes, Stray, BoardBase, BoardTypeOK, Fetch

LEMMA ShowEffect ==
    ASSUME BoardBase, NEW k \in Key, NEW placeholder \in Page \cup {NoPage}, NEW old, Show(k, placeholder, old)
    PROVE  /\ view' = k /\ prev' = (IF cache[k] = NoPage THEN placeholder ELSE NoPage)
           /\ prev' \in Page \cup {NoPage} /\ fetch' \in [Key -> Fetch]
           /\ \A j \in Key : \/ fetch'[j] = fetch[j]
                             \/ fetch[j].pc = "idle" /\ fetch'[j].pc = "sent" /\ fetch'[j].data = fetch[j].data
           /\ moves' \in 0..MaxMoves
<1>1. view' = k /\ prev' = (IF cache[k] = NoPage THEN placeholder ELSE NoPage)
  BY DEF Show
<1>2. moves' \in 0..MaxMoves
  BY ClientBoardAssumption DEF Show, Move, BoardBase, BoardTypeOK
<1>. DEFINE f == [fetch[k] EXCEPT !.pc = "sent"]
<1>3. fetch[k] \in Fetch
  BY DEF BoardBase, BoardTypeOK, Fetch
<1>4. f \in Fetch /\ f.pc = "sent" /\ f.data = fetch[k].data
  BY <1>3 DEF Fetch
<1>5. fetch' = fetch \/ (fetch[k].pc = "idle" /\ fetch' = [fetch EXCEPT ![k] = f])
  BY DEF Show
<1>. HIDE DEF f
<1>6. /\ fetch' \in [Key -> Fetch]
      /\ \A j \in Key : \/ fetch'[j] = fetch[j]
                        \/ fetch[j].pc = "idle" /\ fetch'[j].pc = "sent" /\ fetch'[j].data = fetch[j].data
  BY <1>4, <1>5 DEF BoardBase, BoardTypeOK, Fetch
<1>. QED
  BY <1>1, <1>2, <1>6

LEMMA ShownFacts ==
    ASSUME BoardBase, OnPage(Shown) # {}
    PROVE  /\ Shown \in Page
           /\ view[2] = 1 => cache[view] # NoPage
           /\ cache[view] # NoPage => Shown = cache[view] /\ Shown.page = view[2]
           /\ view[2] > 1 => cache[<<view[1], 1>>] # NoPage
<1>1. Shown # NoPage /\ view \in Key /\ cache[view] \in Page \cup {NoPage} /\ prev \in Page \cup {NoPage}
  BY DEF OnPage, BoardBase, BoardTypeOK
<1>. QED
  BY <1>1 DEF Shown, BoardBase, PagerOK, FetchOK, Numbered

(* The pager stays in its list. *)
LEMMA PageTurn ==
    ASSUME BoardBase, view[1] \in Paged, NEW n \in 1..MaxPage, view' = <<view[1], n>>, mut' = mut,
           strays' \in {strays, strays \cup {"twice"}}
    PROVE  /\ <<view[1], n>> \in Key /\ <<view[1], n>>[1] = view[1] /\ <<view[1], n>>[2] = n
           /\ ~InPanels /\ view[1] \notin Panels
           /\ mut' \in [Mutations -> Mutation]
           /\ \A m \in Mutations : /\ SameRecord(m)
                                   /\ mut[m].key # NoPage /\ Active(m) => Latest(mut[m])'[1] = mut[m].key[1]
<1>1. ~InPanels /\ view[1] \notin Panels
  BY DEF InPanels, Paged, Panels
<1>2. \A m \in Mutations : mut[m].key # NoPage /\ Active(m) => Latest(mut[m])'[1] = mut[m].key[1]
  BY DEF BoardBase, MutOK, RecordOK, Latest
<1>. QED
  BY <1>1, <1>2, KeyFacts DEF BoardBase, BoardTypeOK, SameRecord

LEMMA NextPageEffect ==
    ASSUME BoardBase, NEW old \in BOOLEAN, NextPage(old)
    PROVE  <<view[1], view[2] + 1>> \in Key /\ Turns(<<view[1], view[2] + 1>>)
<1>. DEFINE n == view[2] + 1
            k == <<view[1], n>>
<1>0. view \in Key /\ view = <<view[1], view[2]>> /\ view[2] \in 1..MaxPage
  BY KeyFacts DEF BoardBase, BoardTypeOK
<1>1. n \in 1..MaxPage /\ n > 1 /\ view[1] \in Paged /\ OnPage(Shown) # {} /\ Shown.page < Shown.pages
  BY <1>0, ClientBoardAssumption DEF NextPage
<1>2. Shown \in Page /\ Show(k, Shown, old) /\ k \in Key
  BY <1>1, ShownFacts, KeyFacts DEF NextPage
<1>3. /\ mut' = mut /\ strays' \in {strays, strays \cup {"twice"}}
      /\ cache[view] = NoPage => "twice" \in strays'
      /\ UNCHANGED <<db, cache, fresh, toasts, seen>>
  BY DEF NextPage, Stray, If
<1>4. /\ view' = k /\ prev' \in Page \cup {NoPage} /\ fetch' \in [Key -> Fetch]
      /\ \A j \in Key : \/ fetch'[j] = fetch[j]
                        \/ fetch[j].pc = "idle" /\ fetch'[j].pc = "sent" /\ fetch'[j].data = fetch[j].data
      /\ moves' \in 0..MaxMoves
  BY <1>2, ShowEffect
<1>. HIDE DEF n
<1>5. /\ k[1] = view[1] /\ k[2] = n /\ ~InPanels /\ view[1] \notin Panels
      /\ mut' \in [Mutations -> Mutation]
      /\ \A m \in Mutations : /\ SameRecord(m)
                              /\ mut[m].key # NoPage /\ Active(m) => Latest(mut[m])'[1] = mut[m].key[1]
  BY <1>1, <1>3, <1>4, PageTurn
<1>6. cache[<<view[1], 1>>] # NoPage
  <2>1. CASE view[2] > 1
    BY <1>1, <2>1, ShownFacts
  <2>2. CASE view[2] = 1
    BY <1>0, <1>1, <2>2, ShownFacts
  <2>. QED
    BY <1>0, <2>1, <2>2
<1>7. PagerOK'
  BY <1>1, <1>3, <1>4, <1>5, <1>6 DEF PagerOK
<1>8. k[1] = "deck" => \/ "twice" \in strays'
                       \/ view[1] = "deck" /\ cache[view] # NoPage /\ k[2] <= cache[view].pages
  <2>. SUFFICES ASSUME cache[view] # NoPage PROVE n <= cache[view].pages
    BY <1>3, <1>5
  <2>1. Shown = cache[view] /\ Shown.page = view[2] /\ Shown \in Page
    BY <1>1, ShownFacts
  <2>. QED
    BY <1>0, <1>1, <2>1 DEF n, Page
<1>. HIDE DEF k
<1>9. Turns(k)
  BY <1>3, <1>4, <1>5, <1>7, <1>8 DEF Turns
<1>. QED
  BY <1>2, <1>9 DEF k, n

LEMMA PrevPageEffect ==
    ASSUME BoardBase, NEW old \in BOOLEAN, PrevPage(old)
    PROVE  <<view[1], view[2] - 1>> \in Key /\ Turns(<<view[1], view[2] - 1>>)
<1>. DEFINE n == view[2] - 1
            k == <<view[1], n>>
<1>0. view \in Key /\ view = <<view[1], view[2]>> /\ view[2] \in 1..MaxPage
  BY KeyFacts DEF BoardBase, BoardTypeOK
<1>1. view[1] \in Paged /\ OnPage(Shown) # {} /\ Shown.page > 1
  BY DEF PrevPage
<1>2. view[2] > 1 /\ Shown \in Page /\ cache[<<view[1], 1>>] # NoPage
  <2>1. view[2] # 1
    BY <1>1, ShownFacts
  <2>. QED
    BY <1>0, <1>1, <2>1, ShownFacts
<1>3. n \in 1..MaxPage /\ n < view[2]
  BY <1>0, <1>2, ClientBoardAssumption
<1>4. Show(k, Shown, old) /\ k \in Key
  BY <1>1, <1>3, KeyFacts DEF PrevPage
<1>5. /\ mut' = mut /\ strays' \in {strays, strays \cup {"twice"}}
      /\ cache[view] = NoPage => "twice" \in strays'
      /\ UNCHANGED <<db, cache, fresh, toasts, seen>>
  BY DEF PrevPage, Stray, If
<1>6. /\ view' = k /\ prev' \in Page \cup {NoPage} /\ fetch' \in [Key -> Fetch]
      /\ prev' = (IF cache[k] = NoPage THEN Shown ELSE NoPage)
      /\ \A j \in Key : \/ fetch'[j] = fetch[j]
                        \/ fetch[j].pc = "idle" /\ fetch'[j].pc = "sent" /\ fetch'[j].data = fetch[j].data
      /\ moves' \in 0..MaxMoves
  BY <1>2, <1>4, ShowEffect
<1>. HIDE DEF n
<1>7. /\ k[1] = view[1] /\ k[2] = n /\ ~InPanels /\ view[1] \notin Panels
      /\ mut' \in [Mutations -> Mutation]
      /\ \A m \in Mutations : /\ SameRecord(m)
                              /\ mut[m].key # NoPage /\ Active(m) => Latest(mut[m])'[1] = mut[m].key[1]
  BY <1>1, <1>3, <1>5, <1>6, PageTurn
<1>8. PagerOK'
  BY <1>2, <1>5, <1>6, <1>7 DEF PagerOK
<1>9. k[1] = "deck" => \/ "twice" \in strays'
                       \/ view[1] = "deck" /\ cache[view] # NoPage /\ k[2] < view[2]
  BY <1>3, <1>5, <1>7
<1>. HIDE DEF k
<1>10. Turns(k)
  BY <1>5, <1>6, <1>7, <1>8, <1>9 DEF Turns
<1>. QED
  BY <1>4, <1>10 DEF k, n

LEMMA GoEffect == ASSUME BoardBase, NEW k \in Key, NEW old \in BOOLEAN, Go(k, old) PROVE Turns(k)
<1>1. k[2] = 1 /\ view[1] \notin Panels /\ k[1] \notin Panels /\ view \in Key
  BY DEF Go, BoardBase, BoardTypeOK
<1>2. UNCHANGED <<db, cache, fresh, toasts, seen, strays>>
  BY DEF Go
<1>3. /\ view' = k /\ prev' = NoPage /\ fetch' \in [Key -> Fetch]
      /\ \A j \in Key : \/ fetch'[j] = fetch[j]
                        \/ fetch[j].pc = "idle" /\ fetch'[j].pc = "sent" /\ fetch'[j].data = fetch[j].data
      /\ moves' \in 0..MaxMoves
  <2>. Show(k, NoPage, old)
    BY DEF Go
  <2>. QED
    BY ShowEffect
<1>4. ASSUME NEW m \in Mutations
      PROVE  /\ mut'[m] \in Mutation /\ SameRecord(m)
             /\ mut'[m] = mut[m] \/ (mut[m].left = NoPage /\ mut'[m].left = view)
             /\ Active(m) => mut'[m].left # NoPage
  <2>1. mut[m] \in Mutation /\ view # NoPage
    BY KeyFacts DEF BoardBase, BoardTypeOK
  <2>2. [mut[m] EXCEPT !.left = view] \in Mutation
    BY <1>1, <2>1 DEF Mutation
  <2>3. mut'[m] = IF mut[m].pc \in {"idle", "done"} \/ mut[m].left # NoPage THEN mut[m]
                  ELSE [mut[m] EXCEPT !.left = view]
    BY DEF Go
  <2>4. CASE mut[m].pc \in {"idle", "done"} \/ mut[m].left # NoPage
    BY <2>1, <2>3, <2>4 DEF SameRecord, Active
  <2>5. CASE ~(mut[m].pc \in {"idle", "done"} \/ mut[m].left # NoPage)
    BY <2>1, <2>2, <2>3, <2>5 DEF SameRecord, Mutation
  <2>. QED
    BY <2>4, <2>5
<1>5. ASSUME NEW m \in Mutations, mut[m].key # NoPage, Active(m)
      PROVE  Latest(mut[m])'[1] = mut[m].key[1]
  BY <1>4, <1>5, KeyFacts DEF Latest, BoardBase, MutOK, RecordOK
<1>6. mut' \in [Mutations -> Mutation]
  <2>1. mut' = [m \in Mutations |-> mut'[m]]
    BY DEF Go
  <2>. QED
    BY <1>4, <2>1
<1>7. PagerOK'
  BY <1>1, <1>3 DEF PagerOK
<1>. QED
  BY <1>1, <1>2, <1>3, <1>4, <1>5, <1>6, <1>7 DEF Turns, InPanels

-----------------------------------------------------------------------------
(* Mutations begin *)
LEMMA BeginEffect ==
    ASSUME BoardBase, NEW m \in Mutations, mut[m].pc = "idle", NEW to \in BOOLEAN,
           NEW op \in {"create", "toggle", "edit", "remove", "restore", "purge", "clear", "add", "grant"},
           NEW t \in Items \cup {0}, NEW key \in Key \cup {NoPage}, NEW snap \in Page \cup {NoPage},
           Start(m, op, t, to, key, snap)
    PROVE  Begins(m, op, t, key, snap)
<1>. DEFINE new == [op |-> op, item |-> t, key |-> key, snap |-> snap, to |-> to, left |-> NoPage, pc |-> "sent"]
<1>1. /\ new \in Mutation /\ new.op = op /\ new.item = t /\ new.key = key /\ new.snap = snap
      /\ new.left = NoPage /\ new.pc = "sent"
  BY DEF Mutation
<1>. HIDE DEF new
<1>2. mut' = [n \in Mutations |->
                IF n = m THEN new
                ELSE IF op = "remove" /\ mut[n].op = "remove" THEN [mut[n] EXCEPT !.to = FALSE] ELSE mut[n]]
  BY DEF Start, new
<1>3. ASSUME NEW n \in Mutations \ {m}
      PROVE  mut'[n] \in Mutation /\ SameRecord(n) /\ mut'[n].left = mut[n].left
  <2>1. mut[n] \in Mutation
    BY DEF BoardBase, BoardTypeOK
  <2>2. [mut[n] EXCEPT !.to = FALSE] \in Mutation
    BY <2>1 DEF Mutation
  <2>3. mut'[n] = mut[n] \/ mut'[n] = [mut[n] EXCEPT !.to = FALSE]
    BY <1>2
  <2>. QED
    BY <2>1, <2>2, <2>3 DEF SameRecord, Mutation
<1>4. mut'[m] = new
  BY <1>2
<1>5. mut' \in [Mutations -> Mutation]
  <2>1. mut' = [n \in Mutations |-> mut'[n]]
    BY <1>2
  <2>. QED
    BY <1>1, <1>3, <1>4, <2>1
<1>. QED
  BY <1>1, <1>3, <1>4, <1>5 DEF Begins

LEMMA OptimisticEffect ==
    ASSUME BoardBase, NEW m \in Mutations, Fresh(m), NEW t \in Items, NEW to \in BOOLEAN,
           NEW op \in {"toggle", "remove", "restore", "purge", "add"}, NEW d \in Page \cup {NoPage},
           Optimistic(m, op, t, to, d),
           d = NoPage => cache[view] = NoPage, d # NoPage => d.page = view[2],
           view[1] \in Paged => Alike(cache[view], d),
           op = "add" => InPanels, op \in {"toggle", "remove"} => view[1] = "deck" \/ InPanels,
           op \in {"restore", "purge"} <=> view \in Trash,
           view \in Trash => OnPage(d) = OnPage(cache[view]) \ {t}
    PROVE  Guesses(m, op, t, d)
<1>1. view \in Key /\ cache[view] \in Page \cup {NoPage} /\ mut[m].pc = "idle"
  BY DEF BoardBase, BoardTypeOK, Fresh
<1>2. Begins(m, op, t, view, cache[view])
  BY <1>1, BeginEffect DEF Optimistic
<1>3. /\ fetch' = [fetch EXCEPT ![view] = NoFetch] /\ cache' = [cache EXCEPT ![view] = d]
      /\ fresh' = [fresh EXCEPT ![view] = fresh[view] \/ d # NoPage]
  BY DEF Optimistic, SetData
<1>4. /\ fetch' \in [Key -> Fetch] /\ fetch'[view] = NoFetch
      /\ \A j \in Key \ {view} : fetch'[j] = fetch[j]
  BY <1>1, <1>3, NoFetchOK DEF BoardBase, BoardTypeOK, Fetch
<1>5. cache' \in Caches /\ cache'[view] = d /\ \A j \in Key \ {view} : cache'[j] = cache[j]
  BY <1>1, <1>3 DEF BoardBase, BoardTypeOK, Caches
<1>6. fresh' \in Flags /\ \A j \in Key \ {view} : fresh'[j] = fresh[j]
  <2>. DEFINE b == fresh[view] \/ d # NoPage
  <2>1. b \in BOOLEAN
    OBVIOUS
  <2>. HIDE DEF b
  <2>2. fresh' = [fresh EXCEPT ![view] = b]
    BY <1>3 DEF b
  <2>. QED
    BY <1>1, <2>1, <2>2 DEF BoardBase, BoardTypeOK, Flags
<1>7. /\ strays' = strays \cup If("cancelled", view \in Trash /\ cache[view] = NoPage) \cup Overlap(m)
      /\ UNCHANGED <<db, view, prev, toasts, moves, seen>>
  BY DEF Optimistic, Stray
<1>. QED
  BY <1>2, <1>4, <1>5, <1>6, <1>7 DEF Guesses

LEMMA ItemsShown == OnPage(Shown) \subseteq Items
BY DEF OnPage

(* Where the lists are. *)
LEMMA Places ==
    ASSUME BoardBase
    PROVE  /\ view \in Key
           /\ view[1] = "deck" => view \notin Trash /\ ~InPanels /\ view[1] \in Paged
           /\ view \in Trash => view[1] = "trash" /\ ~InPanels /\ view[1] \in Paged
           /\ view[1] \in Panels => view \notin Trash /\ InPanels /\ view[1] \notin Paged /\ view[2] = 1
           /\ view[1] = "task" => view \notin Trash /\ ~InPanels /\ view[1] \notin Paged
<1>1. view \in Key
  BY DEF BoardBase, BoardTypeOK
<1>. QED
  BY <1>1, KeyFacts DEF InPanels, Paged, Panels

LEMMA Change ==
    ASSUME BoardBase, NEW t \in Items, NEW to \in BOOLEAN,
           NEW d, d = Patch(cache[view], t, to) \/ d = Drop(cache[view], t)
    PROVE  /\ d \in Page \cup {NoPage} /\ (d = NoPage => cache[view] = NoPage)
           /\ d # NoPage => d.page = view[2]
           /\ Alike(cache[view], d)
<1>1. view \in Key /\ cache[view] \in Page \cup {NoPage} /\ Numbered(cache[view], view)
  BY DEF BoardBase, BoardTypeOK, FetchOK
<1>2. Alike(cache[view], d)
  BY <1>1, Reducers
<1>. QED
  BY <1>1, <1>2, KeyFacts DEF Alike, Numbered

Guessed(m, t) ==
    \E op \in {"toggle", "remove", "restore", "purge", "add"} :
        \E d \in Page \cup {NoPage} : Guesses(m, op, t, d)

LEMMA OptimisticSteps ==
    ASSUME BoardBase, NEW m \in Mutations, NEW t \in Items,
           \/ Toggle(m, t) \/ Update(m, t) \/ Remove(m, t) \/ DeleteWebhook(m, t)
           \/ RevokeShare(m, t) \/ \E op \in {"restore", "purge"} : Bulk(m, t, op)
    PROVE  Guessed(m, t)
<1>. DEFINE e(to) == Patch(cache[view], t, to)
            d == Drop(cache[view], t)
<1>1. CASE Toggle(m, t) \/ Update(m, t)
  <2>1. PICK to \in BOOLEAN : Optimistic(m, "toggle", t, to, e(to)) /\ Fresh(m) /\ view[1] \in {"deck", "hooks"}
    BY <1>1 DEF Toggle, Update
  <2>2. view \notin Trash /\ (view[1] = "deck" \/ InPanels)
    BY <2>1, Places DEF Panels
  <2>3. PICK x : x = e(to)
    OBVIOUS
  <2>4. /\ x \in Page \cup {NoPage} /\ (x = NoPage => cache[view] = NoPage)
        /\ x # NoPage => x.page = view[2]
        /\ Alike(cache[view], x)
    BY <2>3, Change
  <2>5. Optimistic(m, "toggle", t, to, x)
    BY <2>1, <2>3
  <2>6. Guesses(m, "toggle", t, x)
    BY <2>1, <2>2, <2>4, <2>5, OptimisticEffect
  <2>. QED
    BY <2>4, <2>6 DEF Guessed
<1>2. CASE ~(Toggle(m, t) \/ Update(m, t))
  <2>1. PICK op \in {"remove", "restore", "purge"}, to \in BOOLEAN :
          /\ Optimistic(m, op, t, to, d) /\ Fresh(m)
          /\ IF op = "remove" THEN view[1] \in {"deck", "hooks", "shares"} ELSE view \in Trash
    BY <1>2 DEF Remove, DeleteWebhook, RevokeShare, Bulk
  <2>2. /\ op \in {"restore", "purge"} <=> view \in Trash
        /\ op = "remove" => view[1] = "deck" \/ InPanels
    BY <2>1, Places DEF Panels
  <2>3. PICK x : x = d
    OBVIOUS
  <2>4. /\ x \in Page \cup {NoPage} /\ (x = NoPage => cache[view] = NoPage)
        /\ x # NoPage => x.page = view[2]
        /\ Alike(cache[view], x)
    BY <2>3, Change
  <2>5. OnPage(x) = OnPage(cache[view]) \ {t}
    BY <2>3, Reducers DEF BoardBase, BoardTypeOK
  <2>6. Optimistic(m, op, t, to, x)
    BY <2>1, <2>3
  <2>7. Guesses(m, op, t, x)
    BY <2>1, <2>2, <2>4, <2>5, <2>6, OptimisticEffect
  <2>. QED
    BY <2>4, <2>7 DEF Guessed
<1>. QED
  BY <1>1, <1>2

LEMMA AddCommentEffect ==
    ASSUME BoardBase, NEW m \in Mutations, NEW t \in Items, AddComment(m, t) PROVE Guessed(m, t)
<1>. DEFINE c == IF cache[view] = NoPage THEN NoRows ELSE cache[view]
<1>1. /\ view \in Key /\ InPanels /\ view \notin Trash /\ view[1] \notin Paged /\ view[2] = 1
      /\ cache[view] \in Page \cup {NoPage} /\ Numbered(cache[view], view)
  BY Places DEF AddComment, Panels, BoardBase, BoardTypeOK, FetchOK
<1>2. NoRows \in Page /\ NoRows.page = 1
  <2>1. [i \in Items |-> "no"] \in [Items -> Row]
    BY DEF Row
  <2>. QED
    BY <2>1, ClientBoardAssumption DEF NoRows, Page
<1>3. c \in Page /\ c.page = view[2]
  BY <1>1, <1>2 DEF Numbered
<1>. HIDE DEF c
<1>4. PICK x : x = Prepend(c, t, FALSE)
  OBVIOUS
<1>5. x \in Page /\ x.page = view[2]
  <2>1. Alike(c, x)
    BY <1>3, <1>4, Reducers
  <2>. QED
    BY <1>3, <2>1, KeyFacts DEF Alike
<1>6. Optimistic(m, "add", t, FALSE, x) /\ Fresh(m)
  BY <1>4 DEF AddComment, c
<1>7. Guesses(m, "add", t, x)
  BY <1>1, <1>5, <1>6, KeyFacts, OptimisticEffect
<1>. QED
  BY <1>5, <1>7 DEF Guessed

Asked(m) ==
    \E op \in {"create", "edit", "remove", "restore", "clear", "grant"} :
        \E t \in Items \cup {0}, key \in {view, NoPage} : Asks(m, op, t, key)

LEMMA PlainEffect ==
    ASSUME BoardBase, NEW m \in Mutations, Fresh(m),
           NEW op \in {"create", "edit", "remove", "clear", "grant"},
           NEW t \in Items \cup {0}, t \in Items \/ op = "clear", NEW to \in BOOLEAN,
           NEW key \in {view, NoPage}, Plain(m, op, t, to, key),
           IF InPanels THEN key = view ELSE key = NoPage \/ (key = view /\ view[1] \in Paged),
           op = "grant" => InPanels,
           op = "clear" => view \in Trash /\ key = view,
           op = "create" => key = view,
           op \in {"create", "edit", "remove"} => key \notin Trash
    PROVE  Asks(m, op, t, key)
<1>1. view \in Key /\ mut[m].pc = "idle" /\ toasts \subseteq Items
  BY DEF BoardBase, BoardTypeOK, Fresh
<1>2. Begins(m, op, t, key, NoPage)
  BY <1>1, BeginEffect DEF Plain
<1>. QED
  BY <1>1, <1>2 DEF Asks, Plain, Stray

LEMMA PlainSteps ==
    ASSUME BoardBase, NEW m \in Mutations, NEW t \in Items, NEW to \in BOOLEAN,
           Create(m, t) \/ AddWebhook(m, t) \/ Edit(m, t, to) \/ Grant(m, t, to)
    PROVE  Asked(m)
<1>1. CASE Create(m, t)
  <2>1. Asks(m, "create", t, view)
    BY <1>1, Places, PlainEffect DEF Create
  <2>. QED
    BY <2>1 DEF Asked
<1>2. CASE AddWebhook(m, t)
  <2>1. Asks(m, "create", t, view)
    BY <1>2, Places, PlainEffect DEF AddWebhook, Panels
  <2>. QED
    BY <2>1 DEF Asked
<1>3. CASE Edit(m, t, to)
  <2>1. Asks(m, "edit", t, view)
    BY <1>3, Places, PlainEffect DEF Edit
  <2>. QED
    BY <2>1 DEF Asked
<1>4. CASE Grant(m, t, to)
  <2>1. Asks(m, "grant", t, view)
    BY <1>4, Places, PlainEffect DEF Grant, Panels
  <2>. QED
    BY <2>1 DEF Asked
<1>. QED
  BY <1>1, <1>2, <1>3, <1>4

LEMMA OtherPlainSteps ==
    ASSUME BoardBase, NEW m \in Mutations, NEW to \in BOOLEAN, EditHere(m, to) \/ TrashHere(m) \/ Clear(m)
    PROVE  Asked(m)
<1>0. NoPage \notin Trash
  BY KeyFacts
<1>1. CASE EditHere(m, to)
  <2>1. TheTask \in Items
    BY <1>1, ItemsShown DEF EditHere
  <2>2. Asks(m, "edit", TheTask, NoPage)
    BY <1>0, <1>1, <2>1, Places, PlainEffect DEF EditHere
  <2>. QED
    BY <2>1, <2>2 DEF Asked
<1>2. CASE TrashHere(m)
  <2>1. TheTask \in Items
    BY <1>2, ItemsShown DEF TrashHere
  <2>2. Asks(m, "remove", TheTask, NoPage)
    BY <1>0, <1>2, <2>1, Places, PlainEffect DEF TrashHere
  <2>. QED
    BY <2>1, <2>2 DEF Asked
<1>3. CASE Clear(m)
  <2>1. Asks(m, "clear", 0, view)
    BY <1>3, Places, PlainEffect DEF Clear
  <2>. QED
    BY <2>1 DEF Asked
<1>. QED
  BY <1>1, <1>2, <1>3

LEMMA UndoEffect == ASSUME BoardBase, NEW m \in Mutations, NEW t \in Items, Undo(m, t) PROVE Asked(m)
<1>1. view[1] = "deck" /\ ~InPanels /\ mut[m].pc = "idle" /\ toasts \subseteq Items
  BY Places DEF Undo, Fresh, BoardBase, BoardTypeOK
<1>2. Begins(m, "restore", t, NoPage, NoPage)
  BY <1>1, BeginEffect DEF Undo
<1>3. Asks(m, "restore", t, NoPage)
  BY <1>1, <1>2 DEF Asks, Undo, Stray
<1>. QED
  BY <1>3 DEF Asked

-----------------------------------------------------------------------------
(* Requests are served, and mutations end *)
LEMMA AppliedOK ==
    ASSUME db \in [Items -> Item], NEW r \in Mutation
    PROVE  Applied(r) \in [Items -> Item] /\ (~Allowed(r) => Applied(r) = db)
<1>. DEFINE new(t) ==
        IF t \notin Target(r) \/ ~Allowed(r) THEN db[t]
        ELSE CASE r.op \in {"create", "add", "grant"}  -> [where |-> "live", on |-> r.to]
               [] r.op \in {"toggle", "edit"} -> [db[t] EXCEPT !.on = r.to]
               [] r.op = "remove"  -> [db[t] EXCEPT !.where = IF List(r) \in Panels THEN "gone" ELSE "trash"]
               [] r.op = "restore" -> [db[t] EXCEPT !.where = IF @ = "trash" THEN "live" ELSE @]
               [] OTHER            -> [db[t] EXCEPT !.where = IF @ = "trash" THEN "gone" ELSE @]
<1>1. Applied(r) = [t \in Items |-> new(t)]
  BY DEF Applied
<1>2. ASSUME NEW t \in Items PROVE new(t) \in Item
  <2>1. db[t] \in Item /\ r.to \in BOOLEAN
    BY DEF Mutation
  <2>2. /\ [where |-> "live", on |-> r.to] \in Item
        /\ [db[t] EXCEPT !.on = r.to] \in Item
        /\ \A w \in {"new", "live", "trash", "gone"} : [db[t] EXCEPT !.where = w] \in Item
    BY <2>1 DEF Item
  <2>3. db[t].where \in {"new", "live", "trash", "gone"}
    BY <2>1 DEF Item
  <2>. QED
    BY <2>1, <2>2, <2>3
<1>3. ~Allowed(r) => \A t \in Items : new(t) = db[t]
  OBVIOUS
<1>. HIDE DEF new
<1>. QED
  BY <1>1, <1>2, <1>3

LEMMA MeetEffect ==
    ASSUME BoardBase, NEW m \in Mutations, mut[m].pc = "sent", NEW pc \in {"ok", "no"},
           mut' = [mut EXCEPT ![m].pc = pc],
           UNCHANGED <<view, prev, cache, fresh, fetch, toasts>>
    PROVE  Meets(m, pc)
<1>. DEFINE r == [mut[m] EXCEPT !.pc = pc]
<1>1. mut[m] \in Mutation
  BY DEF BoardBase, BoardTypeOK
<1>2. /\ r \in Mutation /\ r.pc = pc /\ r.op = mut[m].op /\ r.item = mut[m].item
      /\ r.key = mut[m].key /\ r.snap = mut[m].snap /\ r.left = mut[m].left
  BY <1>1 DEF Mutation
<1>. HIDE DEF r
<1>3. mut' = [mut EXCEPT ![m] = r]
  BY DEF r
<1>4. mut' \in [Mutations -> Mutation] /\ mut'[m] = r /\ \A n \in Mutations \ {m} : mut'[n] = mut[n]
  BY <1>2, <1>3 DEF BoardBase, BoardTypeOK
<1>. QED
  BY <1>2, <1>4 DEF Meets

Serves(m) ==
    /\ Meets(m, IF Allowed(mut[m]) THEN "ok" ELSE "no")
    /\ db' = Applied(mut[m]) /\ db' \in [Items -> Item] /\ moves' = moves
    /\ strays' = strays \cup Shrunk
         \cup If("raced", Ghosts(Target(mut[m]), IF mut[m].op = "clear" THEN Latest(mut[m]) ELSE NoPage))
    /\ seen' \in [Trash -> SUBSET Items]
    /\ \A k \in Trash : seen'[k] = IF mut[m].op \in {"restore", "purge", "clear"}
                                   THEN seen[k] \ Target(mut[m]) ELSE seen[k]

LEMMA ServeEffect == ASSUME BoardBase, NEW m \in Mutations, Serve(m) PROVE Serves(m)
<1>1. PICK pc \in {"ok", "no"} : pc = IF Allowed(mut[m]) THEN "ok" ELSE "no"
  OBVIOUS
<1>2. Meets(m, pc)
  BY <1>1, MeetEffect DEF Serve
<1>3. db' = Applied(mut[m]) /\ db' \in [Items -> Item]
  BY AppliedOK DEF Serve, BoardBase, BoardTypeOK
<1>4. /\ seen' \in [Trash -> SUBSET Items]
      /\ \A k \in Trash : seen'[k] = IF mut[m].op \in {"restore", "purge", "clear"}
                                     THEN seen[k] \ Target(mut[m]) ELSE seen[k]
  BY DEF Serve, BoardBase, BoardTypeOK
<1>. QED
  BY <1>1, <1>2, <1>3, <1>4 DEF Serve, Serves, Stray

Loses(m) ==
    /\ Meets(m, "no") /\ db' \in [Items -> Item] /\ moves' \in 0..MaxMoves /\ seen' = seen
    /\ (db' = db /\ strays' = strays) \/ strays' = strays \cup {"lost"}

LEMMA FailEffect == ASSUME BoardBase, NEW m \in Mutations, Fail(m) PROVE Loses(m)
<1>1. Meets(m, "no")
  BY MeetEffect DEF Fail
<1>2. db' \in [Items -> Item]
  BY AppliedOK DEF Fail, BoardBase, BoardTypeOK
<1>3. moves' \in 0..MaxMoves
  BY ClientBoardAssumption DEF Fail, Move, BoardBase, BoardTypeOK
<1>. QED
  BY <1>1, <1>2, <1>3 DEF Fail, Loses, Stray

(* What is in the cache afterwards, and what is asked for again. *)
Settles(m) ==
    /\ Ends(m) /\ cache' \in Caches /\ fresh' \in Flags /\ fetch' \in [Key -> Fetch] /\ toasts' \subseteq Items
    /\ \A j \in Key : Numbered(cache'[j], j) /\ (cache[j] # NoPage => cache'[j] # NoPage)
    /\ \A j \in Key : \/ fetch'[j] = fetch[j]
                      \/ j = view /\ fetch'[j].pc = "sent" /\ fetch'[j].data = NoPage
    /\ strays \subseteq strays' /\ strays' \subseteq strays \cup {"raced", "reverted"}

Recalled(m) ==
    /\ \A j \in Stale(mut[m]) : j \in Key => ~fresh'[j]
    /\ "raced" \notin strays' => \A j \in Stale(mut[m]) : fetch'[j].pc # "read"

Succeeds(m) ==
    /\ Settles(m) /\ mut[m].pc = "ok" /\ Recalled(m)
    /\ "raced" \notin strays' => Leftover(mut[m]) = {}
    /\ \A j \in Key : /\ j[1] = "deck" => Alike(cache[j], cache'[j])
                      /\ j \in Trash => \/ OnPage(cache'[j]) = OnPage(cache[j]) /\ (mut[m].op = "clear" => j # Latest(mut[m]))
                                        \/ mut[m].op = "clear" /\ j = Latest(mut[m]) /\ OnPage(cache'[j]) = {}

Rejects(m) ==
    /\ Settles(m) /\ mut[m].pc = "no"
    /\ \A j \in Key : \/ cache'[j] = cache[j] /\ (mut[m].snap # NoPage => j # mut[m].key)
                      \/ mut[m].snap # NoPage /\ j = mut[m].key /\ cache'[j] = mut[m].snap
    /\ IF mut[m].op \in Plainly THEN UNCHANGED <<cache, fresh, fetch, strays>>
       ELSE Recalled(m) /\ Reverted(mut[m]) \subseteq strays'

LEMMA EndEffect ==
    ASSUME BoardBase, NEW m \in Mutations, Active(m), mut' = [mut EXCEPT ![m] = [NoMutation EXCEPT !.pc = "done"]],
           UNCHANGED <<db, view, prev, moves, seen>>
    PROVE  Ends(m)
<1>. DEFINE r == [NoMutation EXCEPT !.pc = "done"]
<1>1. r \in Mutation /\ r.pc = "done" /\ r.snap = NoPage
  BY DEF NoMutation, Mutation
<1>. HIDE DEF r
<1>2. mut' = [mut EXCEPT ![m] = r]
  BY DEF r
<1>. QED
  BY <1>1, <1>2 DEF Ends, BoardBase, BoardTypeOK

LEMMA InvalidateEffect ==
    ASSUME BoardBase, NEW r, NEW c, NEW f \in Flags, NEW S, Invalidate(r, c, f, S)
    PROVE  /\ fresh' \in Flags /\ fetch' \in [Key -> Fetch]
           /\ \A j \in Key : j \in Stale(r) => ~fresh'[j]
           /\ \A j \in Key : \/ fetch'[j] = fetch[j]
                             \/ j = view /\ fetch'[j].pc = "sent" /\ fetch'[j].data = NoPage
           /\ strays \cup S \subseteq strays' /\ strays' \subseteq strays \cup S \cup {"raced"}
           /\ "raced" \notin strays' => \A j \in Stale(r) : fetch'[j].pc # "read"
<1>1. /\ fresh' \in Flags /\ \A j \in Key : j \in Stale(r) => ~fresh'[j]
  BY DEF Invalidate, Flags
<1>. DEFINE new == [NoFetch EXCEPT !.pc = "sent"]
<1>2. new \in Fetch /\ new.pc = "sent" /\ new.data = NoPage
  BY DEF NoFetch, Fetch
<1>. HIDE DEF new
<1>3. fetch' = fetch \/ fetch' = [fetch EXCEPT ![view] = new]
  BY DEF Invalidate, new
<1>4. /\ fetch' \in [Key -> Fetch]
      /\ \A j \in Key : \/ fetch'[j] = fetch[j]
                        \/ j = view /\ fetch'[j].pc = "sent" /\ fetch'[j].data = NoPage
  BY <1>2, <1>3 DEF BoardBase, BoardTypeOK, Fetch
<1>. QED
  BY <1>1, <1>4 DEF Invalidate, Stray, If

LEMMA RecordFacts ==
    ASSUME BoardBase, NEW m \in Mutations, Active(m)
    PROVE  /\ mut[m] \in Mutation /\ mut[m].to \in BOOLEAN /\ mut[m].snap \in Page \cup {NoPage}
           /\ mut[m].key \in Key \cup {NoPage} /\ Latest(mut[m]) \in Key
           /\ mut[m].key # NoPage => Latest(mut[m])[1] = mut[m].key[1]
           /\ mut[m].op # "clear" => mut[m].item \in Items
           /\ mut[m].op = "clear" => Latest(mut[m]) \in Trash /\ mut[m].key \in Trash /\ ~InPanels
           /\ mut[m].op \in {"create", "edit"} /\ mut[m].key # NoPage => Latest(mut[m]) \notin Trash
<1>1. /\ mut[m] \in Mutation /\ mut[m].to \in BOOLEAN /\ mut[m].snap \in Page \cup {NoPage}
      /\ mut[m].key \in Key \cup {NoPage} /\ mut[m].left \in Key \cup {NoPage} /\ view \in Key
  BY DEF BoardBase, BoardTypeOK, Mutation
<1>2. RecordOK(m)
  BY DEF BoardBase, MutOK
<1>3. Latest(mut[m]) \in Key
  BY <1>1, KeyFacts DEF Latest
<1>4. mut[m].key \in Trash => mut[m].key # NoPage /\ mut[m].key[1] = "trash" /\ ~InPanels
  BY <1>2, KeyFacts, Places DEF RecordOK
<1>. QED
  BY <1>1, <1>2, <1>3, <1>4, KeyFacts DEF RecordOK

LEMMA ShowsEffect ==
    ASSUME BoardBase, NEW m \in Mutations, Active(m), cache' = Shows(mut[m])
    PROVE  /\ cache' \in Caches
           /\ \A j \in Key : Numbered(cache'[j], j) /\ (cache[j] # NoPage => cache'[j] # NoPage)
           /\ \A j \in Key :
                /\ j[1] = "deck" => Alike(cache[j], cache'[j])
                /\ j \in Trash => \/ OnPage(cache'[j]) = OnPage(cache[j]) /\ (mut[m].op = "clear" => j # Latest(mut[m]))
                                  \/ mut[m].op = "clear" /\ j = Latest(mut[m]) /\ OnPage(cache'[j]) = {}
<1>. DEFINE l == Latest(mut[m])
            r == mut[m]
            none == [i \in Items |-> "no"]
            bare == [cache[l] EXCEPT !.rows = none, !.total = 0, !.pages = 0]
<1>1. /\ l \in Key /\ r.to \in BOOLEAN /\ cache \in Caches /\ cache[l] \in Page \cup {NoPage}
      /\ r.op # "clear" => r.item \in Items
      /\ r.op = "clear" => l \in Trash /\ l[1] = "trash"
  BY RecordFacts, KeyFacts DEF BoardBase, BoardTypeOK, Caches
<1>2. \A j \in Key : Numbered(cache[j], j) /\ cache[j] \in Page \cup {NoPage} /\ Alike(cache[j], cache[j])
  BY DEF BoardBase, FetchOK, BoardTypeOK, Alike
<1>3. CASE cache' = cache /\ r.op # "clear"
  BY <1>1, <1>2, <1>3
<1>4. ASSUME NEW x, cache' = [cache EXCEPT ![l] = x], Alike(cache[l], x), r.op # "clear", l \notin Trash
      PROVE  /\ cache' \in Caches
             /\ \A j \in Key : Numbered(cache'[j], j) /\ (cache[j] # NoPage => cache'[j] # NoPage)
             /\ \A j \in Key : /\ j[1] = "deck" => Alike(cache[j], cache'[j])
                               /\ j \in Trash => OnPage(cache'[j]) = OnPage(cache[j])
  <2>1. x \in Page \cup {NoPage} /\ Numbered(x, l) /\ (cache[l] # NoPage => x # NoPage)
    BY <1>1, <1>2, <1>4, KeyFacts DEF Alike, Numbered
  <2>2. cache' \in Caches /\ cache'[l] = x /\ \A j \in Key \ {l} : cache'[j] = cache[j]
    BY <1>1, <1>4, <2>1 DEF Caches
  <2>. QED
    BY <1>2, <1>4, <2>1, <2>2
<1>5. CASE r.op = "create" /\ List(r) = "deck"
  <2>1. cache' = [cache EXCEPT ![l] = Prepend(cache[l], r.item, r.to)]
    BY <1>5 DEF Shows
  <2>2. Alike(cache[l], Prepend(cache[l], r.item, r.to))
    BY <1>1, <1>5, Reducers
  <2>3. l \notin Trash
    <3>1. r.key = NoPage \/ r.key[1] = "deck"
      BY <1>5 DEF List
    <3>2. r.key # NoPage
      BY <1>5 DEF BoardBase, MutOK, RecordOK
    <3>. QED
      BY <1>5, <3>2, RecordFacts
  <2>. QED
    BY <1>4, <1>5, <2>1, <2>2, <2>3
<1>6. CASE r.op = "edit" /\ r.key # NoPage
  <2>1. cache' = [cache EXCEPT ![l] = Patch(cache[l], r.item, r.to)]
    BY <1>6 DEF Shows
  <2>2. Alike(cache[l], Patch(cache[l], r.item, r.to)) /\ l \notin Trash
    BY <1>1, <1>6, Reducers, RecordFacts
  <2>. QED
    BY <1>4, <1>6, <2>1, <2>2
<1>7. CASE r.op = "clear"
  <2>1. PICK x : x = IF cache[l] = NoPage THEN NoPage ELSE bare
    OBVIOUS
  <2>2. cache' = [cache EXCEPT ![l] = x]
    BY <1>7, <2>1 DEF Shows
  <2>3. x \in Page \cup {NoPage} /\ Numbered(x, l) /\ (cache[l] # NoPage => x # NoPage) /\ OnPage(x) = {}
    <3>1. CASE cache[l] = NoPage
      BY <2>1, <3>1 DEF Numbered, OnPage
    <3>2. CASE cache[l] # NoPage
      <4>1. cache[l] \in Page /\ none \in [Items -> Row] /\ cache[l].page = l[2]
        BY <1>1, <1>2, <3>2 DEF Row, Numbered
      <4>2. bare \in Page /\ bare.page = l[2] /\ bare.rows = none
        <5>. HIDE DEF none
        <5>1. 0 \in 0..Cardinality(Items)
          BY FS_CardinalityType, ClientBoardAssumption
        <5>. QED
          BY <4>1, <5>1 DEF Page
      <4>3. x = bare /\ \A i \in Items : none[i] = "no"
        BY <2>1, <3>2
      <4>. HIDE DEF bare, none
      <4>. QED
        BY <4>2, <4>3, KeyFacts DEF Numbered, OnPage
    <3>. QED
      BY <3>1, <3>2
  <2>4. cache' \in Caches /\ cache'[l] = x /\ \A j \in Key \ {l} : cache'[j] = cache[j]
    BY <1>1, <2>2, <2>3 DEF Caches
  <2>. QED
    BY <1>1, <1>2, <1>7, <2>3, <2>4
<1>. QED
  BY <1>3, <1>4, <1>5, <1>6, <1>7 DEF Shows

LEMMA SucceedEffect == ASSUME BoardBase, NEW m \in Mutations, Succeed(m) PROVE Succeeds(m)
<1>. DEFINE f == [k \in Key |-> fresh[k] \/ cache'[k] # cache[k]]
<1>1. mut[m].pc = "ok" /\ Active(m) /\ cache' = Shows(mut[m])
  BY DEF Succeed, Active
<1>2. f \in Flags
  BY DEF Flags
<1>3. Invalidate(mut[m], cache', f, Leftover(mut[m]))
  BY DEF Succeed
<1>. HIDE DEF f
<1>4. Ends(m)
  BY <1>1, EndEffect DEF Succeed
<1>5. toasts' \subseteq Items
  BY <1>1, RecordFacts DEF Succeed, BoardBase, BoardTypeOK
<1>6. Leftover(mut[m]) \subseteq {"raced"}
  BY DEF Leftover, If
<1>7. /\ fresh' \in Flags /\ fetch' \in [Key -> Fetch]
      /\ \A j \in Key : j \in Stale(mut[m]) => ~fresh'[j]
      /\ \A j \in Key : \/ fetch'[j] = fetch[j]
                        \/ j = view /\ fetch'[j].pc = "sent" /\ fetch'[j].data = NoPage
      /\ strays \cup Leftover(mut[m]) \subseteq strays'
      /\ strays' \subseteq strays \cup Leftover(mut[m]) \cup {"raced"}
      /\ "raced" \notin strays' => \A j \in Stale(mut[m]) : fetch'[j].pc # "read"
  BY <1>2, <1>3, InvalidateEffect
<1>8. Recalled(m)
  BY <1>7 DEF Recalled
<1>9. Settles(m)
  BY <1>1, <1>4, <1>5, <1>6, <1>7, ShowsEffect DEF Settles
<1>10. "raced" \notin strays' => Leftover(mut[m]) = {}
  BY <1>6, <1>7
<1>. QED
  BY <1>1, <1>8, <1>9, <1>10, ShowsEffect DEF Succeeds

LEMMA RejectedEffect == ASSUME BoardBase, NEW m \in Mutations, Rejected(m) PROVE Rejects(m)
<1>. DEFINE f == [k \in Key |-> fresh[k] \/ cache'[k] # cache[k]]
            r == mut[m]
<1>1. r.pc = "no" /\ Active(m) /\ cache' = Rollback(r) /\ toasts' \subseteq Items
  BY DEF Rejected, Active, BoardBase, BoardTypeOK
<1>2. f \in Flags
  BY DEF Flags
<1>3. IF r.op \in Plainly THEN UNCHANGED <<fresh, fetch, strays>>
      ELSE Invalidate(r, cache', f, Reverted(r))
  BY DEF Rejected, Plainly
<1>. HIDE DEF f
<1>4. Ends(m)
  BY <1>1, EndEffect DEF Rejected
<1>5. RecordOK(m) /\ r.snap \in Page \cup {NoPage} /\ r.key \in Key \cup {NoPage} /\ cache \in Caches
  BY <1>1, RecordFacts DEF BoardBase, MutOK, BoardTypeOK, Caches
<1>6. \A j \in Key : Numbered(cache[j], j)
  BY DEF BoardBase, FetchOK
<1>7. CASE r.snap = NoPage
  <2>1. cache' = cache
    BY <1>1, <1>7 DEF Rollback
  <2>2. CASE r.op \in Plainly
    BY <1>1, <1>3, <1>4, <1>5, <1>6, <1>7, <2>1, <2>2 DEF Rejects, Settles, BoardBase, BoardTypeOK, Flags, Fetch
  <2>3. CASE r.op \notin Plainly
    <3>1. Invalidate(r, cache', f, Reverted(r)) /\ Reverted(r) \subseteq {"reverted"}
      BY <1>3, <2>3 DEF Reverted, If
    <3>2. /\ fresh' \in Flags /\ fetch' \in [Key -> Fetch]
          /\ \A j \in Key : j \in Stale(r) => ~fresh'[j]
          /\ \A j \in Key : \/ fetch'[j] = fetch[j]
                            \/ j = view /\ fetch'[j].pc = "sent" /\ fetch'[j].data = NoPage
          /\ strays \cup Reverted(r) \subseteq strays' /\ strays' \subseteq strays \cup Reverted(r) \cup {"raced"}
          /\ "raced" \notin strays' => \A j \in Stale(r) : fetch'[j].pc # "read"
      BY <1>2, <3>1, InvalidateEffect
    <3>3. Recalled(m)
      BY <3>2 DEF Recalled
    <3>. QED
      BY <1>1, <1>4, <1>5, <1>6, <1>7, <2>1, <2>3, <3>1, <3>2, <3>3 DEF Rejects, Settles
  <2>. QED
    BY <2>2, <2>3
<1>8. CASE r.snap # NoPage
  <2>1. cache' = [cache EXCEPT ![r.key] = r.snap]
    BY <1>1, <1>8 DEF Rollback
  <2>2. r.key \in Key /\ r.op \notin Plainly /\ Numbered(r.snap, r.key)
    BY <1>5, <1>8 DEF RecordOK
  <2>3. cache' \in Caches /\ cache'[r.key] = r.snap /\ \A j \in Key \ {r.key} : cache'[j] = cache[j]
    BY <1>5, <2>1, <2>2 DEF Caches
  <2>4. Invalidate(r, cache', f, Reverted(r)) /\ Reverted(r) \subseteq {"reverted"}
    BY <1>3, <2>2 DEF Reverted, If
  <2>5. /\ fresh' \in Flags /\ fetch' \in [Key -> Fetch]
        /\ \A j \in Key : j \in Stale(r) => ~fresh'[j]
        /\ \A j \in Key : \/ fetch'[j] = fetch[j]
                          \/ j = view /\ fetch'[j].pc = "sent" /\ fetch'[j].data = NoPage
        /\ strays \cup Reverted(r) \subseteq strays' /\ strays' \subseteq strays \cup Reverted(r) \cup {"raced"}
        /\ "raced" \notin strays' => \A j \in Stale(r) : fetch'[j].pc # "read"
    BY <1>2, <2>4, InvalidateEffect
  <2>6. Recalled(m)
    BY <2>5 DEF Recalled
  <2>7. Settles(m)
    BY <1>1, <1>4, <1>6, <1>8, <2>2, <2>3, <2>4, <2>5 DEF Settles
  <2>. QED
    BY <1>1, <1>8, <2>2, <2>3, <2>4, <2>5, <2>6, <2>7 DEF Rejects
<1>. QED
  BY <1>7, <1>8

-----------------------------------------------------------------------------
(* The step relation, kind by kind *)
LEMMA Kinds ==
    ASSUME BoardBase, BoardNext
    PROVE  \/ \E k \in Key : Reads(k) \/ Arrives(k) \/ Vanishes(k) \/ Turns(k)
           \/ \E m \in Mutations : \/ Asked(m) \/ \E t \in Items : Guessed(m, t)
                                   \/ Serves(m) \/ Loses(m) \/ Succeeds(m) \/ Rejects(m)
<1>1. CASE Answers
  BY <1>1, ReadEffect, ArriveEffect, ServeEffect, SucceedEffect, RejectedEffect DEF Answers
<1>2. ASSUME NEW old \in BOOLEAN, NextPage(old) \/ PrevPage(old) \/ \E k \in Key : Go(k, old)
      PROVE  \E k \in Key : Turns(k)
  BY <1>2, NextPageEffect, PrevPageEffect, GoEffect
<1>3. ASSUME NEW m \in Mutations, NEW t \in Items,
             \/ Toggle(m, t) \/ Remove(m, t) \/ Create(m, t) \/ Undo(m, t)
             \/ Update(m, t) \/ DeleteWebhook(m, t) \/ AddWebhook(m, t)
             \/ RevokeShare(m, t) \/ AddComment(m, t)
             \/ \E to \in BOOLEAN : Edit(m, t, to) \/ Grant(m, t, to)
             \/ \E op \in {"restore", "purge"} : Bulk(m, t, op)
      PROVE  Asked(m) \/ Guessed(m, t)
  BY <1>3, OptimisticSteps, AddCommentEffect, PlainSteps, UndoEffect
<1>4. ASSUME NEW m \in Mutations, Clear(m) \/ TrashHere(m) \/ \E to \in BOOLEAN : EditHere(m, to)
      PROVE  Asked(m)
  BY <1>4, OtherPlainSteps
<1>5. CASE Clicks
  BY <1>2, <1>3, <1>4, <1>5 DEF Clicks
<1>. QED
  BY <1>1, <1>5, FetchFailsEffect, FailEffect DEF BoardNext

(* A record that a step leaves alone keeps what holds of it. *)
LEMMA RecordKept ==
    ASSUME BoardBase, NEW n \in Mutations, SameRecord(n), mut'[n].left = mut[n].left, view' = view, strays \subseteq strays'
    PROVE  RecordOK(n)'
<1>1. RecordOK(n)
  BY DEF BoardBase, MutOK
<1>2. Latest(mut[n])' = Latest(mut[n]) /\ InPanels' = InPanels /\ Active(n)' = Active(n)
  BY DEF Latest, InPanels, Active, SameRecord
<1>. QED
  BY <1>1, <1>2 DEF RecordOK, SameRecord, Numbered

LEMMA RecordsKept ==
    ASSUME BoardBase, mut' = mut, view' = view, strays \subseteq strays'
    PROVE  MutOK'
BY RecordKept DEF MutOK, SameRecord

LEMMA CausesKept ==
    ASSUME BoardBase
    PROVE  /\ strays \subseteq StrayCauses
           /\ \A m : Overlap(m) \subseteq {"overlap"}
           /\ \A x, b : If(x, b) \subseteq {x}
           /\ Shrunk \subseteq {"shrunk"}
BY DEF BoardBase, BoardTypeOK, StrayCauses, Overlap, If, Shrunk

LEMMA ReadsBase == ASSUME BoardBase, NEW k \in Key, Reads(k) PROVE BoardBase'
<1>1. BoardTypeOK'
  BY DEF BoardBase, BoardTypeOK, Reads, Fetch
<1>2. FetchOK'
  BY ListingOK, KeyFacts DEF BoardBase, BoardTypeOK, FetchOK, Reads, Numbered
<1>3. MutOK'
  BY RecordsKept DEF Reads
<1>4. PagerOK'
  BY DEF BoardBase, PagerOK, Reads
<1>. QED
  BY <1>1, <1>2, <1>3, <1>4 DEF BoardBase

LEMMA ArrivesBase == ASSUME BoardBase, NEW k \in Key, Arrives(k) PROVE BoardBase'
<1>1. prev' \in Page \cup {NoPage}
  BY DEF BoardBase, BoardTypeOK, Arrives
<1>2. BoardTypeOK'
  BY <1>1 DEF BoardBase, BoardTypeOK, Arrives, Fetch, Caches, Flags
<1>3. FetchOK'
  BY NoFetchOK DEF BoardBase, FetchOK, Arrives, Numbered
<1>4. MutOK'
  BY RecordsKept DEF Arrives
<1>5. cache'[k] # NoPage /\ \A j \in Key : cache[j] # NoPage => cache'[j] # NoPage
  BY DEF BoardBase, FetchOK, Arrives
<1>6. view[2] > 1 => <<view[1], 1>> \in Key
  BY KeyFacts DEF BoardBase, BoardTypeOK
<1>7. PagerOK'
  <2>1. view' = view /\ view \in Key /\ prev' = IF k = view THEN NoPage ELSE prev
    BY DEF BoardBase, BoardTypeOK, Arrives
  <2>. QED
    BY <1>5, <1>6, <2>1 DEF BoardBase, PagerOK
<1>. QED
  BY <1>2, <1>3, <1>4, <1>7 DEF BoardBase

LEMMA VanishesBase == ASSUME BoardBase, NEW k \in Key, Vanishes(k) PROVE BoardBase'
<1>1. BoardTypeOK'
  BY CausesKept DEF BoardBase, BoardTypeOK, Vanishes, Fetch, StrayCauses
<1>2. FetchOK'
  BY NoFetchOK DEF BoardBase, FetchOK, Vanishes, Numbered
<1>3. MutOK'
  BY RecordsKept DEF Vanishes
<1>4. PagerOK'
  BY DEF BoardBase, PagerOK, Vanishes
<1>. QED
  BY <1>1, <1>2, <1>3, <1>4 DEF BoardBase

LEMMA TurnsBase == ASSUME BoardBase, NEW k \in Key, Turns(k) PROVE BoardBase'
<1>1. BoardTypeOK'
  BY CausesKept DEF BoardBase, BoardTypeOK, Turns, Fetch, StrayCauses
<1>2. FetchOK'
  BY DEF BoardBase, FetchOK, Turns, Numbered
<1>3. ASSUME NEW n \in Mutations PROVE RecordOK(n)'
  <2>1. RecordOK(n) /\ SameRecord(n) /\ ~InPanels /\ ~InPanels' /\ strays \subseteq strays'
    BY <1>3 DEF BoardBase, MutOK, Turns, InPanels
  <2>2. mut[n].key # NoPage /\ Active(n) => Latest(mut[n])'[1] = mut[n].key[1]
    BY <1>3 DEF Turns
  <2>3. Active(n)' = Active(n)
    BY <2>1 DEF Active, SameRecord
  <2>. QED
    BY <2>1, <2>2, <2>3 DEF RecordOK, SameRecord, Numbered
<1>4. PagerOK'
  BY DEF Turns
<1>. QED
  BY <1>1, <1>2, <1>3, <1>4 DEF BoardBase, MutOK

LEMMA GuessesBase ==
    ASSUME BoardBase, NEW m \in Mutations, NEW t \in Items, Guessed(m, t)
    PROVE  BoardBase'
<1>1. PICK op \in {"toggle", "remove", "restore", "purge", "add"}, d \in Page \cup {NoPage} : Guesses(m, op, t, d)
  BY DEF Guessed
<1>2. /\ strays' = strays \cup If("cancelled", view \in Trash /\ cache[view] = NoPage) \cup Overlap(m)
      /\ strays \subseteq strays' /\ strays' \subseteq StrayCauses
  BY <1>1, CausesKept DEF Guesses, StrayCauses
<1>3. BoardTypeOK'
  BY <1>1, <1>2 DEF BoardBase, BoardTypeOK, Guesses, Begins, Fetch, Caches, Flags, StrayCauses
<1>4. FetchOK'
  BY <1>1, NoFetchOK DEF BoardBase, BoardTypeOK, FetchOK, Guesses, Numbered
<1>5. ASSUME NEW n \in Mutations \ {m} PROVE RecordOK(n)'
  BY <1>1, <1>2, <1>5, RecordKept DEF Guesses, Begins
<1>6. RecordOK(m)'
  <2>1. /\ mut'[m].op = op /\ mut'[m].item = t /\ mut'[m].key = view /\ mut'[m].snap = cache[view]
        /\ mut'[m].left = NoPage /\ mut'[m].pc = "sent" /\ view' = view
    BY <1>1 DEF Guesses, Begins
  <2>2. view \in Key /\ view # NoPage /\ Numbered(cache[view], view)
    BY KeyFacts DEF BoardBase, BoardTypeOK, FetchOK
  <2>3. Latest(mut[m])' = view /\ InPanels' = InPanels
    BY <2>1 DEF Latest, InPanels
  <2>4. /\ op \notin Plainly /\ op # "clear" /\ op # "create" /\ op # "none"
        /\ InPanels \/ view[1] \in Paged
        /\ op = "add" => InPanels
        /\ op \in {"restore", "purge"} <=> view \in Trash
    BY <1>1, Places DEF Guesses, Plainly
  <2>. QED
    BY <2>1, <2>2, <2>3, <2>4 DEF RecordOK, Active, Numbered
<1>7. PagerOK'
  <2>1. \A j \in Key : cache[j] # NoPage => cache'[j] # NoPage
    BY <1>1 DEF Guesses
  <2>2. view \in Key /\ (view[2] > 1 => <<view[1], 1>> \in Key) /\ view' = view /\ prev' = prev
    BY <1>1, KeyFacts DEF BoardBase, BoardTypeOK, Guesses
  <2>. QED
    BY <2>1, <2>2 DEF BoardBase, PagerOK
<1>. QED
  BY <1>3, <1>4, <1>5, <1>6, <1>7 DEF BoardBase, MutOK

LEMMA AsksBase == ASSUME BoardBase, NEW m \in Mutations, Asked(m) PROVE BoardBase'
<1>1. PICK op \in {"create", "edit", "remove", "restore", "clear", "grant"},
           t \in Items \cup {0}, key \in {view, NoPage} : Asks(m, op, t, key)
  BY DEF Asked
<1>2. strays \subseteq strays' /\ strays' \subseteq StrayCauses
  BY <1>1, CausesKept DEF Asks, StrayCauses
<1>3. BoardTypeOK'
  BY <1>1, <1>2 DEF BoardBase, BoardTypeOK, Asks, Begins, StrayCauses
<1>4. FetchOK' /\ PagerOK'
  BY <1>1 DEF BoardBase, FetchOK, PagerOK, Asks
<1>5. ASSUME NEW n \in Mutations \ {m} PROVE RecordOK(n)'
  BY <1>1, <1>2, <1>5, RecordKept DEF Asks, Begins
<1>6. RecordOK(m)'
  <2>1. /\ mut'[m].op = op /\ mut'[m].item = t /\ mut'[m].key = key /\ mut'[m].snap = NoPage
        /\ mut'[m].left = NoPage /\ mut'[m].pc = "sent" /\ view' = view
    BY <1>1 DEF Asks, Begins
  <2>2. view \in Key /\ view # NoPage
    BY KeyFacts DEF BoardBase, BoardTypeOK
  <2>3. Latest(mut[m])' = view /\ InPanels' = InPanels
    BY <2>1 DEF Latest, InPanels
  <2>. QED
    BY <1>1, <2>1, <2>2, <2>3 DEF RecordOK, Active, Asks
<1>. QED
  BY <1>3, <1>4, <1>5, <1>6 DEF BoardBase, MutOK

LEMMA MeetsRecords ==
    ASSUME BoardBase, NEW m \in Mutations, NEW pc \in {"ok", "no"}, Meets(m, pc), strays \subseteq strays'
    PROVE  MutOK'
<1>1. ASSUME NEW n \in Mutations \ {m} PROVE RecordOK(n)'
  BY <1>1, RecordKept DEF Meets, SameRecord
<1>2. RecordOK(m)'
  <2>1. RecordOK(m) /\ Active(m) /\ Active(m)'
    BY DEF BoardBase, MutOK, Meets, Active
  <2>2. Latest(mut[m])' = Latest(mut[m]) /\ InPanels' = InPanels
    BY DEF Meets, Latest, InPanels
  <2>. QED
    BY <2>1, <2>2 DEF RecordOK, Meets, Numbered
<1>. QED
  BY <1>1, <1>2 DEF MutOK

LEMMA ServesBase == ASSUME BoardBase, NEW m \in Mutations, Serves(m) PROVE BoardBase'
<1>1. PICK pc \in {"ok", "no"} : Meets(m, pc)
  BY DEF Serves
<1>2. strays \subseteq strays' /\ strays' \subseteq StrayCauses
  BY CausesKept DEF Serves, StrayCauses
<1>3. BoardTypeOK'
  BY <1>1, <1>2 DEF BoardBase, BoardTypeOK, Serves, Meets, StrayCauses
<1>4. FetchOK' /\ PagerOK'
  BY <1>1 DEF BoardBase, FetchOK, PagerOK, Meets
<1>5. MutOK'
  BY <1>1, <1>2, MeetsRecords
<1>. QED
  BY <1>3, <1>4, <1>5 DEF BoardBase

LEMMA LosesBase == ASSUME BoardBase, NEW m \in Mutations, Loses(m) PROVE BoardBase'
<1>1. Meets(m, "no")
  BY DEF Loses
<1>2. strays \subseteq strays' /\ strays' \subseteq StrayCauses
  BY CausesKept DEF Loses, StrayCauses
<1>3. BoardTypeOK'
  BY <1>1, <1>2 DEF BoardBase, BoardTypeOK, Loses, Meets, StrayCauses
<1>4. FetchOK' /\ PagerOK'
  BY <1>1 DEF BoardBase, FetchOK, PagerOK, Meets
<1>5. MutOK'
  BY <1>1, <1>2, MeetsRecords
<1>. QED
  BY <1>3, <1>4, <1>5 DEF BoardBase

LEMMA SettlesBase == ASSUME BoardBase, NEW m \in Mutations, Settles(m) PROVE BoardBase'
<1>1. strays \subseteq strays' /\ strays' \subseteq StrayCauses
  BY CausesKept DEF Settles, StrayCauses
<1>2. BoardTypeOK'
  BY <1>1 DEF BoardBase, BoardTypeOK, Settles, Ends, Fetch, Caches, Flags, StrayCauses
<1>3. FetchOK'
  BY DEF BoardBase, FetchOK, Settles, Numbered
<1>4. ASSUME NEW n \in Mutations \ {m} PROVE RecordOK(n)'
  BY <1>1, <1>4, RecordKept DEF Settles, Ends, SameRecord
<1>5. RecordOK(m)'
  BY DEF RecordOK, Settles, Ends, Active
<1>6. PagerOK'
  <2>1. view' = view /\ prev' = prev /\ \A j \in Key : cache[j] # NoPage => cache'[j] # NoPage
    BY DEF Settles, Ends
  <2>2. view \in Key /\ (view[2] > 1 => <<view[1], 1>> \in Key)
    BY KeyFacts DEF BoardBase, BoardTypeOK
  <2>. QED
    BY <2>1, <2>2 DEF BoardBase, PagerOK
<1>. QED
  BY <1>2, <1>3, <1>4, <1>5, <1>6 DEF BoardBase, MutOK

LEMMA InitBase == ASSUME BoardInit PROVE BoardBase
<1>1. view \in Key /\ view[2] = 1 /\ prev = NoPage
  BY DEF BoardInit
<1>2. db \in [Items -> Item]
  BY DEF BoardInit, Item
<1>3. cache \in [Key -> Page \cup {NoPage}] /\ fresh \in [Key -> BOOLEAN] /\ \A k \in Key : cache[k] = NoPage
  BY DEF BoardInit
<1>. DEFINE new == [NoFetch EXCEPT !.pc = "sent"]
<1>4. new \in Fetch /\ new.pc = "sent" /\ new.data = NoPage
  BY DEF NoFetch, Fetch
<1>. HIDE DEF new
<1>5. fetch = [k \in Key |-> IF k = view THEN new ELSE NoFetch]
  BY DEF BoardInit, new
<1>6. fetch \in [Key -> Fetch] /\ \A k \in Key : fetch[k].pc # "read" /\ fetch[k].data = NoPage
  BY <1>4, <1>5, NoFetchOK
<1>7. NoMutation \in Mutation /\ NoMutation.pc = "idle" /\ NoMutation.snap = NoPage
  BY DEF NoMutation, Mutation
<1>8. mut \in [Mutations -> Mutation] /\ \A m \in Mutations : mut[m].pc = "idle" /\ mut[m].snap = NoPage
  BY <1>7 DEF BoardInit
<1>9. toasts \subseteq Items /\ moves \in 0..MaxMoves /\ seen \in [Trash -> SUBSET Items] /\ strays = {}
  BY ClientBoardAssumption DEF BoardInit
<1>10. BoardTypeOK
  BY <1>1, <1>2, <1>3, <1>6, <1>8, <1>9 DEF BoardTypeOK, Fetch
<1>11. FetchOK
  BY <1>3, <1>6 DEF FetchOK, Numbered
<1>12. MutOK
  BY <1>8 DEF MutOK, RecordOK, Active
<1>13. PagerOK
  BY <1>1 DEF PagerOK
<1>. QED
  BY <1>10, <1>11, <1>12, <1>13 DEF BoardBase

LEMMA StutterBase == ASSUME BoardBase, UNCHANGED boardVars PROVE BoardBase'
<1>1. BoardTypeOK' /\ FetchOK' /\ PagerOK'
  BY DEF BoardBase, BoardTypeOK, FetchOK, PagerOK, boardVars
<1>2. MutOK'
  BY RecordsKept DEF boardVars
<1>. QED
  BY <1>1, <1>2 DEF BoardBase

LEMMA StepBase == ASSUME BoardBase, BoardNext PROVE BoardBase'
BY Kinds, ReadsBase, ArrivesBase, VanishesBase, TurnsBase, AsksBase, GuessesBase,
   ServesBase, LosesBase, SettlesBase DEF Succeeds, Rejects

(* The lists, the requests and the mutations hold what they are made for, in *)
(* every behaviour.                                                          *)
THEOREM BoardTypeCorrect == BoardSpec => []BoardTypeOK
<1>1. BoardInit => BoardBase
  BY InitBase
<1>2. BoardBase /\ [BoardNext]_boardVars => BoardBase'
  BY StepBase, StutterBase
<1>3. BoardBase => BoardTypeOK
  BY DEF BoardBase
<1>. QED
  BY <1>1, <1>2, <1>3, PTL DEF BoardSpec

-----------------------------------------------------------------------------
(* The deck and the panels.  Of the lists of this part of the application,   *)
(* what is fresh in the cache, and what was read and is on its way, is what  *)
(* the server has: or a mutation is under way that will have them fetched    *)
(* again, whichever way it ends.                                             *)
Own == {k \in Key : k[1] = IF InPanels THEN view[1] ELSE "deck"}
Dirty(m) == Active(m) /\ (mut[m].op \notin Plainly \/ mut[m].pc = "ok")
Dirt == \E m \in Mutations : Dirty(m)
Truth ==
    \/ strays \cap {"lost", "raced"} # {}
    \/ Dirt
    \/ \A k \in Own : /\ cache[k] # NoPage /\ fresh[k] => cache[k] = Listing(k)
                      /\ fetch[k].pc = "read" => fetch[k].data = Listing(k)

LEMMA SameListing ==
    ASSUME db' = db
    PROVE  /\ \A k \in Key : Listing(k)' = Listing(k)
           /\ \A l : In(l)' = In(l)
           /\ Size' = Size
<1>1. \A l : In(l)' = In(l)
  BY DEF In
<1>. QED
  BY <1>1 DEF Listing, Newer, Size

LEMMA StaleOwn == ASSUME BoardBase, NEW m \in Mutations, Active(m) PROVE Own \subseteq Stale(mut[m])
<1>1. IF InPanels THEN mut[m].key = view ELSE mut[m].key = NoPage \/ mut[m].key[1] \in Paged
  BY DEF BoardBase, MutOK, RecordOK
<1>2. view \in Key /\ NoPage \notin Key
  BY KeyFacts DEF BoardBase, BoardTypeOK
<1>3. CASE InPanels
  BY <1>1, <1>2, <1>3 DEF Own, Stale, List, InPanels
<1>4. CASE ~InPanels
  <2>1. List(mut[m]) \notin Panels
    BY <1>1, <1>4 DEF List, Panels, Paged
  <2>. QED
    BY <1>4, <2>1 DEF Own, Stale
<1>. QED
  BY <1>3, <1>4

LEMMA OwnKept == ASSUME view' = view PROVE Own' = Own
BY DEF Own, InPanels

LEMMA ReadsTruth == ASSUME BoardBase, Truth, NEW k \in Key, Reads(k) PROVE Truth'
<1>1. Own' = Own /\ (Dirt => Dirt')
  BY OwnKept DEF Reads, Dirt, Dirty, Active
<1>2. \A j \in Key : Listing(j)' = Listing(j)
  BY SameListing DEF Reads
<1>. QED
  BY <1>1, <1>2 DEF Truth, Reads, Own

LEMMA ArrivesTruth == ASSUME BoardBase, Truth, NEW k \in Key, Arrives(k) PROVE Truth'
<1>1. Own' = Own /\ (Dirt => Dirt')
  BY OwnKept DEF Arrives, Dirt, Dirty, Active
<1>2. \A j \in Key : Listing(j)' = Listing(j)
  BY SameListing DEF Arrives
<1>. QED
  BY <1>1, <1>2, NoFetchOK DEF Truth, Arrives, Own

LEMMA VanishesTruth == ASSUME BoardBase, Truth, NEW k \in Key, Vanishes(k) PROVE Truth'
<1>1. Own' = Own /\ (Dirt => Dirt')
  BY OwnKept DEF Vanishes, Dirt, Dirty, Active
<1>2. \A j \in Key : Listing(j)' = Listing(j)
  BY SameListing DEF Vanishes
<1>. QED
  BY <1>1, <1>2, NoFetchOK DEF Truth, Vanishes, Own

LEMMA TurnsTruth == ASSUME BoardBase, Truth, NEW k \in Key, Turns(k) PROVE Truth'
<1>1. Own' = Own
  BY DEF Turns, Own, InPanels
<1>2. Dirt => Dirt'
  BY DEF Turns, Dirt, Dirty, Active, SameRecord
<1>3. \A j \in Key : Listing(j)' = Listing(j)
  BY SameListing DEF Turns
<1>4. strays \subseteq strays'
  BY DEF Turns
<1>. QED
  BY <1>1, <1>2, <1>3, <1>4 DEF Truth, Turns, Own

LEMMA GuessesTruth == ASSUME NEW m \in Mutations, NEW t \in Items, Guessed(m, t) PROVE Truth'
<1>1. Dirty(m)'
  BY DEF Guessed, Guesses, Begins, Dirty, Active, Plainly
<1>. QED
  BY <1>1 DEF Truth, Dirt

LEMMA AsksTruth == ASSUME BoardBase, Truth, NEW m \in Mutations, Asked(m) PROVE Truth'
<1>1. PICK op \in {"create", "edit", "remove", "restore", "clear", "grant"},
           t \in Items \cup {0}, key \in {view, NoPage} : Asks(m, op, t, key)
  BY DEF Asked
<1>2. UNCHANGED <<db, view, cache, fresh, fetch>> /\ strays \subseteq strays'
  BY <1>1 DEF Asks
<1>3. Dirt => Dirt'
  <2>1. ~Dirty(m) /\ \A n \in Mutations \ {m} : SameRecord(n)
    BY <1>1 DEF Asks, Begins, Dirty, Active
  <2>. QED
    BY <2>1 DEF Dirt, Dirty, Active, SameRecord
<1>4. Own' = Own /\ \A j \in Key : Listing(j)' = Listing(j)
  BY <1>2, OwnKept, SameListing
<1>. QED
  BY <1>2, <1>3, <1>4 DEF Truth, Own

(* A request that changes nothing is as dirty as before. *)
LEMMA MeetsTruth ==
    ASSUME Truth, NEW m \in Mutations, Meets(m, "no"), db' = db, strays \subseteq strays'
    PROVE  Truth'
<1>1. Own' = Own /\ \A j \in Key : Listing(j)' = Listing(j)
  BY OwnKept, SameListing DEF Meets
<1>2. Dirt => Dirt'
  <2>1. Dirty(m) => Dirty(m)'
    BY DEF Meets, Dirty, Active
  <2>2. \A n \in Mutations \ {m} : Dirty(n) => Dirty(n)'
    BY DEF Meets, Dirty, Active
  <2>. QED
    BY <2>1, <2>2 DEF Dirt
<1>. QED
  BY <1>1, <1>2 DEF Truth, Meets, Own

LEMMA ServesTruth == ASSUME BoardBase, Truth, NEW m \in Mutations, Serves(m) PROVE Truth'
<1>1. CASE Allowed(mut[m])
  <2>1. Dirty(m)'
    BY <1>1 DEF Serves, Meets, Dirty, Active
  <2>. QED
    BY <2>1 DEF Truth, Dirt
<1>2. CASE ~Allowed(mut[m])
  <2>1. db' = db
    BY <1>2, AppliedOK DEF Serves, BoardBase, BoardTypeOK
  <2>. QED
    BY <1>2, <2>1, MeetsTruth DEF Serves
<1>. QED
  BY <1>1, <1>2

LEMMA LosesTruth == ASSUME BoardBase, Truth, NEW m \in Mutations, Loses(m) PROVE Truth'
<1>1. CASE "lost" \in strays'
  BY <1>1 DEF Truth
<1>2. CASE "lost" \notin strays'
  BY <1>2, MeetsTruth DEF Loses
<1>. QED
  BY <1>1, <1>2

LEMMA RecalledTruth ==
    ASSUME BoardBase, NEW m \in Mutations, Active(m), Settles(m), Recalled(m)
    PROVE  Truth'
<1>1. Own' = Own /\ Own \subseteq Key /\ Own \subseteq Stale(mut[m])
  BY OwnKept, StaleOwn DEF Settles, Ends, Own
<1>. QED
  BY <1>1 DEF Truth, Recalled

LEMMA SucceedsTruth == ASSUME BoardBase, Truth, NEW m \in Mutations, Succeeds(m) PROVE Truth'
BY RecalledTruth DEF Succeeds, Active

LEMMA RejectsTruth == ASSUME BoardBase, Truth, NEW m \in Mutations, Rejects(m) PROVE Truth'
<1>1. CASE mut[m].op \in Plainly
  <2>1. UNCHANGED <<db, view, cache, fresh, fetch, strays>>
    BY <1>1 DEF Rejects, Settles, Ends
  <2>2. Dirt => Dirt'
    <3>1. ~Dirty(m) /\ \A n \in Mutations \ {m} : mut'[n] = mut[n]
      BY <1>1 DEF Rejects, Settles, Ends, Dirty
    <3>. QED
      BY <3>1 DEF Dirt, Dirty, Active
  <2>3. Own' = Own /\ \A j \in Key : Listing(j)' = Listing(j)
    BY <2>1, OwnKept, SameListing
  <2>. QED
    BY <2>1, <2>2, <2>3 DEF Truth, Own
<1>2. CASE mut[m].op \notin Plainly
  BY <1>2, RecalledTruth DEF Rejects, Active
<1>. QED
  BY <1>1, <1>2

LEMMA StepTruth == ASSUME BoardBase, Truth, BoardNext PROVE Truth'
BY Kinds, ReadsTruth, ArrivesTruth, VanishesTruth, TurnsTruth, AsksTruth, GuessesTruth,
   ServesTruth, LosesTruth, SucceedsTruth, RejectsTruth

LEMMA StutterTruth == ASSUME Truth, UNCHANGED boardVars PROVE Truth'
<1>1. UNCHANGED <<db, view, cache, fresh, fetch, mut, strays>>
  BY DEF boardVars
<1>2. Own' = Own /\ Dirt' = Dirt /\ \A j \in Key : Listing(j)' = Listing(j)
  BY <1>1, OwnKept, SameListing DEF Dirt, Dirty, Active
<1>. QED
  BY <1>1, <1>2 DEF Truth, Own

LEMMA InitTruth == ASSUME BoardInit PROVE Truth
<1>1. \A k \in Key : cache[k] = NoPage
  BY DEF BoardInit
<1>2. \A k \in Key : fetch[k].pc # "read"
  BY DEF BoardInit, NoFetch
<1>. QED
  BY <1>1, <1>2 DEF Truth, Own

LEMMA TruthShows == ASSUME BoardBase, Truth PROVE QuietListIsTrue
<1>. SUFFICES ASSUME Quiet, view[1] \notin {"trash", "task"}, strays \cap {"lost", "raced"} = {}
              PROVE  cache[view] = Listing(view)
  BY DEF QuietListIsTrue
<1>1. ~Dirt
  BY DEF Quiet, AllSettled, Dirt, Dirty, Active
<1>2. view \in Key /\ (view[1] \in Panels \/ view[1] = "deck")
  BY KeyFacts DEF BoardBase, BoardTypeOK, Paged, Panels
<1>3. view \in Own
  BY <1>2 DEF Own, InPanels, Panels
<1>. QED
  BY <1>1, <1>3 DEF Truth, Quiet

-----------------------------------------------------------------------------
(* The pages of the deck.  A set of numbers has, for every rank below its    *)
(* size, a member of that rank; so a page within the number of pages shows   *)
(* something.                                                                *)
LEMMA Least == ASSUME NEW T \in SUBSET Nat, T # {} PROVE \E t \in T : \A u \in T : t <= u
<1>1. PICK t \in T : \A u \in T : <<u, t>> \notin OpToRel(<, Nat)
  BY NatLessThanWellFounded, WFMin
<1>2. \A u \in T : ~(u < t)
  BY <1>1 DEF OpToRel
<1>. QED
  BY <1>2

LEMMA RankExists ==
    ASSUME NEW S \in SUBSET Nat, IsFiniteSet(S), NEW r \in Nat, r < Cardinality(S)
    PROVE  \E t \in S : Newer(t, S) = r
<1>. DEFINE above(t) == {u \in S : u > t}
            U == {t \in S : Newer(t, S) >= r}
<1>0. \A u \in S : u \in Nat
  OBVIOUS
<1>1. \A t \in S : /\ above(t) \in SUBSET S /\ IsFiniteSet(above(t)) /\ Newer(t, S) = Cardinality(above(t))
                   /\ Cardinality(above(t)) \in Nat
  BY FS_Subset, FS_CardinalityType DEF Newer
<1>2. ASSUME NEW v \in S, NEW A, IsFiniteSet(A), v \in A, above(v) = A \ {v}, Cardinality(A) \in Nat
      PROVE  Newer(v, S) = Cardinality(A) - 1
  BY <1>1, <1>2, FS_RemoveElement
<1>3. S # {} /\ Cardinality(S) \in Nat
  BY FS_EmptySet, FS_CardinalityType
<1>4. PICK s \in S : \A u \in S : s <= u
  BY <1>3, Least
<1>5. above(s) = S \ {s}
  <2>1. \A u \in S : u > s <=> u # s
    BY <1>0, <1>4
  <2>. QED
    BY <2>1
<1>6. Newer(s, S) = Cardinality(S) - 1
  BY <1>2, <1>3, <1>5
<1>7. s \in U
  BY <1>3, <1>6
<1>8. ASSUME NEW t \in U, Newer(t, S) # r PROVE \E v \in U : v > t
  <2>1. t \in S /\ Cardinality(above(t)) > r /\ Cardinality(above(t)) \in Nat /\ IsFiniteSet(above(t))
    BY <1>1, <1>8
  <2>2. above(t) # {} /\ above(t) \in SUBSET Nat
    <3>1. above(t) \in SUBSET Nat
      BY <1>0
    <3>2. Cardinality({}) = 0
      BY FS_EmptySet
    <3>3. above(t) # {}
      <4>. HIDE DEF above
      <4>. QED
        BY <2>1, <3>2
    <3>. QED
      BY <3>1, <3>3
  <2>3. PICK v \in above(t) : \A u \in above(t) : v <= u
    <3>. HIDE DEF above
    <3>. QED
      BY <2>2, Least
  <2>4. v \in S /\ v > t /\ above(v) = above(t) \ {v}
    <3>1. v \in S /\ v > t /\ v \in Nat /\ t \in Nat
      BY <1>0, <2>1
    <3>2. \A u \in S : u > v <=> u > t /\ u # v
      BY <1>0, <2>3, <3>1
    <3>. QED
      BY <3>1, <3>2
  <2>5. Newer(v, S) = Cardinality(above(t)) - 1
    <3>. HIDE DEF above
    <3>. QED
      BY <1>2, <2>1, <2>3, <2>4
  <2>. QED
    BY <2>1, <2>4, <2>5
<1>9. \A t \in U : Newer(t, S) \in Nat
  BY <1>1
<1>. DEFINE W == {t \in U : Newer(t, S) # r}
<1>10. SUFFICES ASSUME W = U PROVE FALSE
  OBVIOUS
(* the member of U with the fewest above it *)
<1>. DEFINE N == {Cardinality(above(t)) : t \in U}
<1>11. N \in SUBSET Nat /\ N # {}
  BY <1>1, <1>7
<1>12. PICK n \in N : \A x \in N : n <= x
  <2>. HIDE DEF N
  <2>. QED
    BY <1>11, Least
<1>13. PICK t \in U : n = Cardinality(above(t))
  OBVIOUS
<1>14. PICK v \in U : v > t
  BY <1>8, <1>10
<1>15. above(v) \in SUBSET above(t) /\ v \in above(t) /\ v \notin above(v)
  <2>1. v \in S /\ v \in Nat /\ t \in Nat
    BY <1>0
  <2>2. \A u \in S : u > v => u > t
    BY <1>0, <1>14, <2>1
  <2>3. v > t /\ ~(v > v)
    BY <1>14, <2>1
  <2>4. above(v) \in SUBSET above(t)
    BY <2>2
  <2>. QED
    BY <2>1, <2>3, <2>4
<1>16. Cardinality(above(v)) < Cardinality(above(t))
  <2>1. t \in S /\ v \in S
    OBVIOUS
  <2>2. IsFiniteSet(above(t)) /\ Cardinality(above(t)) \in Nat /\ Cardinality(above(v)) \in Nat
    BY <1>1, <2>1
  <2>. HIDE DEF above
  <2>. QED
    BY <1>15, <2>2, FS_Subset
<1>17. n <= Cardinality(above(v)) /\ Cardinality(above(v)) \in Nat /\ Cardinality(above(t)) \in Nat
  <2>1. Cardinality(above(v)) \in N
    OBVIOUS
  <2>. QED
    BY <1>1, <1>12, <2>1
<1>. QED
  <2>. HIDE DEF above, U, W, N
  <2>. QED
    BY <1>13, <1>16, <1>17

LEMMA CeilLast ==
    ASSUME NEW n \in Nat, NEW p \in Nat \ {0}, p <= Ceil(n)
    PROVE  (p - 1) * Limit < n /\ (p - 1) * Limit \in Nat
<1>. DEFINE q == Ceil(n)
<1>1. q \in Nat /\ q * Limit <= n + Limit - 1 /\ Limit \in Nat \ {0}
  BY ClientBoardAssumption DEF Ceil
<1>2. p * Limit <= q * Limit
  <2>. HIDE DEF q
  <2>. QED
    BY <1>1 DEF q
<1>3. (p - 1) * Limit = p * Limit - Limit
  BY <1>1
<1>. QED
  BY <1>1, <1>2, <1>3

LEMMA DeckShows ==
    ASSUME db \in [Items -> Item], NEW k \in Key, k[1] = "deck",
           (k[2] - 1) * Limit < Cardinality(In("deck")), (k[2] - 1) * Limit \in Nat
    PROVE  OnPage(Listing(k)) # {}
<1>. DEFINE r == (k[2] - 1) * Limit
            S == In("deck")
<1>1. S \in SUBSET Nat /\ IsFiniteSet(S) /\ S \subseteq Items
  BY InFinite, ClientBoardAssumption
<1>2. PICK t \in S : Newer(t, S) = r
  <2>. HIDE DEF r, S
  <2>. QED
    BY <1>1, RankExists DEF r, S
<1>3. r \in r..(k[2] * Limit - 1)
  BY KeyFacts, ClientBoardAssumption
<1>4. Listing(k) \in Page
  BY ListingOK
<1>5. Listing(k).rows[t] # "no"
  BY <1>1, <1>2, <1>3 DEF Listing, Paged
<1>. QED
  BY <1>1, <1>4, <1>5, KeyFacts DEF OnPage

(* No page of the deck speaks of more pages than there are, and the page     *)
(* that is shown is one of them: as long as the deck never shrank by a page, *)
(* and the reader never turned two pages at once.                            *)
Within(d) == d = NoPage \/ d.pages <= Size
Pages ==
    \/ strays \cap {"shrunk", "lost"} # {}
    \/ /\ \A k \in Key : k[1] = "deck" => Within(cache[k]) /\ Within(fetch[k].data)
       /\ \A m \in Mutations : mut[m].key # NoPage /\ mut[m].key[1] = "deck" => Within(mut[m].snap)
       /\ "twice" \in strays \/ (view[1] = "deck" => view[2] = 1 \/ view[2] <= Size)

LEMMA SizeType == Size \in Nat
BY InFinite, CeilType DEF Size

LEMMA AlikeWithin == ASSUME NEW d, NEW e, Alike(d, e), Within(d) PROVE Within(e)
BY KeyFacts DEF Alike, Within

(* What a step leaves of it: with as many pages as before. *)
LEMMA SizeKept == ASSUME db' = db PROVE Size' = Size /\ \A d : Within(d)' <=> Within(d)
<1>1. Size' = Size
  BY SameListing
<1>. QED
  BY <1>1 DEF Within

LEMMA ReadsPages == ASSUME BoardBase, Pages, NEW k \in Key, Reads(k) PROVE Pages'
<1>1. Size' = Size
  BY SizeKept DEF Reads
<1>2. k[1] = "deck" => Within(fetch'[k].data)
  <2>1. k[1] = "deck" => fetch'[k].data.pages = Size
    BY ListingOK DEF BoardBase, BoardTypeOK, Reads
  <2>. QED
    BY <2>1, SizeType DEF Within
<1>. QED
  BY <1>1, <1>2 DEF Pages, Within, Reads

LEMMA ArrivesPages == ASSUME BoardBase, Pages, NEW k \in Key, Arrives(k) PROVE Pages'
<1>1. Size' = Size
  BY SizeKept DEF Arrives
<1>. QED
  BY <1>1, NoFetchOK DEF Pages, Within, Arrives

LEMMA VanishesPages == ASSUME BoardBase, Pages, NEW k \in Key, Vanishes(k) PROVE Pages'
<1>1. Size' = Size
  BY SizeKept DEF Vanishes
<1>. QED
  BY <1>1, NoFetchOK DEF Pages, Within, Vanishes

LEMMA TurnsPages == ASSUME BoardBase, Pages, NEW k \in Key, Turns(k) PROVE Pages'
<1>1. Size' = Size /\ Size \in Nat
  BY SizeKept, SizeType DEF Turns
<1>2. /\ strays \subseteq strays'
      /\ \A j \in Key : fetch'[j].data = fetch[j].data /\ cache'[j] = cache[j]
      /\ \A m \in Mutations : mut'[m].key = mut[m].key /\ mut'[m].snap = mut[m].snap
      /\ view' = k
  BY DEF Turns, SameRecord
<1>. SUFFICES ASSUME strays' \cap {"shrunk", "lost"} = {} PROVE Pages'
  BY DEF Pages
<1>3. strays \cap {"shrunk", "lost"} = {}
  BY <1>2
<1>4. ASSUME "twice" \notin strays', k[1] = "deck" PROVE k[2] = 1 \/ k[2] <= Size
  <2>1. \/ k[2] = 1
        \/ /\ view[1] = "deck" /\ cache[view] # NoPage
           /\ k[2] < view[2] \/ k[2] <= cache[view].pages
    BY <1>4 DEF Turns
  <2>2. k[2] \in 1..MaxPage /\ view \in Key /\ view[2] \in 1..MaxPage /\ cache[view] \in Page \cup {NoPage}
    BY KeyFacts DEF BoardBase, BoardTypeOK
  <2>3. cache[view] # NoPage => cache[view].pages \in Nat
    BY <2>2 DEF Page
  <2>4. view[1] = "deck" => Within(cache[view]) /\ (view[2] = 1 \/ view[2] <= Size)
    BY <1>2, <1>3, <1>4, <2>2 DEF Pages
  <2>. QED
    BY <1>1, <2>1, <2>2, <2>3, <2>4, ClientBoardAssumption DEF Within
<1>5. \A j \in Key : j[1] = "deck" => Within(cache[j]) /\ Within(fetch[j].data)
  BY <1>3 DEF Pages
<1>6. \A m \in Mutations : mut[m].key # NoPage /\ mut[m].key[1] = "deck" => Within(mut[m].snap)
  BY <1>3 DEF Pages
<1>. QED
  BY <1>1, <1>2, <1>4, <1>5, <1>6 DEF Pages, Within

LEMMA GuessesPages == ASSUME BoardBase, Pages, NEW m \in Mutations, NEW t \in Items, Guessed(m, t) PROVE Pages'
<1>1. PICK op \in {"toggle", "remove", "restore", "purge", "add"}, d \in Page \cup {NoPage} : Guesses(m, op, t, d)
  BY DEF Guessed
<1>2. view' = view /\ view \in Key /\ strays \subseteq strays' /\ Size' = Size
  BY <1>1, SizeKept DEF BoardBase, BoardTypeOK, Guesses
<1>. SUFFICES ASSUME strays \cap {"shrunk", "lost"} = {} PROVE Pages'
  BY <1>2 DEF Pages
<1>3. \A j \in Key : j[1] = "deck" => Within(cache[j]) /\ Within(fetch[j].data)
  BY DEF Pages
<1>4. view[1] = "deck" => Within(d)
  <2>1. view[1] = "deck" => Alike(cache[view], d)
    BY <1>1 DEF Guesses, Paged
  <2>. QED
    BY <1>2, <1>3, <2>1, AlikeWithin
<1>5. \A j \in Key : j[1] = "deck" => Within(cache'[j]) /\ Within(fetch'[j].data)
  BY <1>1, <1>2, <1>3, <1>4, NoFetchOK DEF Guesses, Within
<1>6. \A n \in Mutations : mut'[n].key # NoPage /\ mut'[n].key[1] = "deck" => Within(mut'[n].snap)
  BY <1>1, <1>2, <1>3 DEF Pages, Guesses, Begins, SameRecord
<1>. QED
  BY <1>2, <1>5, <1>6 DEF Pages, Within

LEMMA AsksPages == ASSUME BoardBase, Pages, NEW m \in Mutations, Asked(m) PROVE Pages'
<1>1. PICK op \in {"create", "edit", "remove", "restore", "clear", "grant"},
           t \in Items \cup {0}, key \in {view, NoPage} : Asks(m, op, t, key)
  BY DEF Asked
<1>2. strays \subseteq strays' /\ Size' = Size /\ UNCHANGED <<view, cache, fetch>>
  BY <1>1, SizeKept DEF Asks
<1>3. \A n \in Mutations : mut'[n].snap = NoPage \/ (mut'[n].snap = mut[n].snap /\ mut'[n].key = mut[n].key)
  BY <1>1 DEF Asks, Begins, SameRecord
<1>. QED
  BY <1>2, <1>3 DEF Pages, Within

(* A request that leaves as many pages, or more. *)
LEMMA MeetsPages ==
    ASSUME BoardBase, Pages, NEW m \in Mutations, NEW pc, Meets(m, pc), Size' \in Nat, Size <= Size', strays \subseteq strays'
    PROVE  Pages'
<1>1. UNCHANGED <<view, cache, fetch>> /\ \A n \in Mutations : mut'[n].snap = mut[n].snap /\ mut'[n].key = mut[n].key
  BY DEF Meets
<1>2. \A d \in Page \cup {NoPage} : Within(d) => Within(d)'
  BY SizeType DEF Within, Page
<1>3. \A n \in Nat : n <= Size => n <= Size'
  BY SizeType
<1>4. /\ view[2] \in Nat
      /\ \A k \in Key : cache[k] \in Page \cup {NoPage} /\ fetch[k].data \in Page \cup {NoPage}
      /\ \A n \in Mutations : mut[n].snap \in Page \cup {NoPage}
  BY KeyFacts DEF BoardBase, BoardTypeOK, Mutation
<1>. QED
  BY <1>1, <1>2, <1>3, <1>4 DEF Pages, Within

LEMMA ServesPages == ASSUME BoardBase, Pages, NEW m \in Mutations, Serves(m) PROVE Pages'
<1>1. PICK pc \in {"ok", "no"} : Meets(m, pc)
  BY DEF Serves
<1>2. strays \subseteq strays' /\ Shrunk \subseteq strays'
  BY DEF Serves
<1>. DEFINE L == {t \in Items : db'[t].where = "live"}
<1>3. Size' = Ceil(Cardinality(L))
  BY DEF Size, In
<1>4. Size' \in Nat
  <2>1. L \in SUBSET Items
    OBVIOUS
  <2>2. Cardinality(L) \in Nat
    <3>. HIDE DEF L
    <3>. QED
      BY <2>1, FS_Subset, FS_CardinalityType, ClientBoardAssumption
  <2>. QED
    BY <1>3, <2>2, CeilType
<1>5. CASE Size <= Size'
  BY <1>1, <1>2, <1>4, <1>5, MeetsPages
<1>6. CASE ~(Size <= Size')
  <2>1. Size' < Size
    BY <1>4, <1>6, SizeType
  <2>2. "shrunk" \in Shrunk
    BY <1>3, <2>1 DEF Shrunk, If, Size
  <2>. QED
    BY <1>2, <2>2 DEF Pages
<1>. QED
  BY <1>5, <1>6

LEMMA LosesPages == ASSUME BoardBase, Pages, NEW m \in Mutations, Loses(m) PROVE Pages'
<1>1. CASE "lost" \in strays'
  BY <1>1 DEF Pages
<1>2. CASE "lost" \notin strays'
  <2>1. db' = db /\ strays' = strays
    BY <1>2 DEF Loses
  <2>2. Size' \in Nat /\ Size <= Size'
    BY <2>1, SizeKept, SizeType
  <2>. QED
    BY <2>1, <2>2, MeetsPages DEF Loses
<1>. QED
  BY <1>1, <1>2

LEMMA SettlesPages ==
    ASSUME BoardBase, Pages, NEW m \in Mutations, Settles(m),
           \A j \in Key : j[1] = "deck" =>
               \/ Alike(cache[j], cache'[j]) 
               \/ mut[m].key # NoPage /\ mut[m].key[1] = "deck" /\ cache'[j] = mut[m].snap
    PROVE  Pages'
<1>1. view' = view /\ strays \subseteq strays' /\ Size' = Size
  BY SizeKept DEF Settles, Ends
<1>. SUFFICES ASSUME strays \cap {"shrunk", "lost"} = {} PROVE Pages'
  BY <1>1 DEF Pages
<1>2. \A j \in Key : j[1] = "deck" => Within(cache'[j])
  BY AlikeWithin DEF Pages
<1>3. \A j \in Key : j[1] = "deck" => Within(fetch'[j].data)
  BY DEF Pages, Settles, Within
<1>4. \A n \in Mutations : mut'[n].key # NoPage /\ mut'[n].key[1] = "deck" => Within(mut'[n].snap)
  BY DEF Pages, Settles, Ends, Within
<1>. QED
  BY <1>1, <1>2, <1>3, <1>4 DEF Pages, Within

LEMMA SucceedsPages == ASSUME BoardBase, Pages, NEW m \in Mutations, Succeeds(m) PROVE Pages'
BY SettlesPages DEF Succeeds

LEMMA RejectsPages == ASSUME BoardBase, Pages, NEW m \in Mutations, Rejects(m) PROVE Pages'
<1>1. \A j \in Key : Alike(cache[j], cache[j])
  BY DEF BoardBase, BoardTypeOK, Alike
<1>2. mut[m].snap # NoPage => mut[m].key # NoPage
  BY DEF BoardBase, MutOK, RecordOK
<1>. QED
  BY <1>1, <1>2, SettlesPages DEF Rejects

LEMMA StepPages == ASSUME BoardBase, Pages, BoardNext PROVE Pages'
BY Kinds, ReadsPages, ArrivesPages, VanishesPages, TurnsPages, AsksPages, GuessesPages,
   ServesPages, LosesPages, SucceedsPages, RejectsPages

LEMMA StutterPages == ASSUME Pages, UNCHANGED boardVars PROVE Pages'
<1>1. UNCHANGED <<db, view, cache, fetch, mut, strays>>
  BY DEF boardVars
<1>2. Size' = Size
  BY <1>1, SizeKept
<1>. QED
  BY <1>1, <1>2 DEF Pages, Within

LEMMA InitPages == ASSUME BoardInit PROVE Pages
<1>1. BoardBase
  BY InitBase
<1>2. \A k \in Key : cache[k] = NoPage
  BY DEF BoardInit
<1>3. \A k \in Key : fetch[k].data = NoPage
  BY DEF BoardInit, NoFetch
<1>4. \A m \in Mutations : mut[m].snap = NoPage
  BY DEF BoardInit, NoMutation
<1>. QED
  BY <1>2, <1>3, <1>4 DEF Pages, Within, BoardInit

LEMMA PagesShow == ASSUME BoardBase, Truth, Pages PROVE EmptyMeansEmpty
<1>. SUFFICES ASSUME Quiet, view[1] = "deck", OnPage(cache[view]) = {}, In("deck") # {},
                     strays \cap {"twice", "shrunk", "lost", "raced"} = {}
              PROVE  FALSE
  BY DEF EmptyMeansEmpty
<1>1. cache[view] = Listing(view) /\ strays \cap {"lost", "raced"} = {}
  BY TruthShows DEF QuietListIsTrue
<1>2. view \in Key /\ view[2] \in 1..MaxPage /\ db \in [Items -> Item]
  BY KeyFacts DEF BoardBase, BoardTypeOK
<1>3. view[2] = 1 \/ view[2] <= Size
  BY DEF Pages
<1>. DEFINE n == Cardinality(In("deck"))
<1>4. n \in Nat /\ n > 0
  BY InFinite, FS_EmptySet
<1>5. (view[2] - 1) * Limit < n /\ (view[2] - 1) * Limit \in Nat
  <2>1. CASE view[2] = 1
    BY <1>4, <2>1, ClientBoardAssumption
  <2>2. CASE view[2] <= Size
    <3>1. view[2] \in Nat \ {0} /\ view[2] <= Ceil(n)
      BY <1>2, <2>2 DEF Size
    <3>. HIDE DEF n
    <3>. QED
      BY <1>4, <3>1, CeilLast
  <2>. QED
    BY <1>3, <2>1, <2>2
<1>. QED
  BY <1>1, <1>2, <1>5, DeckShows

-----------------------------------------------------------------------------
(* The trash.  As long as nothing strayed, one mutation at most is under     *)
(* way, and every page of the trash shows what it was fetched with less what *)
(* left since: except for the task that is just being restored or purged,    *)
(* and between the answer to a request that empties it and onSuccess.        *)
Mends == {"lost", "overlap", "undone", "cancelled", "raced", "reverted"}
HeldOn(k) == OnPage(cache[k])
Takes(m) == mut[m].op \in {"restore", "purge"}
Same(m, k) ==
    IF mut[m].op = "clear" /\ mut[m].pc = "ok" THEN seen[k] = {} /\ In("trash") = {}
    ELSE IF Takes(m) /\ mut[m].key = k /\ mut[m].pc # "ok"
         THEN HeldOn(k) \ {mut[m].item} = seen[k] \ {mut[m].item}
         ELSE HeldOn(k) = seen[k]
TrashOK ==
    /\ \A m, n \in Mutations : Active(m) /\ Active(n) => m = n
    /\ \A k \in Trash : seen[k] \subseteq In("trash") /\ OnPage(fetch[k].data) \subseteq In("trash")
    /\ \A m \in Mutations : Active(m) /\ Takes(m) => mut[m].key \in Trash /\ mut[m].snap # NoPage
    /\ \A m \in Mutations : Active(m) => \A k \in Trash : Same(m, k)
    /\ (\A m \in Mutations : ~Active(m)) => \A k \in Trash : HeldOn(k) = seen[k]
TrashInv == strays \cap Mends # {} \/ InPanels \/ TrashOK

LEMMA NothingOn == OnPage(NoPage) = {}
BY DEF OnPage

LEMMA ReadsTrash == ASSUME BoardBase, TrashOK, NEW k \in Key, Reads(k) PROVE TrashOK'
<1>1. In("trash")' = In("trash")
  BY SameListing DEF Reads
<1>2. k \in Trash => OnPage(fetch'[k].data) \subseteq In("trash")
  BY ListingOK, KeyFacts DEF BoardBase, BoardTypeOK, Reads
<1>3. UNCHANGED <<mut, cache, seen>> /\ \A j \in Key \ {k} : fetch'[j] = fetch[j]
  BY DEF Reads
<1>4. \A j \in Trash : OnPage(fetch'[j].data) \subseteq In("trash") /\ seen[j] \subseteq In("trash")
  BY <1>2, <1>3, KeyFacts DEF TrashOK
<1>5. (\A j : OnPage(fetch[j].data)' = OnPage(fetch'[j].data)) /\ \A j : HeldOn(j)' = HeldOn(j)
  BY <1>3 DEF OnPage, HeldOn
<1>. QED
  BY <1>1, <1>3, <1>4, <1>5 DEF TrashOK, Same, Takes, Active

LEMMA VanishesTrash == ASSUME BoardBase, TrashOK, NEW k \in Key, Vanishes(k) PROVE TrashOK'
<1>1. In("trash")' = In("trash")
  BY SameListing DEF Vanishes
<1>2. UNCHANGED <<mut, cache, seen>> /\ \A j \in Key : fetch'[j] = fetch[j] \/ fetch'[j].data = NoPage
  BY NoFetchOK DEF Vanishes
<1>3. \A j \in Trash : OnPage(fetch'[j].data) \subseteq In("trash") /\ seen[j] \subseteq In("trash")
  BY <1>2, NothingOn, KeyFacts DEF TrashOK
<1>4. (\A j : OnPage(fetch[j].data)' = OnPage(fetch'[j].data)) /\ \A j : HeldOn(j)' = HeldOn(j)
  BY <1>2 DEF OnPage, HeldOn
<1>. QED
  BY <1>1, <1>2, <1>3, <1>4 DEF TrashOK, Same, Takes, Active

LEMMA ArrivesTrash == ASSUME BoardBase, TrashOK, NEW k \in Key, Arrives(k) PROVE TrashOK'
<1>1. In("trash")' = In("trash")
  BY SameListing DEF Arrives
<1>2. /\ mut' = mut /\ fetch'[k].data = NoPage /\ cache'[k] = fetch[k].data
      /\ \A j \in Key \ {k} : fetch'[j] = fetch[j] /\ cache'[j] = cache[j]
      /\ \A j \in Trash : seen'[j] = IF j = k THEN OnPage(fetch[k].data) ELSE seen[j]
  BY NoFetchOK DEF Arrives
<1>3. \A j \in Trash : /\ OnPage(fetch'[j].data) \subseteq In("trash") /\ seen'[j] \subseteq In("trash")
                       /\ j = k => OnPage(cache'[j]) = seen'[j]
                       /\ j # k => OnPage(cache'[j]) = HeldOn(j) /\ seen'[j] = seen[j]
  BY <1>2, NothingOn, KeyFacts DEF TrashOK, HeldOn
<1>4. (\A j : OnPage(fetch[j].data)' = OnPage(fetch'[j].data)) /\ \A j : HeldOn(j)' = OnPage(cache'[j])
  BY DEF OnPage, HeldOn
<1>5. ASSUME NEW m \in Mutations, Active(m), NEW j \in Trash PROVE Same(m, j)'
  <2>1. Same(m, j)
    BY <1>5 DEF TrashOK
  <2>2. CASE j # k
    BY <1>1, <1>2, <1>3, <1>4, <2>1, <2>2 DEF Same, Takes
  <2>3. CASE j = k
    <3>1. seen'[j] \subseteq In("trash") /\ HeldOn(j)' = seen'[j]
      BY <1>3, <1>4, <2>3
    <3>. QED
      BY <1>1, <1>2, <2>1, <3>1 DEF Same, Takes
  <2>. QED
    BY <2>2, <2>3
<1>6. \A m : (Active(m)' <=> Active(m)) /\ (Takes(m)' <=> Takes(m))
  BY <1>2 DEF Active, Takes
<1>7. (\A m \in Mutations : ~Active(m)) => \A j \in Trash : HeldOn(j)' = seen'[j]
  BY <1>3, <1>4 DEF TrashOK
<1>. QED
  BY <1>1, <1>2, <1>3, <1>4, <1>5, <1>6, <1>7 DEF TrashOK

LEMMA TurnsTrash == ASSUME BoardBase, TrashOK, NEW k \in Key, Turns(k) PROVE TrashOK'
<1>1. In("trash")' = In("trash")
  BY SameListing DEF Turns
<1>2. /\ UNCHANGED <<cache, seen>> /\ \A j \in Key : fetch'[j].data = fetch[j].data
      /\ \A n \in Mutations : SameRecord(n)
  BY DEF Turns
<1>3. /\ \A j \in Trash : OnPage(fetch[j].data)' = OnPage(fetch[j].data)
      /\ \A j : HeldOn(j)' = HeldOn(j)
  BY <1>2, KeyFacts DEF OnPage, HeldOn
<1>4. \A n \in Mutations : Active(n)' = Active(n) /\ Takes(n)' = Takes(n)
  BY <1>2 DEF Active, Takes, SameRecord
<1>5. ASSUME NEW n \in Mutations, NEW j, Same(n, j) PROVE Same(n, j)'
  BY <1>1, <1>2, <1>3, <1>4, <1>5 DEF Same, SameRecord
<1>. QED
  BY <1>1, <1>2, <1>3, <1>4, <1>5 DEF TrashOK, SameRecord

(* Whoever begins without an overlap begins alone. *)
LEMMA BeginsAlone ==
    ASSUME BoardBase, NEW m \in Mutations, NEW op, NEW t, NEW key, NEW snap, Begins(m, op, t, key, snap),
           Overlap(m) \subseteq strays', strays' \cap Mends = {}
    PROVE  /\ \A n \in Mutations : ~Active(n)
           /\ \A n \in Mutations : Active(n)' <=> n = m
<1>1. ~Active(m) /\ Active(m)'
  BY DEF Begins, Active
<1>2. "overlap" \notin Overlap(m)
  BY DEF Mends
<1>3. \A n \in Mutations \ {m} : ~Active(n)
  BY <1>2 DEF Overlap, If, Active
<1>4. \A n \in Mutations \ {m} : ~Active(n)'
  BY <1>3 DEF Begins, SameRecord, Active
<1>. QED
  BY <1>1, <1>3, <1>4

LEMMA GuessesTrash ==
    ASSUME BoardBase, TrashOK, ~InPanels, NEW m \in Mutations, NEW t \in Items, Guessed(m, t), strays' \cap Mends = {}
    PROVE  TrashOK'
<1>1. PICK op \in {"toggle", "remove", "restore", "purge", "add"}, d \in Page \cup {NoPage} : Guesses(m, op, t, d)
  BY DEF Guessed
<1>2. /\ Begins(m, op, t, view, cache[view]) /\ Overlap(m) \subseteq strays'
      /\ If("cancelled", view \in Trash /\ cache[view] = NoPage) \subseteq strays'
      /\ seen' = seen /\ db' = db
      /\ op \in {"restore", "purge"} <=> view \in Trash
      /\ cache'[view] = d /\ fetch'[view].data = NoPage
      /\ \A j \in Key \ {view} : fetch'[j] = fetch[j] /\ cache'[j] = cache[j]
      /\ view \in Trash => OnPage(d) = OnPage(cache[view]) \ {t}
  BY <1>1, NoFetchOK DEF Guesses
<1>3. (\A n \in Mutations : ~Active(n)) /\ \A n \in Mutations : Active(n)' <=> n = m
  BY <1>2, BeginsAlone
<1>4. /\ mut'[m].op = op /\ mut'[m].item = t /\ mut'[m].key = view /\ mut'[m].snap = cache[view] /\ mut'[m].pc = "sent"
  BY <1>2 DEF Begins
<1>5. In("trash")' = In("trash")
  BY <1>2, SameListing
<1>6. \A j \in Trash : HeldOn(j) = seen[j]
  BY <1>3 DEF TrashOK
<1>7. (\A j : OnPage(fetch[j].data)' = OnPage(fetch'[j].data)) /\ \A j : HeldOn(j)' = OnPage(cache'[j])
  BY DEF OnPage, HeldOn
<1>8. \A j \in Trash : OnPage(fetch'[j].data) \subseteq In("trash") /\ seen'[j] \subseteq In("trash")
  BY <1>2, NothingOn, KeyFacts DEF TrashOK
<1>9. Takes(m)' <=> view \in Trash
  BY <1>2, <1>4 DEF Takes
<1>10. view \in Trash => cache[view] # NoPage
  BY <1>2 DEF If, Mends
<1>11. ASSUME NEW j \in Trash PROVE Same(m, j)'
  <2>1. CASE j = view
    <3>1. HeldOn(j)' = seen'[j] \ {t}
      BY <1>2, <1>6, <1>7, <2>1 DEF HeldOn
    <3>. QED
      BY <1>4, <1>9, <2>1, <3>1 DEF Same
  <2>2. CASE j # view
    <3>1. HeldOn(j)' = seen'[j]
      BY <1>2, <1>6, <1>7, <2>2, KeyFacts DEF HeldOn
    <3>. QED
      BY <1>4, <2>2, <3>1 DEF Same
  <2>. QED
    BY <2>1, <2>2
<1>. QED
  BY <1>3, <1>4, <1>5, <1>7, <1>8, <1>9, <1>10, <1>11 DEF TrashOK

LEMMA AsksTrash ==
    ASSUME BoardBase, TrashOK, ~InPanels, NEW m \in Mutations, Asked(m), strays' \cap Mends = {}
    PROVE  TrashOK'
<1>1. PICK op \in {"create", "edit", "remove", "restore", "clear", "grant"},
           t \in Items \cup {0}, key \in {view, NoPage} : Asks(m, op, t, key)
  BY DEF Asked
<1>2. /\ Begins(m, op, t, key, NoPage) /\ Overlap(m) \subseteq strays'
      /\ UNCHANGED <<db, cache, fetch, seen>> /\ op # "restore"
  BY <1>1 DEF Asks, Mends
<1>3. (\A n \in Mutations : ~Active(n)) /\ \A n \in Mutations : Active(n)' <=> n = m
  BY <1>2, BeginsAlone
<1>4. mut'[m].op = op /\ mut'[m].pc = "sent"
  BY <1>2 DEF Begins
<1>5. In("trash")' = In("trash")
  BY <1>2, SameListing
<1>6. (\A j : OnPage(fetch[j].data)' = OnPage(fetch[j].data)) /\ \A j : HeldOn(j)' = HeldOn(j)
  BY <1>2 DEF OnPage, HeldOn
<1>7. ~Takes(m)' /\ \A j \in Trash : Same(m, j)'
  BY <1>2, <1>3, <1>4, <1>6 DEF Same, Takes, TrashOK
<1>. QED
  BY <1>2, <1>3, <1>5, <1>6, <1>7 DEF TrashOK

(* What a request does to the trash on the server. *)
LEMMA TrashServed ==
    ASSUME BoardBase, TrashOK, ~InPanels, NEW m \in Mutations, Active(m), db' = Applied(mut[m])
    PROVE  /\ mut[m].op \in {"restore", "purge", "clear"} =>
                Allowed(mut[m]) /\ In("trash")' = In("trash") \ Target(mut[m])
           /\ mut[m].op \notin {"restore", "purge", "clear"} => In("trash") \subseteq In("trash")'
<1>. DEFINE r == mut[m]
<1>1. /\ r.key = NoPage \/ r.key[1] \in Paged
      /\ r.op \notin {"grant", "add", "none"}
      /\ r.op # "clear" => r.item \in Items
      /\ r \in Mutation
  BY DEF BoardBase, BoardTypeOK, MutOK, RecordOK
<1>2. List(r) \notin Panels
  BY <1>1 DEF List, Paged, Panels
<1>3. \A l : In(l)' = {t \in Items : db'[t].where = IF l = "trash" THEN "trash" ELSE "live"}
  BY DEF In
<1>4. \A t \in Items : db[t] \in Item /\ \A w \in BOOLEAN : [db[t] EXCEPT !.on = w].where = db[t].where
  BY DEF BoardBase, BoardTypeOK, Item
<1>5. \A t \in Items : \A w \in {"new", "live", "trash", "gone"} : [db[t] EXCEPT !.where = w].where = w
  BY DEF BoardBase, BoardTypeOK, Item
<1>6. CASE r.op \in {"restore", "purge", "clear"}
  <2>1. Allowed(r)
    BY <1>6 DEF Allowed
  <2>2. ASSUME NEW t \in Items PROVE db'[t].where = "trash" <=> db[t].where = "trash" /\ t \notin Target(r)
    <3>1. CASE t \notin Target(r)
      BY <3>1 DEF Applied
    <3>2. CASE t \in Target(r) /\ r.op = "restore"
      <4>1. db'[t] = [db[t] EXCEPT !.where = IF db[t].where = "trash" THEN "live" ELSE db[t].where]
        BY <2>1, <3>2 DEF Applied
      <4>. QED
        BY <1>4, <1>5, <3>2, <4>1 DEF Item
    <3>3. CASE t \in Target(r) /\ r.op # "restore"
      <4>1. db'[t] = [db[t] EXCEPT !.where = IF db[t].where = "trash" THEN "gone" ELSE db[t].where]
        BY <1>6, <2>1, <3>3 DEF Applied
      <4>. QED
        BY <1>4, <1>5, <3>3, <4>1 DEF Item
    <3>. QED
      BY <3>1, <3>2, <3>3
  <2>. QED
    BY <1>3, <1>6, <2>1, <2>2 DEF In
<1>7. CASE r.op \notin {"restore", "purge", "clear"}
  <2>1. r.op \in {"create", "toggle", "edit", "remove"}
    BY <1>1, <1>7 DEF Mutation
  <2>2. Target(r) = {r.item}
    BY <2>1 DEF Target
  <2>3. ASSUME NEW t \in Items, db[t].where = "trash" PROVE db'[t].where = "trash"
    <3>1. CASE t # r.item \/ ~Allowed(r)
      BY <2>2, <2>3, <3>1 DEF Applied
    <3>2. CASE t = r.item /\ Allowed(r)
      <4>1. FALSE
        BY <2>1, <2>3, <3>2 DEF Allowed
      <4>. QED
        BY <4>1
    <3>. QED
      BY <3>1, <3>2
  <2>. QED
    BY <1>3, <1>7, <2>3 DEF In
<1>. QED
  BY <1>6, <1>7

LEMMA MeetsActive ==
    ASSUME BoardBase, NEW m \in Mutations, NEW pc \in {"ok", "no"}, Meets(m, pc)
    PROVE  /\ Active(m) /\ Active(m)'
           /\ \A n \in Mutations : (Active(n)' <=> Active(n)) /\ (Takes(n)' <=> Takes(n))
           /\ \A n \in Mutations : /\ mut'[n].op = mut[n].op /\ mut'[n].item = mut[n].item
                                   /\ mut'[n].key = mut[n].key /\ mut'[n].snap = mut[n].snap
           /\ mut[m].pc = "sent" /\ mut'[m].pc = pc
           /\ \A k : OnPage(fetch[k].data)' = OnPage(fetch[k].data)
           /\ \A k : HeldOn(k)' = HeldOn(k)
BY DEF Meets, Active, Takes, OnPage, HeldOn

LEMMA ServesTrash ==
    ASSUME BoardBase, TrashOK, ~InPanels, NEW m \in Mutations, Serves(m), strays' \cap Mends = {}
    PROVE  TrashOK'
<1>. DEFINE r == mut[m]
            T == Target(r)
            gone == r.op \in {"restore", "purge", "clear"}
<1>1. PICK pc \in {"ok", "no"} : pc = (IF Allowed(r) THEN "ok" ELSE "no") /\ Meets(m, pc)
  BY DEF Serves
<1>2. /\ Active(m) /\ Active(m)'
      /\ \A n \in Mutations : (Active(n)' <=> Active(n)) /\ (Takes(n)' <=> Takes(n))
      /\ \A n \in Mutations : /\ mut'[n].op = mut[n].op /\ mut'[n].item = mut[n].item
                              /\ mut'[n].key = mut[n].key /\ mut'[n].snap = mut[n].snap
      /\ r.pc = "sent" /\ mut'[m].pc = pc
      /\ \A k : OnPage(fetch[k].data)' = OnPage(fetch[k].data)
      /\ \A k : HeldOn(k)' = HeldOn(k)
  BY <1>1, MeetsActive
<1>3. /\ gone => Allowed(r) /\ In("trash")' = In("trash") \ T
      /\ ~gone => In("trash") \subseteq In("trash")'
  BY <1>2, TrashServed DEF Serves
<1>4. \A k \in Trash : seen'[k] = IF gone THEN seen[k] \ T ELSE seen[k]
  BY DEF Serves
<1>5. \A n \in Mutations : Active(n) => n = m
  BY <1>2 DEF TrashOK
<1>6. \A k \in Trash : /\ seen[k] \subseteq In("trash") /\ OnPage(fetch[k].data) \subseteq In("trash")
                       /\ Same(m, k)
  BY <1>2 DEF TrashOK
<1>7. Takes(m) => r.key \in Trash /\ r.snap # NoPage
  BY <1>2 DEF TrashOK
<1>8. ASSUME gone, NEW k \in Trash
      PROVE  T \cap OnPage(fetch[k].data) = {} /\ (r.op # "clear" => T \cap HeldOn(k) = {})
  <2>1. ~Ghosts(T, IF r.op = "clear" THEN Latest(r) ELSE NoPage)
    BY DEF Serves, If, Mends
  <2>2. k # NoPage
    BY KeyFacts
  <2>. QED
    BY <2>1, <2>2 DEF Ghosts, HeldOn
<1>9. CASE ~gone
  <2>1. r.op # "clear" /\ ~Takes(m)
    BY <1>9 DEF Takes
  <2>2. \A k \in Trash : HeldOn(k) = seen[k]
    BY <1>6, <2>1 DEF Same
  <2>3. \A k \in Trash : Same(m, k)'
    BY <1>2, <1>4, <1>9, <2>1, <2>2 DEF Same
  <2>. QED
    BY <1>2, <1>3, <1>4, <1>5, <1>6, <1>7, <1>9, <2>3 DEF TrashOK
<1>10. CASE gone /\ r.op # "clear"
  <2>1. T = {r.item} /\ pc = "ok"
    BY <1>1, <1>3, <1>10 DEF Target
  <2>2. \A k \in Trash : HeldOn(k) \ T = seen[k] \ T
    BY <1>6, <1>10, <2>1 DEF Same
  <2>3. \A k \in Trash : HeldOn(k)' = seen'[k]
    BY <1>2, <1>4, <1>8, <1>10, <2>2
  <2>4. \A k \in Trash : Same(m, k)'
    BY <1>2, <1>10, <2>1, <2>3 DEF Same
  <2>5. \A k \in Trash : seen'[k] \subseteq In("trash")' /\ OnPage(fetch[k].data) \subseteq In("trash")'
    BY <1>3, <1>4, <1>6, <1>8, <1>10
  <2>. QED
    BY <1>2, <1>5, <1>7, <2>4, <2>5 DEF TrashOK
<1>11. CASE r.op = "clear"
  <2>1. T = In("trash") /\ pc = "ok" /\ gone
    BY <1>1, <1>3, <1>11 DEF Target
  <2>2. In("trash")' = {} /\ \A k \in Trash : seen'[k] = {} /\ OnPage(fetch[k].data) = {}
    <3>. HIDE DEF T
    <3>. QED
      BY <1>3, <1>4, <1>6, <1>8, <2>1
  <2>3. \A k \in Trash : Same(m, k)'
    BY <1>2, <1>11, <2>1, <2>2 DEF Same
  <2>. QED
    BY <1>2, <1>5, <1>7, <2>2, <2>3 DEF TrashOK
<1>. QED
  BY <1>9, <1>10, <1>11

LEMMA LosesTrash ==
    ASSUME BoardBase, TrashOK, NEW m \in Mutations, Loses(m), strays' \cap Mends = {}
    PROVE  TrashOK'
<1>1. db' = db /\ seen' = seen /\ Meets(m, "no")
  BY DEF Loses, Mends
<1>2. /\ Active(m) /\ Active(m)'
      /\ \A n \in Mutations : (Active(n)' <=> Active(n)) /\ (Takes(n)' <=> Takes(n))
      /\ \A n \in Mutations : /\ mut'[n].op = mut[n].op /\ mut'[n].item = mut[n].item
                              /\ mut'[n].key = mut[n].key /\ mut'[n].snap = mut[n].snap
      /\ mut[m].pc = "sent" /\ mut'[m].pc = "no"
      /\ \A k : OnPage(fetch[k].data)' = OnPage(fetch[k].data)
      /\ \A k : HeldOn(k)' = HeldOn(k)
  BY <1>1, MeetsActive
<1>3. In("trash")' = In("trash")
  BY <1>1, SameListing
<1>4. \A n \in Mutations : Active(n) => n = m
  BY <1>2 DEF TrashOK
<1>5. \A k \in Trash : Same(m, k)'
  <2>1. \A k \in Trash : Same(m, k)
    BY <1>2 DEF TrashOK
  <2>. QED
    BY <1>1, <1>2, <1>3, <2>1 DEF Same
<1>. QED
  BY <1>1, <1>2, <1>3, <1>4, <1>5 DEF TrashOK

(* When the only mutation ends, nothing is under way. *)
LEMMA SettlesTrash ==
    ASSUME BoardBase, TrashOK, NEW m \in Mutations, Settles(m), \A k \in Trash : OnPage(cache'[k]) = seen[k]
    PROVE  TrashOK'
<1>1. /\ Active(m) /\ ~Active(m)' /\ \A n \in Mutations \ {m} : Active(n)' <=> Active(n)
      /\ UNCHANGED <<db, seen>>
      /\ \A j \in Key : fetch'[j] = fetch[j] \/ fetch'[j].data = NoPage
  BY DEF Settles, Ends, Active
<1>2. \A n \in Mutations : ~Active(n)'
  BY <1>1 DEF TrashOK
<1>3. In("trash")' = In("trash")
  BY <1>1, SameListing
<1>4. \A j \in Trash : OnPage(fetch'[j].data) \subseteq In("trash") /\ seen[j] \subseteq In("trash")
  BY <1>1, NothingOn, KeyFacts DEF TrashOK
<1>5. (\A j : OnPage(fetch[j].data)' = OnPage(fetch'[j].data)) /\ \A j : HeldOn(j)' = OnPage(cache'[j])
  BY DEF OnPage, HeldOn
<1>. QED
  BY <1>1, <1>2, <1>3, <1>4, <1>5 DEF TrashOK

LEMMA SucceedsTrash ==
    ASSUME BoardBase, TrashOK, NEW m \in Mutations, Succeeds(m), strays' \cap Mends = {}
    PROVE  TrashOK'
<1>. DEFINE r == mut[m]
<1>1. /\ Settles(m) /\ r.pc = "ok" /\ Leftover(r) = {}
      /\ \A j \in Trash :
           \/ OnPage(cache'[j]) = HeldOn(j) /\ (r.op = "clear" => j # Latest(r))
           \/ r.op = "clear" /\ j = Latest(r) /\ OnPage(cache'[j]) = {}
  BY KeyFacts DEF Succeeds, HeldOn, Mends
<1>2. \A k \in Trash : Same(m, k)
  BY <1>1 DEF TrashOK, Settles, Ends
<1>3. CASE r.op # "clear"
  <2>1. \A k \in Trash : OnPage(cache'[k]) = seen[k]
    BY <1>1, <1>2, <1>3 DEF Same
  <2>. QED
    BY <1>1, <2>1, SettlesTrash
<1>4. CASE r.op = "clear"
  <2>1. \A k \in Trash : seen[k] = {} /\ In("trash") = {}
    BY <1>1, <1>2, <1>4 DEF Same
  <2>2. ASSUME NEW k \in Trash, k # Latest(r) PROVE HeldOn(k) = {}
    <3>1. ~Ghosts(Items \ In("trash"), Latest(r))
      BY <1>1, <1>4 DEF Leftover, If
    <3>2. Items \cap OnPage(cache[k]) = {}
      BY <2>1, <2>2, <3>1 DEF Ghosts
    <3>. QED
      BY <3>2 DEF HeldOn, OnPage
  <2>3. ASSUME NEW k \in Trash PROVE OnPage(cache'[k]) = seen[k]
    <3>1. CASE k = Latest(r)
      BY <1>1, <1>4, <2>1, <3>1
    <3>2. CASE k # Latest(r)
      BY <1>1, <1>4, <2>1, <2>2, <3>2
    <3>. QED
      BY <3>1, <3>2
  <2>. QED
    BY <1>1, <2>3, SettlesTrash
<1>. QED
  BY <1>3, <1>4

LEMMA RejectsTrash ==
    ASSUME BoardBase, TrashOK, NEW m \in Mutations, Rejects(m), strays' \cap Mends = {}
    PROVE  TrashOK'
<1>. DEFINE r == mut[m]
<1>1. /\ Settles(m) /\ r.pc = "no" /\ Active(m)
      /\ \A j \in Trash : \/ cache'[j] = cache[j] /\ (r.snap # NoPage => j # r.key)
                          \/ r.snap # NoPage /\ j = r.key /\ cache'[j] = r.snap
      /\ r.op \notin Plainly => Reverted(r) \subseteq strays'
  BY KeyFacts DEF Rejects, Settles, Ends
<1>2. (\A k \in Trash : Same(m, k)) /\ (Takes(m) => r.key \in Trash /\ r.snap # NoPage)
  BY <1>1 DEF TrashOK
<1>3. r.snap # NoPage => r.op \notin Plainly
  BY DEF BoardBase, MutOK, RecordOK
<1>4. ASSUME NEW k \in Trash PROVE OnPage(cache'[k]) = seen[k]
  <2>1. CASE r.snap # NoPage /\ k = r.key
    <3>1. cache'[k] = r.snap
      BY <1>1, <2>1
    <3>2. "reverted" \notin Reverted(r)
      BY <1>1, <1>3, <2>1 DEF Mends
    <3>. QED
      BY <2>1, <3>1, <3>2 DEF Reverted, If
  <2>2. CASE r.snap = NoPage \/ k # r.key
    <3>1. cache'[k] = cache[k]
      BY <1>1, <2>2
    <3>2. HeldOn(k) = seen[k]
      BY <1>1, <1>2, <2>2 DEF Same
    <3>. QED
      BY <3>1, <3>2 DEF HeldOn
  <2>. QED
    BY <2>1, <2>2
<1>. QED
  BY <1>1, <1>4, SettlesTrash

LEMMA StepTrash == ASSUME BoardBase, TrashInv, BoardNext PROVE TrashInv'
<1>1. strays \subseteq strays'
  <2>1. ASSUME NEW k \in Key, Reads(k) \/ Arrives(k) \/ Vanishes(k) \/ Turns(k) PROVE strays \subseteq strays'
    BY <2>1 DEF Reads, Arrives, Vanishes, Turns
  <2>2. ASSUME NEW m \in Mutations, Asked(m) \/ \E t \in Items : Guessed(m, t) PROVE strays \subseteq strays'
    BY <2>2 DEF Asked, Asks, Guessed, Guesses
  <2>3. ASSUME NEW m \in Mutations, Serves(m) \/ Loses(m) \/ Succeeds(m) \/ Rejects(m) PROVE strays \subseteq strays'
    BY <2>3 DEF Serves, Loses, Succeeds, Rejects, Settles
  <2>. QED
    BY <2>1, <2>2, <2>3, Kinds
<1>. SUFFICES ASSUME strays' \cap Mends = {}, ~InPanels' PROVE TrashOK'
  BY DEF TrashInv
<1>2. strays \cap Mends = {}
  BY <1>1
<1>3. ASSUME NEW k \in Key, Turns(k) PROVE TrashOK'
  BY <1>2, <1>3, TurnsTrash DEF TrashInv, Turns
<1>4. ASSUME view' = view PROVE ~InPanels /\ TrashOK
  BY <1>2, <1>4 DEF TrashInv, InPanels
<1>5. ASSUME NEW k \in Key, Reads(k) \/ Arrives(k) \/ Vanishes(k) PROVE TrashOK'
  <2>1. view' = view
    BY <1>5 DEF Reads, Arrives, Vanishes
  <2>. QED
    BY <1>4, <1>5, <2>1, ReadsTrash, ArrivesTrash, VanishesTrash
<1>6. ASSUME NEW m \in Mutations, Asked(m) \/ \E t \in Items : Guessed(m, t) PROVE TrashOK'
  <2>1. view' = view
    BY <1>6 DEF Asked, Asks, Guessed, Guesses
  <2>. QED
    BY <1>4, <1>6, <2>1, AsksTrash, GuessesTrash
<1>7. ASSUME NEW m \in Mutations, Serves(m) \/ Loses(m) \/ Succeeds(m) \/ Rejects(m) PROVE TrashOK'
  <2>1. view' = view
    BY <1>7 DEF Serves, Loses, Succeeds, Rejects, Settles, Ends, Meets
  <2>. QED
    BY <1>4, <1>7, <2>1, ServesTrash, LosesTrash, SucceedsTrash, RejectsTrash
<1>. QED
  BY <1>3, <1>5, <1>6, <1>7, Kinds

LEMMA StutterTrash == ASSUME TrashInv, UNCHANGED boardVars PROVE TrashInv'
<1>1. UNCHANGED <<db, view, cache, fetch, mut, seen, strays>>
  BY DEF boardVars
<1>2. In("trash")' = In("trash")
  BY <1>1, SameListing
<1>3. /\ InPanels' = InPanels
      /\ \A m : Active(m)' = Active(m) /\ Takes(m)' = Takes(m)
      /\ \A k : HeldOn(k)' = HeldOn(k) /\ OnPage(fetch[k].data)' = OnPage(fetch[k].data)
  BY <1>1 DEF InPanels, Active, Takes, HeldOn, OnPage
<1>4. \A m, k : Same(m, k)' = Same(m, k)
  BY <1>1, <1>2, <1>3 DEF Same
<1>. QED
  BY <1>1, <1>2, <1>3, <1>4 DEF TrashInv, TrashOK

LEMMA InitTrash == ASSUME BoardInit PROVE TrashInv
<1>1. \A k \in Key : OnPage(fetch[k].data) = {} /\ OnPage(cache[k]) = {}
  BY NothingOn DEF BoardInit, NoFetch
<1>2. \A k \in Trash : seen[k] = {}
  BY DEF BoardInit
<1>3. \A m \in Mutations : ~Active(m)
  BY DEF BoardInit, NoMutation, Active
<1>. QED
  BY <1>1, <1>2, <1>3, KeyFacts DEF TrashInv, TrashOK, HeldOn

LEMMA TrashShows == ASSUME BoardBase, TrashInv PROVE TrashIsTrue
<1>. SUFFICES ASSUME Quiet, view \in Trash, strays \cap Mends = {}
              PROVE  OnPage(cache[view]) = seen[view] /\ seen[view] \subseteq In("trash")
  BY DEF TrashIsTrue, Mends
<1>1. \A m \in Mutations : ~Active(m)
  BY DEF Quiet, AllSettled, Active
<1>2. TrashOK
  BY Places DEF TrashInv
<1>. QED
  BY <1>1, <1>2 DEF TrashOK, HeldOn

(* Whatever clicks, answers, failures and rollbacks overlap, what is on the  *)
(* screen when nothing is under way any more is what the server has, but for *)
(* the causes that the properties name: the deck and the panels by Truth,    *)
(* the trash by TrashInv, and the number of pages by Pages.                  *)
THEOREM ScreenShowsTheServer == BoardSpec => []ScreenIsTrue
<1>. DEFINE Inv == BoardBase /\ Truth /\ Pages /\ TrashInv
<1>1. BoardInit => Inv
  BY InitBase, InitTruth, InitPages, InitTrash
<1>2. Inv /\ [BoardNext]_boardVars => Inv'
  <2>1. ASSUME Inv, BoardNext PROVE Inv'
    BY <2>1, StepBase, StepTruth, StepPages, StepTrash
  <2>2. ASSUME Inv, UNCHANGED boardVars PROVE Inv'
    BY <2>2, StutterBase, StutterTruth, StutterPages, StutterTrash
  <2>. QED
    BY <2>1, <2>2
<1>3. Inv => ScreenIsTrue
  BY TruthShows, PagesShow, TrashShows DEF ScreenIsTrue
<1>. QED
  BY <1>1, <1>2, <1>3, PTL DEF BoardSpec
=============================================================================
