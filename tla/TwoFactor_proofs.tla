-------------------------- MODULE TwoFactor_proofs --------------------------
(* Proofs about two-factor enrolment, for any number of requests and codes.  *)
EXTENDS TwoFactor, TLAPS

(* Where a handler can be, and what it has done by then. *)
HandlerOK ==
    \A r \in Requests :
      /\ At(r, "new")   => Is(r, "none") /\ request[r].beside = {}
      /\ At(r, "save")  => request[r].kind \in {"setup", "enable", "disable", "challenge"}
      /\ At(r, "issue") => request[r].kind \in {"login", "challenge"}
      /\ At(r, "sweep") => Is(r, "disable") /\ request[r].saved
      /\ request[r].pc \in {"new", "save"} => ~request[r].saved
      /\ Is(r, "login") => ~request[r].saved
      /\ (At(r, "done") /\ request[r].kind \in {"setup", "enable", "disable"})
           => request[r].saved
      /\ request[r].session # "none" => At(r, "done")
      /\ request[r].era <= user.v /\ request[r].seen.v <= user.v

(* Secrets and codes come from setups and enables that were saved. *)
Saved(r, kind) == r \in Requests /\ Is(r, kind) /\ request[r].saved

SourcesOK ==
    /\ user.secret # NoRequest => Saved(user.secret, "setup")
    /\ user.gen # NoRequest => Saved(user.gen, "enable")
    /\ \A r \in Requests :
         request[r].proof.c # Totp => Saved(request[r].proof.of, "enable")

(* What a handler that will pass the check of __v still knows. *)
SeenOK ==
    \A r \in Requests : At(r, "save") =>
      /\ Is(r, "challenge") => request[r].proof.c # Totp
      /\ request[r].kind \in {"setup", "enable"} => request[r].proof.c = Totp
      /\ (~Is(r, "setup") /\ Current(r)) => request[r].seen.enabled = user.enabled
      /\ Is(r, "disable") => request[r].seen.enabled
      /\ (request[r].proof.c # Totp /\ Current(r)) => user.gen = request[r].proof.of
      /\ (Is(r, "enable") /\ Current(r)) =>
           /\ user.secret # NoRequest
           /\ request[r].proof.of = user.secret \/ Overlap(r, user.secret)

ReadersOverlap == \A r, s \in Reading : r # s => Overlap(r, s)

(* The codes that were used up, and those that are about to be. *)
UsedOK ==
    \A r \in Requests :
      (request[r].saved /\ request[r].proof.c # Totp /\ user.gen = request[r].proof.of)
        => request[r].proof.c \in user.spent

UsingOK ==
    \A r, s \in Requests :
      ( /\ At(r, "save") /\ request[r].proof.c # Totp /\ Current(r)
        /\ request[s].saved /\ request[s].proof = request[r].proof )
        => Overlap(r, s)

(* An enable that was saved overlapped r. *)
EnabledDuring(r) ==
    \E e \in Requests : Is(e, "enable") /\ request[e].saved /\ Overlap(e, r)

SetupsOK ==
    \A r \in Requests :
      (At(r, "save") /\ Is(r, "setup") /\ user.enabled) => EnabledDuring(r)

IInv ==
    /\ TypeOK /\ HandlerOK /\ SourcesOK /\ SeenOK
    /\ ReadersOverlap /\ UsedOK /\ UsingOK /\ SetupsOK
    /\ EnrolmentIsWhole /\ DoubleUseNeedsOverlap /\ UnprovenSecretNeedsOverlap
    /\ OneFactorNeedsOverlap /\ DisableEndsSessions

LEMMA InitInv == Init => IInv
<1> SUFFICES ASSUME Init PROVE IInv
  OBVIOUS
<1>1. /\ user = [secret |-> NoRequest, enabled |-> FALSE, gen |-> NoRequest,
                 spent |-> {}, v |-> 0]
      /\ user \in User
  BY DEF Init, User
<1>2. \A r \in Requests :
        /\ request[r].kind = "none" /\ request[r].pc = "new"
        /\ request[r].proof = NoProof /\ request[r].seen = user
        /\ request[r].session = "none" /\ ~request[r].saved
        /\ request[r].era = 0 /\ request[r].beside = {}
  BY DEF Init
<1>3. TypeOK
  <2>1. NoProof \in Proofs
    BY DEF NoProof, Proofs
  <2>. QED
    BY <1>1, <2>1 DEF Init, TypeOK, Request
<1>4. HandlerOK /\ SourcesOK /\ SeenOK
  <2>1. HandlerOK
    <3>1. user.v = 0
      BY <1>1
    <3>2. ASSUME NEW r \in Requests
          PROVE  request[r].era <= user.v /\ request[r].seen.v <= user.v
      <4>1. request[r].era = 0 /\ request[r].seen.v = 0
        BY <1>2, <3>1
      <4>2. \A m, n \in Nat : m = 0 => m <= n
        OBVIOUS
      <4>. QED
        BY <3>1, <4>1, <4>2
    <3>3. ASSUME NEW r \in Requests
          PROVE  /\ request[r].pc = "new" /\ request[r].kind = "none"
                 /\ request[r].session = "none" /\ ~request[r].saved
                 /\ request[r].beside = {}
      BY <1>2
    <3>. QED
      BY <3>2, <3>3 DEF HandlerOK, At, Is
  <2>2. SourcesOK
    BY <1>1, <1>2 DEF SourcesOK, NoProof
  <2>3. SeenOK
    BY <1>2 DEF SeenOK, At
  <2>. QED
    BY <2>1, <2>2, <2>3
<1>5. ReadersOverlap /\ UsedOK /\ UsingOK /\ SetupsOK
  BY <1>1, <1>2 DEF ReadersOverlap, Reading, UsedOK, UsingOK, SetupsOK, At
<1>6. EnrolmentIsWhole /\ DoubleUseNeedsOverlap /\ UnprovenSecretNeedsOverlap
  BY <1>1, <1>2 DEF EnrolmentIsWhole, DoubleUseNeedsOverlap, UnprovenSecretNeedsOverlap
<1>7. OneFactorNeedsOverlap /\ DisableEndsSessions
  BY <1>1, <1>2 DEF OneFactorNeedsOverlap, DisableEndsSessions, At
<1>. QED
  BY <1>3, <1>4, <1>5, <1>6, <1>7 DEF IInv

-----------------------------------------------------------------------------
(* What no step changes of a request once it has read. *)
Kept ==
    \A s \in Requests :
      /\ request'[s].kind = request[s].kind /\ request'[s].proof = request[s].proof
      /\ request'[s].seen = request[s].seen /\ request'[s].beside = request[s].beside

(* No write is made, and handlers only end. *)
Ends ==
    \A s \in Requests :
      /\ request'[s].saved = request[s].saved
      /\ \/ request'[s].pc = request[s].pc
         \/ /\ request[s].pc \in {"save", "issue", "sweep"}
            /\ request'[s].pc \in {"done", "dead"}

LEMMA EndsInv ==
    ASSUME IInv, UNCHANGED user, request' \in [Requests -> Request], Kept, Ends,
           HandlerOK', DisableEndsSessions'
    PROVE  IInv'
<1> USE DEF Kept, Ends
<1>1. TypeOK'
  BY DEF IInv, TypeOK
<1>2. SourcesOK'
  BY DEF IInv, SourcesOK, Saved, Is
<1>3. SeenOK'
  BY DEF IInv, SeenOK, SourcesOK, Saved, At, Is, Current, Overlap
<1>4. ReadersOverlap'
  BY DEF IInv, ReadersOverlap, Reading, At, Overlap
<1>5. UsedOK' /\ UsingOK'
  BY DEF IInv, UsedOK, UsingOK, At, Current, Overlap
<1>6. ASSUME NEW r \in Requests, EnabledDuring(r)
      PROVE  EnabledDuring(r)'
  BY <1>6 DEF EnabledDuring, Is, Overlap
<1>7. SetupsOK'
  BY <1>6 DEF IInv, SetupsOK, At, Is
<1>8. EnrolmentIsWhole' /\ DoubleUseNeedsOverlap'
  BY DEF IInv, EnrolmentIsWhole, DoubleUseNeedsOverlap, Overlap
<1>9. UnprovenSecretNeedsOverlap'
  <2> SUFFICES ASSUME user.enabled, request[user.gen].proof.of # user.secret
               PROVE  EnabledDuring(user.secret)'
    BY DEF IInv, UnprovenSecretNeedsOverlap, EnabledDuring, EnrolmentIsWhole, SourcesOK, Saved
  <2>1. user.secret \in Requests /\ EnabledDuring(user.secret)
    BY DEF IInv, UnprovenSecretNeedsOverlap, EnabledDuring, EnrolmentIsWhole, SourcesOK, Saved
  <2>. QED
    BY <1>6, <2>1
<1>10. OneFactorNeedsOverlap'
  BY <1>6 DEF IInv, OneFactorNeedsOverlap, EnabledDuring, At, Is
<1>. QED
  BY <1>1, <1>2, <1>3, <1>4, <1>5, <1>7, <1>8, <1>9, <1>10 DEF IInv

LEMMA PcEffect ==
    ASSUME TypeOK, NEW r \in Requests, NEW pc \in {"done", "dead"},
           request' = [request EXCEPT ![r].pc = pc]
    PROVE  /\ request' \in [Requests -> Request]
           /\ \A s \in Requests : s # r => request'[s] = request[s]
           /\ request'[r].pc = pc /\ request'[r].session = request[r].session
           /\ request'[r].era = request[r].era
           /\ request'[r].kind = request[r].kind /\ request'[r].proof = request[r].proof
           /\ request'[r].seen = request[r].seen /\ request'[r].beside = request[r].beside
           /\ (request'[r].saved = request[r].saved)
<1> DEFINE d(m) == [m EXCEPT !.pc = pc]
<1>1. ASSUME NEW m \in Request
      PROVE  /\ d(m) \in Request /\ d(m).pc = pc /\ d(m).session = m.session
             /\ d(m).era = m.era /\ d(m).kind = m.kind /\ d(m).proof = m.proof
             /\ d(m).seen = m.seen /\ d(m).beside = m.beside /\ (d(m).saved = m.saved)
  BY DEF Request
<1>2. request' = [request EXCEPT ![r] = d(request[r])] /\ request[r] \in Request
  BY DEF TypeOK
<1> HIDE DEF d
<1>. QED
  BY <1>1, <1>2 DEF TypeOK

LEMMA VersionErrorInv == ASSUME IInv, NEW r \in Requests, VersionError(r) PROVE IInv'
<1>1. TypeOK /\ request' = [request EXCEPT ![r].pc = "dead"] /\ UNCHANGED user
  BY DEF IInv, VersionError
<1>2. /\ request' \in [Requests -> Request] /\ Kept /\ Ends /\ request'[r].pc = "dead"
      /\ \A s \in Requests : /\ s # r => request'[s] = request[s]
                             /\ request'[s].era = request[s].era
                             /\ request'[s].session = request[s].session
  BY <1>1, PcEffect DEF Kept, Ends, VersionError, At
<1>3. HandlerOK' /\ DisableEndsSessions'
  BY <1>1, <1>2 DEF IInv, HandlerOK, DisableEndsSessions, Kept, Ends, VersionError, At, Is
<1>. QED
  BY <1>1, <1>2, <1>3, EndsInv

LEMMA FailInv == ASSUME IInv, NEW r \in Requests, Fail(r) PROVE IInv'
<1>1. TypeOK /\ request' = [request EXCEPT ![r].pc = "dead"] /\ UNCHANGED user
  BY DEF IInv, Fail
<1>2. /\ request' \in [Requests -> Request] /\ Kept /\ Ends /\ request'[r].pc = "dead"
      /\ \A s \in Requests : /\ s # r => request'[s] = request[s]
                             /\ request'[s].era = request[s].era
                             /\ request'[s].session = request[s].session
  BY <1>1, PcEffect DEF Kept, Ends, Fail
<1>3. HandlerOK' /\ DisableEndsSessions'
  BY <1>1, <1>2 DEF IInv, HandlerOK, DisableEndsSessions, Kept, Ends, Fail, At, Is
<1>. QED
  BY <1>1, <1>2, <1>3, EndsInv

LEMMA IssueInv == ASSUME IInv, NEW r \in Requests, Issue(r) PROVE IInv'
<1>1. TypeOK /\ At(r, "issue") /\ UNCHANGED user /\ user.v \in Nat
  BY DEF IInv, Issue, TypeOK, User
<1> DEFINE d(m) == [m EXCEPT !.pc = "done", !.session = "live", !.era = user.v]
<1>2. ASSUME NEW m \in Request
      PROVE  /\ d(m) \in Request /\ d(m).pc = "done" /\ d(m).session = "live"
             /\ d(m).era = user.v /\ d(m).kind = m.kind /\ d(m).proof = m.proof
             /\ d(m).seen = m.seen /\ d(m).beside = m.beside /\ (d(m).saved = m.saved)
  BY <1>1 DEF Request
<1>3. request' = [request EXCEPT ![r] = d(request[r])] /\ request[r] \in Request
  BY <1>1 DEF Issue, TypeOK
<1> HIDE DEF d
<1>4. /\ request' \in [Requests -> Request] /\ Kept /\ Ends
      /\ request'[r].pc = "done" /\ request'[r].era = user.v
      /\ \A s \in Requests : s # r => request'[s] = request[s]
  BY <1>1, <1>2, <1>3 DEF TypeOK, Kept, Ends, At
<1>5. HandlerOK' /\ DisableEndsSessions'
  <2>1. \A s \in Requests : request[s].era \in Nat /\ request[s].era <= user.v
    BY DEF IInv, TypeOK, Request, HandlerOK
  <2>2. HandlerOK'
    BY <1>1, <1>4 DEF IInv, HandlerOK, Kept, Ends, At, Is
  <2>3. request[r].kind # "disable"
    BY <1>1 DEF IInv, HandlerOK
  <2>4. DisableEndsSessions'
    BY <1>1, <1>4, <2>1, <2>3 DEF IInv, DisableEndsSessions, Kept, At, Is
  <2>. QED
    BY <2>2, <2>4
<1>. QED
  BY <1>1, <1>4, <1>5, EndsInv

LEMMA SweepInv == ASSUME IInv, NEW r \in Requests, Sweep(r) PROVE IInv'
<1>1. TypeOK /\ At(r, "sweep") /\ UNCHANGED user
  BY DEF IInv, Sweep
<1> DEFINE d(s, m) == [m EXCEPT !.pc = IF s = r THEN "done" ELSE @,
                                !.session = IF @ = "live" THEN "revoked" ELSE @]
<1>2. ASSUME NEW s \in Requests, NEW m \in Request
      PROVE  /\ d(s, m) \in Request /\ d(s, m).session # "live"
             /\ d(s, m).session # "none" => m.session # "none"
             /\ d(s, m).pc = IF s = r THEN "done" ELSE m.pc
             /\ d(s, m).era = m.era /\ d(s, m).kind = m.kind /\ d(s, m).proof = m.proof
             /\ d(s, m).seen = m.seen /\ d(s, m).beside = m.beside
             /\ (d(s, m).saved = m.saved)
  BY DEF Request
<1>3. request' = [s \in Requests |-> d(s, request[s])]
      /\ \A s \in Requests : request[s] \in Request
  BY DEF Sweep, IInv, TypeOK
<1> HIDE DEF d
<1>4. /\ request' \in [Requests -> Request] /\ Kept /\ Ends
      /\ \A s \in Requests :
           /\ request'[s].session # "live" /\ request'[s].era = request[s].era
           /\ request'[s].session # "none" => request[s].session # "none"
           /\ request'[s].pc = IF s = r THEN "done" ELSE request[s].pc
  BY <1>1, <1>2, <1>3 DEF Kept, Ends, At
<1>5. HandlerOK' /\ DisableEndsSessions'
  BY <1>1, <1>4 DEF IInv, HandlerOK, DisableEndsSessions, Kept, Ends, At, Is
<1>. QED
  BY <1>1, <1>4, <1>5, EndsInv

-----------------------------------------------------------------------------
(* What the five handlers ask before they go on from their read. *)
Asked(kind, p, next) ==
    \/ kind = "setup" /\ p = NoProof /\ next = "save" /\ ~user.enabled
    \/ kind = "login" /\ p = NoProof /\ next = "issue" /\ ~user.enabled
    \/ kind = "enable" /\ p.c = Totp /\ Known(p) /\ Valid(p) /\ next = "save"
    \/ kind = "disable" /\ user.enabled /\ Known(p) /\ Valid(p) /\ next = "save"
    \/ /\ kind = "challenge" /\ user.enabled /\ Known(p) /\ Valid(p)
       /\ next = IF p.c = Totp THEN "issue" ELSE "save"

LEMMA ReadEffect ==
    ASSUME TypeOK, NEW r \in Requests, NEW kind, NEW p \in Proofs, NEW next,
           Asked(kind, p, next), Read(r, kind, p, next)
    PROVE  /\ request' \in [Requests -> Request]
           /\ \A s \in Requests : s # r => request'[s] = request[s]
           /\ request'[r].kind = kind /\ request'[r].pc = next /\ request'[r].proof = p
           /\ request'[r].seen = user /\ request'[r].beside = Reading
           /\ request'[r].session = request[r].session
           /\ request'[r].era = request[r].era
           /\ (request'[r].saved = request[r].saved)
<1> DEFINE d(m) == [m EXCEPT !.kind = kind, !.pc = next, !.proof = p,
                             !.seen = user, !.beside = Reading]
<1>1. /\ kind \in {"setup", "enable", "disable", "login", "challenge"}
      /\ next \in {"save", "issue"} /\ user \in User /\ Reading \in SUBSET Requests
  BY DEF Asked, TypeOK, Reading
<1>2. ASSUME NEW m \in Request
      PROVE  /\ d(m) \in Request /\ d(m).kind = kind /\ d(m).pc = next
             /\ d(m).proof = p /\ d(m).seen = user /\ d(m).beside = Reading
             /\ d(m).session = m.session /\ d(m).era = m.era /\ (d(m).saved = m.saved)
  BY <1>1 DEF Request
<1>3. request' = [request EXCEPT ![r] = d(request[r])] /\ request[r] \in Request
  BY DEF Read, TypeOK
<1> HIDE DEF d
<1>. QED
  BY <1>2, <1>3 DEF TypeOK

LEMMA ReadInv ==
    ASSUME IInv, NEW r \in Requests, NEW kind, NEW p \in Proofs, NEW next,
           Asked(kind, p, next), Read(r, kind, p, next)
    PROVE  IInv'
<1>1. At(r, "new") /\ ~request[r].saved /\ request[r].session = "none" /\ UNCHANGED user
  <2>1. request[r].session = "none"
    BY DEF IInv, TypeOK, Request, HandlerOK, Read, At
  <2>. QED
    BY <2>1 DEF IInv, HandlerOK, Read, At
<1>2. /\ request' \in [Requests -> Request]
      /\ \A s \in Requests : s # r => request'[s] = request[s]
      /\ request'[r].kind = kind /\ request'[r].pc = next /\ request'[r].proof = p
      /\ request'[r].seen = user /\ request'[r].beside = Reading
      /\ request'[r].session = "none" /\ request'[r].era = request[r].era
      /\ ~request'[r].saved
  <2>1. TypeOK
    BY DEF IInv
  <2>2. /\ request' \in [Requests -> Request]
        /\ \A s \in Requests : s # r => request'[s] = request[s]
        /\ request'[r].kind = kind /\ request'[r].pc = next /\ request'[r].proof = p
        /\ request'[r].seen = user /\ request'[r].beside = Reading
        /\ request'[r].session = request[r].session
        /\ request'[r].era = request[r].era
        /\ (request'[r].saved = request[r].saved)
    BY <2>1, ReadEffect, Zenon
  <2>3. ~request'[r].saved
    BY <1>1, <2>2, Zenon
  <2>. QED
    BY <1>1, <2>2, <2>3
<1>3. /\ kind \in {"setup", "enable", "disable", "login", "challenge"}
      /\ next \in {"save", "issue"}
      /\ next = "issue" <=> (kind = "login" \/ (kind = "challenge" /\ p.c = Totp))
      /\ kind = "setup" => ~user.enabled /\ p.c = Totp
      /\ kind = "login" => ~user.enabled /\ p.c = Totp
      /\ kind = "disable" => user.enabled
      /\ kind = "enable" => p.of = user.secret /\ p.of \in Requests /\ p.c = Totp
      /\ p.c # Totp => /\ p.of = user.gen /\ p.c \notin user.spent
                       /\ Saved(p.of, "enable")
  <2>1. p.c # Totp => /\ kind \in {"disable", "challenge"} /\ Known(p) /\ Valid(p)
    BY DEF Asked, NoProof
  <2>2. p.c # Totp => Saved(p.of, "enable")
    BY <2>1 DEF Known, Saved, IInv, HandlerOK, Is
  <2>3. kind = "enable" => p.of = user.secret /\ p.of \in Requests /\ p.c = Totp
    BY DEF Asked, Known, Valid
  <2>. QED
    BY <2>1, <2>2, <2>3 DEF Asked, Valid, NoProof
<1>4. \A s \in Requests : request[s].saved => s # r
  BY <1>1
<1>5. ASSUME NEW s, NEW k, Saved(s, k)
      PROVE  s \in Requests /\ request'[s].kind = k /\ request'[s].saved
  BY <1>2, <1>4, <1>5 DEF Saved, Is
<1>6. TypeOK'
  BY <1>1, <1>2 DEF IInv, TypeOK
<1>7. HandlerOK'
  <2>1. user.v \in Nat
    BY DEF IInv, TypeOK, User
  <2>. QED
    BY <1>1, <1>2, <1>3, <2>1 DEF IInv, HandlerOK, At, Is
<1>8. SourcesOK'
  <2>1. /\ user.secret # NoRequest => Saved(user.secret, "setup")
        /\ user.gen # NoRequest => Saved(user.gen, "enable")
    BY DEF IInv, SourcesOK
  <2>2. ASSUME NEW s \in Requests, request'[s].proof.c # Totp
        PROVE  /\ request'[s].proof.of \in Requests
               /\ request'[request'[s].proof.of].kind = "enable"
               /\ request'[request'[s].proof.of].saved
    <3> DEFINE of == request'[s].proof.of
    <3>1. Saved(of, "enable")
      BY <1>2, <1>3, <2>2 DEF IInv, SourcesOK
    <3> HIDE DEF of
    <3>2. of \in Requests /\ request'[of].kind = "enable" /\ request'[of].saved
      BY <3>1, <1>5
    <3>. QED
      BY <3>2 DEF of
  <2>3. user.secret # NoRequest =>
          /\ user.secret \in Requests /\ request'[user.secret].kind = "setup"
          /\ request'[user.secret].saved
    BY <2>1, <1>5
  <2>4. user.gen # NoRequest =>
          /\ user.gen \in Requests /\ request'[user.gen].kind = "enable"
          /\ request'[user.gen].saved
    BY <2>1, <1>5
  <2>. QED
    BY <1>1, <2>2, <2>3, <2>4 DEF SourcesOK, Saved, Is
<1>9. \A s, t \in Requests : s # r /\ t # r => (Overlap(s, t)' <=> Overlap(s, t))
  BY <1>2 DEF Overlap
<1>10. SeenOK'
  <2>1. ASSUME NEW s \in Requests, s # r, request[s].pc = "save"
        PROVE  /\ request[s].kind = "challenge" => request[s].proof.c # Totp
               /\ request[s].kind \in {"setup", "enable"} => request[s].proof.c = Totp
               /\ (request[s].kind # "setup" /\ Current(s))
                    => request[s].seen.enabled = user.enabled
               /\ request[s].kind = "disable" => request[s].seen.enabled
               /\ (request[s].proof.c # Totp /\ Current(s))
                    => user.gen = request[s].proof.of
               /\ (request[s].kind = "enable" /\ Current(s)) =>
                    /\ user.secret # NoRequest
                    /\ request[s].proof.of = user.secret \/ Overlap(s, user.secret)'
    <3>1. (request[s].kind = "enable" /\ Current(s)) =>
            /\ user.secret # NoRequest
            /\ request[s].proof.of = user.secret \/ Overlap(s, user.secret)
      BY <2>1 DEF IInv, SeenOK, At, Is
    <3>2. user.secret # NoRequest => user.secret \in Requests /\ user.secret # r
      BY <1>4 DEF IInv, SourcesOK, Saved
    <3>3. (request[s].kind = "enable" /\ Current(s)) =>
            /\ user.secret # NoRequest
            /\ request[s].proof.of = user.secret \/ Overlap(s, user.secret)'
      BY <3>1, <3>2, <1>1, <1>9, <2>1
    <3>. QED
      BY <2>1, <3>3 DEF IInv, SeenOK, At, Is
  <2>2. user.secret # NoRequest \/ user.secret \notin Requests
    BY TwoFactorAssumption
  <2>3. ASSUME NEW s \in Requests, s # r, request'[s].pc = "save"
        PROVE  /\ Is(s, "challenge")' => request'[s].proof.c # Totp
               /\ request'[s].kind \in {"setup", "enable"} => request'[s].proof.c = Totp
               /\ (~Is(s, "setup")' /\ Current(s)') => request'[s].seen.enabled = user'.enabled
               /\ Is(s, "disable")' => request'[s].seen.enabled
               /\ (request'[s].proof.c # Totp /\ Current(s)')
                     => user'.gen = request'[s].proof.of
               /\ (Is(s, "enable")' /\ Current(s)') =>
                     /\ user'.secret # NoRequest
                     /\ request'[s].proof.of = user'.secret \/ Overlap(s, user.secret)'
    BY <2>1, <2>3, <1>1, <1>2 DEF Is, Current
  <2>4. (request'[r].pc = "save") =>
               /\ Is(r, "challenge")' => request'[r].proof.c # Totp
               /\ request'[r].kind \in {"setup", "enable"} => request'[r].proof.c = Totp
               /\ request'[r].seen.enabled = user'.enabled
               /\ Is(r, "disable")' => request'[r].seen.enabled
               /\ request'[r].proof.c # Totp => user'.gen = request'[r].proof.of
               /\ Is(r, "enable")' =>
                     /\ user'.secret # NoRequest
                     /\ request'[r].proof.of = user'.secret
    BY <1>1, <1>2, <1>3, <2>2 DEF Is
  <2>. QED
    BY <2>3, <2>4, <1>1 DEF SeenOK, At
<1>11. ReadersOverlap'
  <2>1. \A s \in Requests : s # r => (s \in Reading' <=> s \in Reading)
    BY <1>2 DEF Reading, At
  <2>2. ASSUME NEW s \in Reading', NEW t \in Reading', s # t
        PROVE  Overlap(s, t)'
    <3>1. s \in Requests /\ t \in Requests
      BY DEF Reading
    <3>2. CASE s = r
      BY <3>1, <3>2, <2>1, <2>2, <1>2 DEF Overlap
    <3>3. CASE t = r
      BY <3>1, <3>3, <2>1, <2>2, <1>2 DEF Overlap
    <3>4. CASE s # r /\ t # r
      BY <3>1, <3>4, <2>1, <2>2, <1>9 DEF IInv, ReadersOverlap
    <3>. QED
      BY <3>2, <3>3, <3>4
  <2>. QED
    BY <2>2 DEF ReadersOverlap
<1>12. UsedOK'
  BY <1>1, <1>2 DEF IInv, UsedOK
<1>13. UsingOK'
  <2>1. ASSUME NEW s \in Requests, NEW t \in Requests,
               request'[s].pc = "save", request'[s].proof.c # Totp, Current(s)',
               request'[t].saved, request'[t].proof = request'[s].proof
        PROVE  Overlap(s, t)'
    <3>1. t # r /\ request'[t] = request[t] /\ request[t].saved
      BY <1>2, <2>1
    <3>2. CASE s = r
      BY <3>1, <3>2, <2>1, <1>2, <1>3 DEF IInv, UsedOK
    <3>3. CASE s # r
      BY <3>1, <3>3, <2>1, <1>1, <1>2, <1>9 DEF IInv, UsingOK, At, Current
    <3>. QED
      BY <3>2, <3>3
  <2>. QED
    BY <2>1 DEF UsingOK, At
<1>14. ASSUME NEW s \in Requests, s # r, EnabledDuring(s)
       PROVE  EnabledDuring(s)'
  <2>1. PICK e \in Requests : Is(e, "enable") /\ request[e].saved /\ Overlap(e, s)
    BY <1>14 DEF EnabledDuring
  <2>. QED
    BY <2>1, <1>2, <1>4, <1>9, <1>14 DEF EnabledDuring, Is
<1>15. SetupsOK'
  BY <1>1, <1>2, <1>3, <1>14 DEF IInv, SetupsOK, At, Is
<1>16. EnrolmentIsWhole' /\ DoubleUseNeedsOverlap' /\ DisableEndsSessions'
  <2>1. EnrolmentIsWhole'
    BY <1>1 DEF IInv, EnrolmentIsWhole
  <2>2. DoubleUseNeedsOverlap'
    BY <1>2, <1>9 DEF IInv, DoubleUseNeedsOverlap
  <2>3. DisableEndsSessions'
    BY <1>1, <1>2, <1>3 DEF IInv, DisableEndsSessions, At, Is
  <2>. QED
    BY <2>1, <2>2, <2>3
<1>17. UnprovenSecretNeedsOverlap'
  <2> SUFFICES ASSUME user.enabled, request'[user.gen].proof.of # user.secret
               PROVE  EnabledDuring(user.secret)'
    BY <1>1 DEF UnprovenSecretNeedsOverlap, EnabledDuring
  <2>1. /\ user.gen \in Requests /\ user.gen # r
        /\ user.secret \in Requests /\ user.secret # r
    BY <1>4 DEF IInv, EnrolmentIsWhole, SourcesOK, Saved
  <2>2. EnabledDuring(user.secret)
    BY <2>1, <1>2 DEF IInv, UnprovenSecretNeedsOverlap, EnabledDuring
  <2>. QED
    BY <2>1, <2>2, <1>1, <1>14
<1>18. OneFactorNeedsOverlap'
  <2>1. ASSUME NEW s \in Requests, request'[s].pc = "issue", request'[s].kind = "login",
               user.enabled
        PROVE  EnabledDuring(s)'
    <3>1. s # r
      BY <2>1, <1>2, <1>3
    <3>2. EnabledDuring(s)
      BY <2>1, <3>1, <1>2 DEF IInv, OneFactorNeedsOverlap, EnabledDuring, At, Is
    <3>. QED
      BY <3>1, <3>2, <1>14
  <2>. QED
    BY <2>1, <1>1 DEF OneFactorNeedsOverlap, EnabledDuring, At, Is
<1>. QED
  BY <1>6, <1>7, <1>8, <1>10, <1>11, <1>12, <1>13, <1>15, <1>16, <1>17, <1>18 DEF IInv

-----------------------------------------------------------------------------
LEMMA WroteEffect ==
    ASSUME TypeOK, NEW r \in Requests, NEW next \in {"done", "sweep", "issue"},
           NEW era \in Nat, Wrote(r, next, era)
    PROVE  /\ request' \in [Requests -> Request] /\ Kept
           /\ \A s \in Requests : s # r => request'[s] = request[s]
           /\ request'[r].pc = next /\ request'[r].era = era
           /\ request'[r].session = request[r].session /\ request'[r].saved
<1> DEFINE d(m) == [m EXCEPT !.pc = next, !.saved = TRUE, !.era = era]
<1>1. ASSUME NEW m \in Request
      PROVE  /\ d(m) \in Request /\ d(m).pc = next /\ d(m).era = era
             /\ d(m).session = m.session /\ d(m).saved
             /\ d(m).kind = m.kind /\ d(m).proof = m.proof
             /\ d(m).seen = m.seen /\ d(m).beside = m.beside
  BY DEF Request
<1>2. request' = [request EXCEPT ![r] = d(request[r])] /\ request[r] \in Request
  BY DEF Wrote, TypeOK
<1> HIDE DEF d
<1>. QED
  BY <1>1, <1>2 DEF TypeOK, Kept

(* A save that succeeds, as far as the handlers go. *)
LEMMA WroteFacts ==
    ASSUME IInv, NEW r \in Requests, At(r, "save"),
           NEW next \in {"done", "sweep", "issue"}, NEW era \in Nat,
           Wrote(r, next, era)
    PROVE  /\ request' \in [Requests -> Request] /\ Kept
           /\ \A s \in Requests : s # r => request'[s] = request[s]
           /\ request'[r].pc = next /\ request'[r].era = era
           /\ request'[r].session = "none" /\ request'[r].saved /\ ~request[r].saved
           /\ \A s \in Requests : request[s].saved => request'[s].saved
           /\ \A s, t \in Requests : Overlap(s, t)' <=> Overlap(s, t)
           /\ \A s \in Requests : EnabledDuring(s) => EnabledDuring(s)'
           /\ ReadersOverlap'
<1>1. request[r].session = "none" /\ ~request[r].saved
  BY DEF IInv, HandlerOK, At
<1>2. /\ request' \in [Requests -> Request] /\ Kept
      /\ \A s \in Requests : s # r => request'[s] = request[s]
      /\ request'[r].pc = next /\ request'[r].era = era
      /\ request'[r].session = request[r].session /\ request'[r].saved
  <2>1. TypeOK
    BY DEF IInv
  <2>. QED
    BY <2>1, WroteEffect
<1>3. \A s \in Requests : request[s].saved => request'[s].saved
  BY <1>2
<1>4. \A s, t \in Requests : Overlap(s, t)' <=> Overlap(s, t)
  BY <1>2 DEF Kept, Overlap
<1>5. \A s \in Requests : EnabledDuring(s) => EnabledDuring(s)'
  BY <1>2, <1>3, <1>4 DEF Kept, EnabledDuring, Is
<1>6. ReadersOverlap'
  <2>1. \A s \in Reading' : s \in Reading /\ s \in Requests
    BY <1>2 DEF Reading, At
  <2>. QED
    BY <2>1, <1>4 DEF IInv, ReadersOverlap
<1>. QED
  BY <1>1, <1>2, <1>3, <1>4, <1>5, <1>6

LEMMA SaveSecretInv == ASSUME IInv, NEW r \in Requests, SaveSecret(r) PROVE IInv'
<1>1. /\ At(r, "save") /\ Is(r, "setup") /\ user \in User /\ user.v \in Nat
      /\ request[r].proof.c = Totp
      /\ user' = [user EXCEPT !.secret = r]
  BY DEF SaveSecret, IInv, TypeOK, User, SeenOK, Is
<1>2. /\ user' \in User /\ user'.secret = r /\ (user'.enabled = user.enabled)
      /\ user'.gen = user.gen /\ user'.spent = user.spent /\ user'.v = user.v
  BY <1>1 DEF User
<1>3. /\ request' \in [Requests -> Request] /\ Kept
      /\ \A s \in Requests : s # r => request'[s] = request[s]
      /\ request'[r].pc = "done" /\ request'[r].era = user.v
      /\ request'[r].session = "none" /\ request'[r].saved /\ ~request[r].saved
      /\ \A s \in Requests : request[s].saved => request'[s].saved
      /\ \A s, t \in Requests : Overlap(s, t)' <=> Overlap(s, t)
      /\ \A s \in Requests : EnabledDuring(s) => EnabledDuring(s)'
      /\ ReadersOverlap'
  BY <1>1, WroteFacts DEF SaveSecret
<1>4. TypeOK'
  BY <1>2, <1>3 DEF TypeOK
<1>5. HandlerOK'
  BY <1>1, <1>2, <1>3 DEF IInv, HandlerOK, Kept, At, Is
<1>6. SourcesOK'
  BY <1>1, <1>2, <1>3 DEF IInv, SourcesOK, Saved, Kept, Is
<1>7. SeenOK'
  <2>1. ASSUME NEW s \in Requests, request'[s].pc = "save"
        PROVE  s # r /\ At(s, "save") /\ Overlap(s, r)' /\ request'[s] = request[s]
    <3>1. s # r /\ At(s, "save")
      BY <2>1, <1>3 DEF At
    <3>2. s \in Reading /\ r \in Reading
      BY <3>1, <1>1 DEF Reading
    <3>. QED
      BY <3>1, <3>2, <1>3 DEF IInv, ReadersOverlap
  <2>2. r # NoRequest
    BY TwoFactorAssumption
  <2>3. ASSUME NEW s \in Requests, At(s, "save")
        PROVE  /\ Is(s, "challenge") => request[s].proof.c # Totp
               /\ request[s].kind \in {"setup", "enable"} => request[s].proof.c = Totp
               /\ (~Is(s, "setup") /\ Current(s))
                    => request[s].seen.enabled = user.enabled
               /\ Is(s, "disable") => request[s].seen.enabled
               /\ (request[s].proof.c # Totp /\ Current(s))
                    => user.gen = request[s].proof.of
    BY <2>3 DEF IInv, SeenOK
  <2>4. ASSUME NEW s \in Requests, request'[s].pc = "save"
        PROVE  /\ Is(s, "challenge")' => request'[s].proof.c # Totp
               /\ request'[s].kind \in {"setup", "enable"} => request'[s].proof.c = Totp
               /\ (~Is(s, "setup")' /\ Current(s)')
                    => request'[s].seen.enabled = user'.enabled
               /\ Is(s, "disable")' => request'[s].seen.enabled
               /\ (request'[s].proof.c # Totp /\ Current(s)')
                    => user'.gen = request'[s].proof.of
    BY <2>1, <2>3, <2>4, <1>2 DEF Is, Current
  <2>5. ASSUME NEW s \in Requests, request'[s].pc = "save"
        PROVE  Overlap(s, user.secret)'
    BY <2>1, <2>5, <1>2 DEF Overlap
  <2>. QED
    BY <2>2, <2>4, <2>5, <1>2 DEF SeenOK, At
<1>8. UsedOK' /\ UsingOK'
  <2>1. UsedOK'
    BY <1>1, <1>2, <1>3 DEF IInv, UsedOK, Kept
  <2>2. UsingOK'
    BY <1>1, <1>2, <1>3 DEF IInv, UsingOK, Kept, At, Current
  <2>. QED
    BY <2>1, <2>2
<1>9. SetupsOK'
  BY <1>2, <1>3 DEF IInv, SetupsOK, Kept, At, Is
<1>10. EnrolmentIsWhole'
  <2>1. r # NoRequest
    BY TwoFactorAssumption
  <2>. QED
    BY <2>1, <1>2 DEF IInv, EnrolmentIsWhole
<1>11. DoubleUseNeedsOverlap'
  BY <1>1, <1>3 DEF IInv, DoubleUseNeedsOverlap, Kept
<1>12. UnprovenSecretNeedsOverlap'
  <2>1. user'.enabled => EnabledDuring(r)'
    BY <1>1, <1>2, <1>3 DEF IInv, SetupsOK
  <2>. QED
    BY <2>1, <1>2 DEF UnprovenSecretNeedsOverlap, EnabledDuring, Overlap, Is
<1>13. OneFactorNeedsOverlap'
  <2>1. ASSUME NEW s \in Requests, request'[s].pc = "issue", request'[s].kind = "login",
               user'.enabled
        PROVE  EnabledDuring(s)'
    <3>1. EnabledDuring(s)
      BY <2>1, <1>2, <1>3 DEF IInv, OneFactorNeedsOverlap, EnabledDuring, At, Is
    <3>. QED
      BY <3>1, <1>3
  <2>. QED
    BY <2>1 DEF OneFactorNeedsOverlap, EnabledDuring, At, Is
<1>14. DisableEndsSessions'
  BY <1>1, <1>3 DEF IInv, DisableEndsSessions, Kept, At, Is
<1>. QED
  BY <1>3, <1>4, <1>5, <1>6, <1>7, <1>8, <1>9, <1>10, <1>11, <1>12, <1>13, <1>14 DEF IInv

LEMMA SaveEnabledInv == ASSUME IInv, NEW r \in Requests, SaveEnabled(r) PROVE IInv'
<1>1. /\ At(r, "save") /\ Is(r, "enable") /\ user \in User /\ user.v \in Nat
      /\ user.v + 1 \in Nat /\ request[r].proof.c = Totp
      /\ (request[r].seen.enabled = user.enabled)
      /\ user.secret # NoRequest
      /\ request[r].proof.of = user.secret \/ Overlap(r, user.secret)
      /\ user' = [user EXCEPT !.gen = r, !.spent = {}, !.v = @ + 1,
                              !.enabled = @ \/ ~request[r].seen.enabled]
  BY DEF SaveEnabled, IInv, TypeOK, User, SeenOK, Is
<1>2. /\ user' \in User /\ user'.secret = user.secret /\ user'.enabled
      /\ user'.gen = r /\ user'.spent = {} /\ user'.v = user.v + 1
  <2>1. (user.enabled \/ ~request[r].seen.enabled) = TRUE
    BY <1>1 DEF User
  <2>2. user' = [user EXCEPT !.gen = r, !.spent = {}, !.v = @ + 1, !.enabled = TRUE]
    BY <1>1, <2>1 DEF User
  <2>. QED
    BY <1>1, <2>2 DEF User
<1>3. /\ request' \in [Requests -> Request] /\ Kept
      /\ \A s \in Requests : s # r => request'[s] = request[s]
      /\ request'[r].pc = "done" /\ request'[r].era = user.v + 1
      /\ request'[r].session = "none" /\ request'[r].saved /\ ~request[r].saved
      /\ \A s \in Requests : request[s].saved => request'[s].saved
      /\ \A s, t \in Requests : Overlap(s, t)' <=> Overlap(s, t)
      /\ \A s \in Requests : EnabledDuring(s) => EnabledDuring(s)'
      /\ ReadersOverlap'
  BY <1>1, WroteFacts DEF SaveEnabled
<1>4. TypeOK'
  BY <1>2, <1>3 DEF TypeOK
<1>5. \A s \in Requests : request[s].seen.v <= user.v /\ request[s].seen.v \in Nat
  BY DEF IInv, HandlerOK, TypeOK, Request, User
<1>6. \A s \in Requests : ~Current(s)'
  BY <1>1, <1>2, <1>3, <1>5 DEF Kept, Current
<1>7. HandlerOK'
  <2>1. \A s \in Requests : request[s].era <= user.v /\ request[s].era \in Nat
    BY DEF IInv, HandlerOK, TypeOK, Request
  <2>2. \A s \in Requests : request'[s].era <= user'.v /\ request'[s].seen.v <= user'.v
    BY <1>1, <1>2, <1>3, <1>5, <2>1 DEF Kept
  <2>. QED
    BY <1>1, <1>3, <2>2 DEF IInv, HandlerOK, Kept, At, Is
<1>8. /\ r # NoRequest
      /\ user.secret \in Requests /\ request[user.secret].kind = "setup"
      /\ request[user.secret].saved
      /\ \A s \in Requests : request[s].proof.c # Totp =>
           /\ request[s].proof.of \in Requests
           /\ request[request[s].proof.of].kind = "enable"
           /\ request[request[s].proof.of].saved
  BY <1>1, TwoFactorAssumption DEF IInv, SourcesOK, Saved, Is
<1>9. SourcesOK'
  BY <1>1, <1>2, <1>3, <1>8 DEF SourcesOK, Saved, Kept, Is
<1>10. SeenOK'
  <2>1. ASSUME NEW s \in Requests, request'[s].pc = "save"
        PROVE  /\ request'[s].kind = "challenge" => request'[s].proof.c # Totp
               /\ request'[s].kind \in {"setup", "enable"} => request'[s].proof.c = Totp
               /\ request'[s].kind = "disable" => request'[s].seen.enabled
    <3>1. At(s, "save") /\ request'[s] = request[s]
      BY <2>1, <1>3 DEF At
    <3>. QED
      BY <3>1 DEF IInv, SeenOK, Is
  <2>. QED
    BY <2>1, <1>6 DEF SeenOK, At, Is
<1>11. UsedOK' /\ UsingOK'
  <2>1. \A s \in Requests : request[s].proof.c # Totp => request[s].proof.of # r
    BY <1>3, <1>8
  <2>2. UsedOK'
    BY <1>2, <1>3, <2>1 DEF UsedOK, Kept
  <2>3. UsingOK'
    BY <1>6 DEF UsingOK
  <2>. QED
    BY <2>2, <2>3
<1>12. ASSUME NEW s \in Reading, s # r
       PROVE  EnabledDuring(s)'
  <2>1. r \in Reading /\ s \in Requests
    BY <1>1 DEF Reading
  <2>2. Overlap(r, s)'
    BY <2>1, <1>3, <1>12 DEF IInv, ReadersOverlap
  <2>. QED
    BY <2>2, <1>1, <1>3 DEF EnabledDuring, Kept, Is
<1>13. SetupsOK'
  <2>1. ASSUME NEW s \in Requests, request'[s].pc = "save"
        PROVE  s # r /\ s \in Reading
    BY <2>1, <1>3 DEF Reading, At
  <2>. QED
    BY <2>1, <1>12 DEF SetupsOK, At
<1>14. EnrolmentIsWhole'
  BY <1>1, <1>2, <1>8 DEF EnrolmentIsWhole
<1>15. DoubleUseNeedsOverlap'
  BY <1>1, <1>3 DEF IInv, DoubleUseNeedsOverlap, Kept
<1>16. UnprovenSecretNeedsOverlap'
  <2>1. request'[r].proof.of # user'.secret =>
          Is(r, "enable")' /\ request'[r].saved /\ Overlap(r, user.secret)'
    <3>1. request'[r].proof.of = request[r].proof.of /\ request'[r].kind = "enable"
      BY <1>1, <1>3 DEF Kept, Is
    <3>2. Overlap(r, user.secret) => (r \in request'[user.secret].beside
                                        \/ user.secret \in request'[r].beside)
      BY <1>3, <1>8 DEF Overlap, Kept
    <3>. QED
      BY <3>1, <3>2, <1>1, <1>2, <1>3 DEF Overlap, Is
  <2>. QED
    BY <2>1, <1>2 DEF UnprovenSecretNeedsOverlap, Overlap
<1>17. OneFactorNeedsOverlap'
  <2>1. ASSUME NEW s \in Requests, request'[s].pc = "issue", request'[s].kind = "login"
        PROVE  EnabledDuring(s)'
    <3>1. s # r /\ s \in Reading
      BY <2>1, <1>3 DEF IInv, HandlerOK, Reading, At, Is
    <3>. QED
      BY <3>1, <1>12
  <2>. QED
    BY <2>1 DEF OneFactorNeedsOverlap, EnabledDuring, At, Is
<1>18. DisableEndsSessions'
  BY <1>1, <1>3 DEF IInv, DisableEndsSessions, Kept, At, Is
<1>. QED
  BY <1>3, <1>4, <1>7, <1>9, <1>10, <1>11, <1>13, <1>14, <1>15, <1>16, <1>17, <1>18 DEF IInv

(* A save under the check of __v by a request that presents a recovery code. *)
LEMMA CodeUsed ==
    ASSUME IInv, NEW r \in Requests, At(r, "save"), Current(r), Kept,
           \A s \in Requests : s # r => request'[s] = request[s]
    PROVE  DoubleUseNeedsOverlap'
<1>1. \A s, t \in Requests : Overlap(s, t)' <=> Overlap(s, t)
  BY DEF Kept, Overlap
<1>2. ASSUME NEW s \in Requests, s # r, request'[s].saved,
             request'[r].proof.c # Totp, request'[s].proof = request'[r].proof
      PROVE  Overlap(r, s)
  BY <1>2 DEF IInv, UsingOK, Kept
<1>3. ASSUME NEW s \in Requests, NEW t \in Requests, s # t,
             request'[s].saved, request'[s].proof.c # Totp,
             request'[t].saved, request'[t].proof = request'[s].proof
      PROVE  Overlap(s, t)
  <2>1. CASE s = r
    BY <1>2, <1>3, <2>1
  <2>2. CASE t = r
    <3>1. Overlap(r, s)
      BY <1>2, <1>3, <2>2
    <3>. QED
      BY <3>1, <2>2 DEF Overlap
  <2>3. CASE s # r /\ t # r
    BY <1>3, <2>3 DEF IInv, DoubleUseNeedsOverlap
  <2>. QED
    BY <2>1, <2>2, <2>3
<1>. QED
  BY <1>1, <1>3 DEF DoubleUseNeedsOverlap

LEMMA SaveDisabledInv == ASSUME IInv, NEW r \in Requests, SaveDisabled(r) PROVE IInv'
<1>1. /\ At(r, "save") /\ Is(r, "disable") /\ user.v \in Nat /\ user.v + 1 \in Nat
      /\ Current(r)
  BY DEF SaveDisabled, IInv, TypeOK, User
<1>2. /\ user' \in User /\ user'.secret = NoRequest /\ ~user'.enabled
      /\ user'.gen = NoRequest /\ user'.spent = {} /\ user'.v = user.v + 1
  BY <1>1 DEF User, SaveDisabled
<1>3. /\ request' \in [Requests -> Request] /\ Kept
      /\ \A s \in Requests : s # r => request'[s] = request[s]
      /\ request'[r].pc = "sweep" /\ request'[r].era = user.v + 1
      /\ request'[r].session = "none" /\ request'[r].saved /\ ~request[r].saved
      /\ \A s \in Requests : request[s].saved => request'[s].saved
      /\ \A s, t \in Requests : Overlap(s, t)' <=> Overlap(s, t)
      /\ \A s \in Requests : EnabledDuring(s) => EnabledDuring(s)'
      /\ ReadersOverlap'
  BY <1>1, WroteFacts DEF SaveDisabled
<1>4. TypeOK'
  BY <1>2, <1>3 DEF TypeOK
<1>5. \A s \in Requests : request[s].seen.v <= user.v /\ request[s].seen.v \in Nat
  BY DEF IInv, HandlerOK, TypeOK, Request, User
<1>6. \A s \in Requests : ~Current(s)'
  BY <1>1, <1>2, <1>3, <1>5 DEF Kept, Current
<1>7. HandlerOK'
  <2>1. \A s \in Requests : request[s].era <= user.v /\ request[s].era \in Nat
    BY DEF IInv, HandlerOK, TypeOK, Request
  <2>2. \A s \in Requests : request'[s].era <= user'.v /\ request'[s].seen.v <= user'.v
    BY <1>1, <1>2, <1>3, <1>5, <2>1 DEF Kept
  <2>. QED
    BY <1>1, <1>3, <2>2 DEF IInv, HandlerOK, Kept, At, Is
<1>8. \A s \in Requests : request[s].proof.c # Totp =>
        /\ request[s].proof.of \in Requests
        /\ request[request[s].proof.of].kind = "enable"
        /\ request[request[s].proof.of].saved
  BY DEF IInv, SourcesOK, Saved, Is
<1>9. SourcesOK'
  BY <1>2, <1>3, <1>8 DEF SourcesOK, Saved, Kept, Is
<1>10. SeenOK'
  <2>1. ASSUME NEW s \in Requests, request'[s].pc = "save"
        PROVE  /\ request'[s].kind = "challenge" => request'[s].proof.c # Totp
               /\ request'[s].kind \in {"setup", "enable"} => request'[s].proof.c = Totp
               /\ request'[s].kind = "disable" => request'[s].seen.enabled
    <3>1. At(s, "save") /\ request'[s] = request[s]
      BY <2>1, <1>3 DEF At
    <3>. QED
      BY <3>1 DEF IInv, SeenOK, Is
  <2>. QED
    BY <2>1, <1>6 DEF SeenOK, At, Is
<1>11. UsedOK' /\ UsingOK'
  <2>1. \A s \in Requests : request[s].proof.c # Totp => request[s].proof.of # NoRequest
    BY <1>8, TwoFactorAssumption
  <2>2. UsedOK'
    BY <1>2, <1>3, <2>1 DEF UsedOK, Kept
  <2>3. UsingOK'
    BY <1>6 DEF UsingOK
  <2>. QED
    BY <2>2, <2>3
<1>12. SetupsOK' /\ EnrolmentIsWhole' /\ UnprovenSecretNeedsOverlap' /\ OneFactorNeedsOverlap'
  BY <1>2 DEF SetupsOK, EnrolmentIsWhole, UnprovenSecretNeedsOverlap, OneFactorNeedsOverlap
<1>13. DoubleUseNeedsOverlap'
  BY <1>1, <1>3, CodeUsed
<1>14. DisableEndsSessions'
  BY <1>1, <1>3 DEF IInv, DisableEndsSessions, Kept, At, Is
<1>. QED
  BY <1>3, <1>4, <1>7, <1>9, <1>10, <1>11, <1>12, <1>13, <1>14 DEF IInv

LEMMA SaveUsedInv == ASSUME IInv, NEW r \in Requests, SaveUsed(r) PROVE IInv'
<1>1. /\ At(r, "save") /\ Is(r, "challenge") /\ user \in User /\ user.v \in Nat
      /\ Current(r) /\ request[r].proof.c # Totp /\ request[r].proof \in Proofs
      /\ user' = [user EXCEPT !.spent = @ \cup {request[r].proof.c}]
  BY DEF SaveUsed, IInv, TypeOK, User, Request, SeenOK
<1>2. /\ user' \in User /\ user'.secret = user.secret /\ (user'.enabled = user.enabled)
      /\ user'.gen = user.gen /\ user'.v = user.v
      /\ user'.spent = user.spent \cup {request[r].proof.c}
  <2>1. request[r].proof.c \in Codes
    BY <1>1 DEF Proofs
  <2>. QED
    BY <1>1, <2>1 DEF User
<1>3. /\ request' \in [Requests -> Request] /\ Kept
      /\ \A s \in Requests : s # r => request'[s] = request[s]
      /\ request'[r].pc = "issue" /\ request'[r].era = user.v
      /\ request'[r].session = "none" /\ request'[r].saved /\ ~request[r].saved
      /\ \A s \in Requests : request[s].saved => request'[s].saved
      /\ \A s, t \in Requests : Overlap(s, t)' <=> Overlap(s, t)
      /\ \A s \in Requests : EnabledDuring(s) => EnabledDuring(s)'
      /\ ReadersOverlap'
  BY <1>1, WroteFacts DEF SaveUsed
<1>4. TypeOK'
  BY <1>2, <1>3 DEF TypeOK
<1>5. HandlerOK'
  BY <1>1, <1>2, <1>3 DEF IInv, HandlerOK, Kept, At, Is
<1>6. SourcesOK'
  BY <1>1, <1>2, <1>3 DEF IInv, SourcesOK, Saved, Kept, Is
<1>7. SeenOK'
  <2>1. ASSUME NEW s \in Requests, request'[s].pc = "save"
        PROVE  /\ request'[s].kind = "challenge" => request'[s].proof.c # Totp
               /\ request'[s].kind \in {"setup", "enable"} => request'[s].proof.c = Totp
               /\ (request'[s].kind # "setup" /\ Current(s))
                    => request'[s].seen.enabled = user.enabled
               /\ request'[s].kind = "disable" => request'[s].seen.enabled
               /\ (request'[s].proof.c # Totp /\ Current(s))
                    => user.gen = request'[s].proof.of
               /\ (request'[s].kind = "enable" /\ Current(s)) =>
                    /\ user.secret # NoRequest
                    /\ request'[s].proof.of = user.secret \/ Overlap(s, user.secret)
    <3>1. At(s, "save") /\ request'[s] = request[s]
      BY <2>1, <1>3 DEF At
    <3>. QED
      BY <3>1 DEF IInv, SeenOK, Is
  <2>2. \A s \in Requests : Current(s)' <=> Current(s)
    BY <1>2, <1>3 DEF Kept, Current
  <2>3. ASSUME NEW s \in Requests, user.secret # NoRequest, Overlap(s, user.secret)
        PROVE  s \in request'[user'.secret].beside \/ user'.secret \in request'[s].beside
    <3>1. user.secret \in Requests
      BY <2>3 DEF IInv, SourcesOK, Saved
    <3>. QED
      BY <3>1, <2>3, <1>2, <1>3 DEF Overlap, Kept
  <2>. QED
    BY <2>1, <2>2, <2>3, <1>2 DEF SeenOK, At, Is, Overlap
<1>8. UsedOK'
  BY <1>1, <1>2, <1>3 DEF IInv, UsedOK, Kept
<1>9. UsingOK'
  <2>1. ASSUME NEW s \in Requests, request'[s].pc = "save"
        PROVE  /\ s # r /\ At(s, "save") /\ Overlap(s, r)' /\ (Current(s)' => Current(s))
    <3>1. s # r /\ At(s, "save") /\ (Current(s)' => Current(s))
      BY <2>1, <1>2, <1>3 DEF At, Current, Kept
    <3>2. s \in Reading /\ r \in Reading
      BY <3>1, <1>1 DEF Reading
    <3>. QED
      BY <3>1, <3>2, <1>3 DEF IInv, ReadersOverlap
  <2>2. ASSUME NEW s \in Requests, NEW t \in Requests, request'[s].pc = "save",
               request'[s].proof.c # Totp, Current(s)',
               request'[t].saved, request'[t].proof = request'[s].proof
        PROVE  Overlap(s, t)'
    <3>1. CASE t = r
      BY <3>1, <2>1, <2>2
    <3>2. CASE t # r
      BY <3>2, <2>1, <2>2, <1>3 DEF IInv, UsingOK, Kept
    <3>. QED
      BY <3>1, <3>2
  <2>. QED
    BY <2>2 DEF UsingOK, At
<1>10. SetupsOK'
  BY <1>2, <1>3 DEF IInv, SetupsOK, Kept, At, Is
<1>11. EnrolmentIsWhole'
  BY <1>2 DEF IInv, EnrolmentIsWhole
<1>12. DoubleUseNeedsOverlap'
  BY <1>1, <1>3, CodeUsed
<1>13. UnprovenSecretNeedsOverlap'
  <2> SUFFICES ASSUME user'.enabled, request'[user'.gen].proof.of # user'.secret
               PROVE  EnabledDuring(user.secret)'
    BY <1>2 DEF UnprovenSecretNeedsOverlap, EnabledDuring, Overlap, Is
  <2>1. user.gen \in Requests /\ user.secret \in Requests
    BY <1>2 DEF IInv, EnrolmentIsWhole, SourcesOK, Saved
  <2>2. EnabledDuring(user.secret)
    BY <2>1, <1>2, <1>3 DEF IInv, UnprovenSecretNeedsOverlap, EnabledDuring, Kept
  <2>. QED
    BY <2>1, <2>2, <1>2, <1>3
<1>14. OneFactorNeedsOverlap'
  <2>1. ASSUME NEW s \in Requests, request'[s].pc = "issue", request'[s].kind = "login",
               user'.enabled
        PROVE  EnabledDuring(s)'
    <3>1. EnabledDuring(s)
      BY <2>1, <1>1, <1>2, <1>3 DEF IInv, OneFactorNeedsOverlap, EnabledDuring, Kept, At, Is
    <3>. QED
      BY <3>1, <1>3
  <2>. QED
    BY <2>1 DEF OneFactorNeedsOverlap, EnabledDuring, At, Is
<1>15. DisableEndsSessions'
  BY <1>1, <1>3 DEF IInv, DisableEndsSessions, Kept, At, Is
<1>. QED
  BY <1>3, <1>4, <1>5, <1>6, <1>7, <1>8, <1>9, <1>10, <1>11, <1>12, <1>13, <1>14, <1>15
  DEF IInv

-----------------------------------------------------------------------------
LEMMA StepInv == IInv /\ [Next]_vars => IInv'
<1> SUFFICES ASSUME IInv, [Next]_vars PROVE IInv'
  OBVIOUS
<1>1. CASE UNCHANGED vars
  <2>1. user' = user /\ request' = request
    BY <1>1 DEF vars
  <2>2. request' \in [Requests -> Request] /\ Kept /\ Ends
    BY <2>1 DEF Kept, Ends, IInv, TypeOK
  <2>3. HandlerOK' /\ DisableEndsSessions'
    BY <2>1 DEF IInv, HandlerOK, DisableEndsSessions, At, Is
  <2>. QED
    BY <2>1, <2>2, <2>3, EndsInv
<1>2. CASE Next
  <2>1. NoProof \in Proofs
    BY DEF NoProof, Proofs
  <2>2. ASSUME NEW r \in Requests, Setup(r) PROVE IInv'
    <3>1. Asked("setup", NoProof, "save") /\ Read(r, "setup", NoProof, "save")
      BY <2>2 DEF Setup, Asked
    <3>. QED
      BY <2>1, <3>1, ReadInv
  <2>3. ASSUME NEW r \in Requests, Login(r) PROVE IInv'
    <3>1. Asked("login", NoProof, "issue") /\ Read(r, "login", NoProof, "issue")
      BY <2>3 DEF Login, Asked
    <3>. QED
      BY <2>1, <3>1, ReadInv
  <2>4. ASSUME NEW r \in Requests, NEW p \in Proofs, Enable(r, p) PROVE IInv'
    <3>1. Asked("enable", p, "save") /\ Read(r, "enable", p, "save")
      BY <2>4 DEF Enable, Asked
    <3>. QED
      BY <3>1, ReadInv
  <2>5. ASSUME NEW r \in Requests, NEW p \in Proofs, Disable(r, p) PROVE IInv'
    <3>1. Asked("disable", p, "save") /\ Read(r, "disable", p, "save")
      BY <2>5 DEF Disable, Asked
    <3>. QED
      BY <3>1, ReadInv
  <2>6. ASSUME NEW r \in Requests, NEW p \in Proofs, Challenge(r, p) PROVE IInv'
    <3> DEFINE next == IF p.c = Totp THEN "issue" ELSE "save"
    <3>1. Asked("challenge", p, next) /\ Read(r, "challenge", p, next)
      BY <2>6 DEF Challenge, Asked
    <3> HIDE DEF next
    <3>. QED
      BY <3>1, ReadInv
  <2>. QED
    BY <1>2, <2>2, <2>3, <2>4, <2>5, <2>6, SaveSecretInv, SaveEnabledInv,
       SaveDisabledInv, SaveUsedInv, VersionErrorInv, IssueInv, SweepInv, FailInv
    DEF Next
<1>. QED
  BY <1>1, <1>2

THEOREM Invariance == Spec => []IInv
BY InitInv, StepInv, PTL DEF Spec

(* The document and the handlers' records keep their shape. *)
THEOREM TypeCorrect == Spec => []TypeOK
<1>1. IInv => TypeOK
  BY DEF IInv
<1>. QED
  BY <1>1, Invariance, PTL

(* 2FA is on exactly when there are recovery codes, and then there is a      *)
(* secret, whatever setups, enables and disables race; a disable2fa that has *)
(* answered left no session from before its save.                            *)
THEOREM EnrolmentIsSafe == Spec => []EnrolmentSafety
<1>1. IInv => EnrolmentIsWhole /\ DisableEndsSessions
  BY DEF IInv
<1>. QED
  BY <1>1, Invariance, PTL DEF EnrolmentSafety

(* What the docs promise without condition, under the one condition the code *)
(* needs: that no two handlers overlapped between their read and their save. *)
THEOREM RacesNeedOverlap == Spec => []RaceSafety
<1>1. IInv => DoubleUseNeedsOverlap /\ UnprovenSecretNeedsOverlap
               /\ OneFactorNeedsOverlap
  BY DEF IInv
<1>. QED
  BY <1>1, Invariance, PTL DEF RaceSafety

(* No step takes a mark from an array of codes that stays. *)
THEOREM MarksStay == Spec => SpentStaysSpent
<1>1. IInv /\ [Next]_vars => [user'.gen = user.gen => user.spent \subseteq user'.spent]_vars
  <2> SUFFICES ASSUME IInv, Next, user'.gen = user.gen
               PROVE  user.spent \subseteq user'.spent
    BY DEF vars
  <2>1. user \in User
    BY DEF IInv, TypeOK
  <2>2. UNCHANGED user => user.spent \subseteq user'.spent
    OBVIOUS
  <2>3. ASSUME NEW r \in Requests, SaveSecret(r)
        PROVE  user.spent \subseteq user'.spent
    BY <2>1, <2>3 DEF SaveSecret, User
  <2>4. ASSUME NEW r \in Requests, SaveEnabled(r) PROVE FALSE
    <3>1. user'.gen = r
      BY <2>1, <2>4 DEF SaveEnabled, User
    <3>2. ~request[r].saved /\ (user.gen # NoRequest => request[user.gen].saved)
      BY <2>4 DEF SaveEnabled, IInv, HandlerOK, SourcesOK, Saved, At
    <3>. QED
      BY <3>1, <3>2, TwoFactorAssumption
  <2>5. ASSUME NEW r \in Requests, SaveDisabled(r) PROVE FALSE
    <3>1. user'.gen = NoRequest
      BY <2>5 DEF SaveDisabled
    <3>2. request[r].seen.enabled /\ (request[r].seen.enabled = user.enabled)
      BY <2>5 DEF SaveDisabled, IInv, SeenOK, Is
    <3>3. user.gen # NoRequest
      BY <3>2 DEF IInv, EnrolmentIsWhole
    <3>. QED
      BY <3>1, <3>3
  <2>6. ASSUME NEW r \in Requests, SaveUsed(r)
        PROVE  user.spent \subseteq user'.spent
    BY <2>1, <2>6 DEF SaveUsed, User
  <2>7. ASSUME NEW r \in Requests, NEW p \in Proofs,
               \/ Setup(r) \/ Login(r) \/ Enable(r, p) \/ Disable(r, p) \/ Challenge(r, p)
        PROVE  UNCHANGED user
    BY <2>7 DEF Setup, Login, Enable, Disable, Challenge, Read
  <2>8. ASSUME NEW r \in Requests,
               VersionError(r) \/ Issue(r) \/ Sweep(r) \/ Fail(r)
        PROVE  UNCHANGED user
    BY <2>8 DEF VersionError, Issue, Sweep, Fail
  <2>9. NoProof \in Proofs
    BY DEF NoProof, Proofs
  <2>. QED
    BY <2>2, <2>3, <2>4, <2>5, <2>6, <2>7, <2>8, <2>9 DEF Next
<1>. QED
  BY <1>1, Invariance, PTL DEF Spec, SpentStaysSpent
=============================================================================
