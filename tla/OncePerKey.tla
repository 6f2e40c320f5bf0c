----------------------------- MODULE OncePerKey -----------------------------
(* What Idempotency-Key promises to a client that repeats a request: of the  *)
(* attempts that carry one key, one at a time holds the key, only a holder   *)
(* works, and an attempt that is not the holder is told the finished result  *)
(* of the one that is, or is turned away.                                    *)
EXTENDS Naturals

CONSTANTS Attempts, Keys, NoKey, NoAttempt, MaxRows

VARIABLES
    ask,      \* what an attempt asks for: a key and a number of rows to insert
    holder,   \* the attempt a key is held by
    held,     \* the attempts that have held their key
    made,     \* rows an attempt has inserted
    answer    \* what it was told

avars == <<ask, holder, held, made, answer>>

NotAsked == [key |-> NoKey, n |-> 0]
Nothing  == [kind |-> "none", of |-> NoAttempt, n |-> 0]

AInit ==
    /\ ask = [a \in Attempts |-> NotAsked]
    /\ holder = [k \in Keys |-> NoAttempt]
    /\ held = {}
    /\ made = [a \in Attempts |-> 0]
    /\ answer = [a \in Attempts |-> Nothing]

MayWork(a) == a \in held \/ ask[a].key = NoKey

Ask(a, k, n) ==
    /\ ask[a] = NotAsked
    /\ ask' = [ask EXCEPT ![a] = [key |-> k, n |-> n]]
    /\ UNCHANGED <<holder, held, made, answer>>

Hold(a, k) ==
    /\ ask[a].key = k /\ holder[k] = NoAttempt /\ a \notin held
    /\ answer[a] = Nothing
    /\ holder' = [holder EXCEPT ![k] = a]
    /\ held' = held \cup {a}
    /\ UNCHANGED <<ask, made, answer>>

Work(a) ==
    /\ MayWork(a) /\ answer[a] = Nothing /\ made[a] < ask[a].n
    /\ made' = [made EXCEPT ![a] = @ + 1]
    /\ UNCHANGED <<ask, holder, held, answer>>

Tell(a, kind, of, n) ==
    /\ answer[a] = Nothing
    /\ answer' = [answer EXCEPT ![a] = [kind |-> kind, of |-> of, n |-> n]]
    /\ UNCHANGED <<ask, holder, held, made>>

(* An attempt's own result is told when its work is complete, another's only *)
(* while that one holds the key and has completed.                           *)
TellOwn(a)    == MayWork(a) /\ made[a] = ask[a].n /\ Tell(a, "own", a, made[a])
TellReplay(a, k) ==
    LET b == holder[k] IN
    /\ ask[a].key = k /\ a \notin held
    /\ b \in Attempts /\ made[b] = ask[b].n
    /\ Tell(a, "replay", b, made[b])
TellConflict(a) == a \notin held /\ ask[a].key # NoKey /\ Tell(a, "conflict", NoAttempt, 0)
TellError(a)    == Tell(a, "error", NoAttempt, 0)

Forget(k) ==
    /\ holder' = [holder EXCEPT ![k] = NoAttempt]
    /\ UNCHANGED <<ask, held, made, answer>>

ANext ==
    \/ \E a \in Attempts :
         \/ \E k \in Keys \cup {NoKey}, n \in 0..MaxRows : Ask(a, k, n)
         \/ \E k \in Keys : Hold(a, k) \/ TellReplay(a, k)
         \/ Work(a) \/ TellOwn(a) \/ TellConflict(a) \/ TellError(a)
    \/ \E k \in Keys : Forget(k)

ASpec == AInit /\ [][ANext]_avars
=============================================================================
