-------------------------- MODULE Requests_proofs ---------------------------
(* Proofs about what one request for tasks gets.  The first part is about    *)
(* Idempotency: typing, the inductive invariant behind its safety            *)
(* properties, and the refinement of OncePerKey, for any number of attempts, *)
(* keys, rows and failures.  The second is about Formats: the lists, page by *)
(* page, for any tasks and queries and any number of changes; due dates, for *)
(* every date; a feed, folded and read back, for any texts; and the import,  *)
(* of any texts and of the export of any tasks.                              *)
EXTENDS Idempotency, Formats, FiniteSetTheorems, SequenceTheorems, TLAPS

-----------------------------------------------------------------------------
(* The step a handler makes when it answers. *)
LEMMA RespondEffect ==
    ASSUME TypeOK, NEW a \in Attempts,
           NEW kind \in {"own", "replay", "conflict", "error"},
           NEW of \in Attempts \cup {NoAttempt}, NEW n \in Nat,
           Respond(a, kind, of, n)
    PROVE  /\ attempt' \in [Attempts -> Attempt]
           /\ attempt'[a].pc = "done" /\ attempt'[a].key = attempt[a].key
           /\ attempt'[a].n = attempt[a].n /\ attempt'[a].age = attempt[a].age
           /\ (attempt'[a].held = attempt[a].held)
           /\ attempt'[a].answer = [kind |-> kind, of |-> of, n |-> n]
           /\ \A b \in Attempts : b # a => attempt'[b] = attempt[b]
<1> DEFINE d(m) == [m EXCEPT !.pc = "done",
                             !.answer = [kind |-> kind, of |-> of, n |-> n]]
<1>1. [kind |-> kind, of |-> of, n |-> n] \in Answers
  BY DEF Answers
<1>2. ASSUME NEW m \in Attempt
      PROVE  /\ d(m) \in Attempt /\ d(m).pc = "done" /\ d(m).key = m.key
             /\ d(m).n = m.n /\ d(m).age = m.age /\ (d(m).held = m.held)
             /\ d(m).answer = [kind |-> kind, of |-> of, n |-> n]
  BY <1>1 DEF Attempt
<1>3. attempt[a] \in Attempt
  BY DEF TypeOK
<1>4. attempt' = [attempt EXCEPT ![a] = d(attempt[a])]
  BY DEF Respond
<1> HIDE DEF d
<1>. QED
  BY <1>2, <1>3, <1>4 DEF TypeOK

LEMMA ArriveEffect ==
    ASSUME TypeOK, NEW a \in Attempts, NEW k \in Keys \cup {NoKey}, NEW n \in Nat,
           Arrive(a, k, n)
    PROVE  /\ attempt' \in [Attempts -> Attempt]
           /\ attempt'[a].pc = IF k = NoKey THEN "work" ELSE "reserve"
           /\ attempt'[a].key = k /\ attempt'[a].n = n
           /\ (attempt'[a].held = attempt[a].held)
           /\ attempt'[a].age = attempt[a].age
           /\ attempt'[a].answer = attempt[a].answer
           /\ \A b \in Attempts : b # a => attempt'[b] = attempt[b]
<1> DEFINE first == IF k = NoKey THEN "work" ELSE "reserve"
           d(m) == [m EXCEPT !.pc = first, !.key = k, !.n = n]
<1>1. first \in {"work", "reserve"}
  OBVIOUS
<1>2. attempt' = [attempt EXCEPT ![a] = d(attempt[a])]
  BY DEF Arrive
<1>3. ASSUME NEW m \in Attempt
      PROVE  /\ d(m) \in Attempt /\ d(m).pc = first /\ d(m).key = k
             /\ d(m).n = n /\ d(m).age = m.age /\ (d(m).held = m.held)
             /\ d(m).answer = m.answer
  <2> HIDE DEF first
  <2>. QED
    BY <1>1 DEF Attempt
<1>4. attempt[a] \in Attempt
  BY DEF TypeOK
<1> HIDE DEF d
<1>. QED
  BY <1>2, <1>3, <1>4 DEF TypeOK

LEMMA ReserveEffect ==
    ASSUME TypeOK, NEW a \in Attempts, Key(a) \in Keys, Reserve(a)
    PROVE  LET k == Key(a) IN
           /\ attempt' \in [Attempts -> Attempt] /\ record' \in [Keys -> Record]
           /\ attempt'[a].pc = "work" /\ attempt'[a].key = k
           /\ attempt'[a].n = attempt[a].n /\ attempt'[a].held
           /\ attempt'[a].age = record[k].age
           /\ attempt'[a].answer = attempt[a].answer
           /\ \A b \in Attempts : b # a => attempt'[b] = attempt[b]
           /\ record'[k].st = "reserved" /\ record'[k].by = a
           /\ record'[k].age = record[k].age
           /\ \A j \in Keys : j # k => record'[j] = record[j]
<1> DEFINE d(m, g) == [m EXCEPT !.pc = "work", !.held = TRUE, !.age = g]
           e(r) == [r EXCEPT !.st = "reserved", !.by = a]
<1>1. ASSUME NEW m \in Attempt, NEW g \in Nat
      PROVE  /\ d(m, g) \in Attempt /\ d(m, g).pc = "work" /\ d(m, g).key = m.key
             /\ d(m, g).n = m.n /\ d(m, g).age = g /\ d(m, g).held
             /\ d(m, g).answer = m.answer
  BY DEF Attempt
<1>2. ASSUME NEW r \in Record
      PROVE  e(r) \in Record /\ e(r).st = "reserved" /\ e(r).by = a /\ e(r).age = r.age
  BY DEF Record
<1>3. attempt[a] \in Attempt /\ record[Key(a)] \in Record /\ record[Key(a)].age \in Nat
  BY DEF TypeOK, Record
<1>4. /\ attempt' = [attempt EXCEPT ![a] = d(attempt[a], record[Key(a)].age)]
      /\ record' = [record EXCEPT ![Key(a)] = e(record[Key(a)])]
  BY DEF Reserve
<1> HIDE DEF d, e
<1>. QED
  BY <1>1, <1>2, <1>3, <1>4 DEF TypeOK, Key

LEMMA GotoEffect ==
    ASSUME TypeOK, NEW a \in Attempts, Goto(a, "lookup")
    PROVE  /\ attempt' \in [Attempts -> Attempt]
           /\ attempt'[a].pc = "lookup" /\ attempt'[a].key = attempt[a].key
           /\ attempt'[a].n = attempt[a].n /\ attempt'[a].age = attempt[a].age
           /\ (attempt'[a].held = attempt[a].held)
           /\ attempt'[a].answer = attempt[a].answer
           /\ \A b \in Attempts : b # a => attempt'[b] = attempt[b]
<1>1. attempt' = [attempt EXCEPT ![a] = [attempt[a] EXCEPT !.pc = "lookup"]]
  BY DEF Goto
<1>2. ASSUME NEW m \in Attempt
      PROVE  LET d == [m EXCEPT !.pc = "lookup"] IN
             /\ d \in Attempt /\ d.pc = "lookup" /\ d.key = m.key /\ d.n = m.n
             /\ d.age = m.age /\ (d.held = m.held) /\ d.answer = m.answer
  BY DEF Attempt
<1>3. attempt[a] \in Attempt
  BY DEF TypeOK
<1>. QED
  BY <1>1, <1>2, <1>3 DEF TypeOK

LEMMA StoreEffect ==
    ASSUME TypeOK, NEW k \in Keys, NEW n \in Nat,
           record' = [record EXCEPT ![k].st = "stored", ![k].body = n]
    PROVE  /\ record' \in [Keys -> Record]
           /\ record'[k].st = "stored" /\ record'[k].body = n
           /\ record'[k].by = record[k].by /\ record'[k].age = record[k].age
           /\ \A j \in Keys : j # k => record'[j] = record[j]
<1>1. record' = [record EXCEPT ![k] = [record[k] EXCEPT !.st = "stored", !.body = n]]
  OBVIOUS
<1>2. ASSUME NEW r \in Record
      PROVE  LET e == [r EXCEPT !.st = "stored", !.body = n] IN
             e \in Record /\ e.st = "stored" /\ e.body = n /\ e.by = r.by /\ e.age = r.age
  BY DEF Record
<1>3. record[k] \in Record
  BY DEF TypeOK
<1>. QED
  BY <1>1, <1>2, <1>3 DEF TypeOK

-----------------------------------------------------------------------------
(* The inductive invariant.  Where an attempt stands ... *)
StandsOK(a) ==
    /\ attempt[a].pc = "new" =>
         Key(a) = NoKey /\ attempt[a].n = 0 /\ inserted[a] = 0
    /\ attempt[a].pc \in {"reserve", "lookup"} => Key(a) \in Keys
    /\ attempt[a].held => Key(a) \in Keys /\ attempt[a].pc \in {"work", "done"}
    /\ attempt[a].pc = "work" => attempt[a].held \/ Key(a) = NoKey
    /\ inserted[a] > 0 => attempt[a].held \/ Key(a) = NoKey
    /\ attempt[a].pc # "done" => attempt[a].answer = NoAnswer

(* ... what a record says of the attempt that stored it ...                  *)
RecordOK(k) ==
    /\ record[k].st = "none" <=> record[k].by = NoAttempt
    /\ record[k].by \in Attempts =>
         LET a == record[k].by IN
         /\ attempt[a].held /\ Key(a) = k /\ attempt[a].age = record[k].age
         /\ record[k].st = "stored" =>
              /\ record[k].body = inserted[a] /\ inserted[a] = attempt[a].n
              /\ attempt[a].pc = "done"
         /\ attempt[a].answer.kind = "own" => record[k].st = "stored"

(* ... and that a key changes hands by the TTL index alone.                  *)
HandsOK ==
    /\ \A a \in Attempts, k \in Keys :
         attempt[a].held /\ Key(a) = k =>
            \/ record[k].by = a
            \/ attempt[a].age < record[k].age
    /\ \A a, b \in Attempts :
         (a # b /\ attempt[a].held /\ attempt[b].held /\ Key(a) = Key(b))
            => attempt[a].age # attempt[b].age

ReplayOK(a) ==
    attempt[a].answer.kind = "replay" =>
        LET b == attempt[a].answer.of IN
        /\ b \in Attempts /\ b # a /\ Key(b) = Key(a) /\ attempt[b].pc = "done"
        /\ attempt[a].answer.n = inserted[b] /\ inserted[b] = attempt[b].n

IInv ==
    /\ TypeOK
    /\ \A a \in Attempts : StandsOK(a)
    /\ \A k \in Keys : RecordOK(k)
    /\ HandsOK
    /\ \A a \in Attempts : ReplayOK(a)

LEMMA InvImplies ==
    IInv => AtMostOncePerRecord /\ ReplayIsOriginal /\ SuccessIsReplayable
<1> SUFFICES ASSUME IInv
             PROVE  AtMostOncePerRecord /\ ReplayIsOriginal /\ SuccessIsReplayable
  OBVIOUS
<1>1. AtMostOncePerRecord
  BY DEF IInv, StandsOK, HandsOK, AtMostOncePerRecord
<1>2. ReplayIsOriginal
  BY DEF IInv, ReplayOK, ReplayIsOriginal
<1>3. SuccessIsReplayable
  BY DEF IInv, RecordOK, SuccessIsReplayable
<1>. QED
  BY <1>1, <1>2, <1>3

LEMMA InitInv == Init => IInv
<1> SUFFICES ASSUME Init PROVE IInv
  OBVIOUS
<1>1. TypeOK
  BY IdempotencyAssumption
     DEF Init, TypeOK, Attempt, Record, Answers, NoAnswer
<1>2. \A a \in Attempts : StandsOK(a) /\ ReplayOK(a) /\ ~attempt[a].held
  BY IdempotencyAssumption DEF Init, StandsOK, ReplayOK, NoAnswer, Key
<1>3. \A k \in Keys : RecordOK(k)
  BY IdempotencyAssumption DEF Init, RecordOK
<1>. QED
  BY <1>1, <1>2, <1>3 DEF IInv, HandsOK

-----------------------------------------------------------------------------
(* An answer that is not a replay, or that is one of a finished holder.      *)
LEMMA RespondInv ==
    ASSUME IInv, NEW a \in Attempts,
           attempt[a].pc # "done", attempt[a].pc # "new",
           NEW kind \in {"own", "replay", "conflict", "error"},
           NEW of \in Attempts \cup {NoAttempt}, NEW n \in Nat,
           Respond(a, kind, of, n),
           record' = record \/ (/\ kind = "own" /\ Key(a) \in Keys
                                /\ record[Key(a)].by = a
                                /\ inserted[a] = attempt[a].n
                                /\ record' = [record EXCEPT ![Key(a)].st = "stored",
                                                            ![Key(a)].body = inserted[a]]),
           kind = "own" /\ Key(a) \in Keys => record'[Key(a)].st = "stored",
           kind = "replay" => /\ Key(a) \in Keys /\ record[Key(a)].st = "stored"
                              /\ of = record[Key(a)].by /\ n = record[Key(a)].body,
           UNCHANGED inserted, failures' \in Nat
    PROVE  IInv'
<1>1. /\ attempt' \in [Attempts -> Attempt]
      /\ attempt'[a].pc = "done" /\ attempt'[a].key = attempt[a].key
      /\ attempt'[a].n = attempt[a].n /\ attempt'[a].age = attempt[a].age
      /\ (attempt'[a].held = attempt[a].held)
      /\ attempt'[a].answer = [kind |-> kind, of |-> of, n |-> n]
      /\ \A b \in Attempts : b # a => attempt'[b] = attempt[b]
  BY RespondEffect DEF IInv
<1>2. /\ record' \in [Keys -> Record]
      /\ \A k \in Keys : record'[k].by = record[k].by /\ record'[k].age = record[k].age
      /\ \A k \in Keys :
           \/ record'[k] = record[k]
           \/ /\ k = Key(a) /\ record'[k].st = "stored" /\ record'[k].body = inserted[a]
              /\ record[k].by = a /\ inserted[a] = attempt[a].n
      /\ kind = "own" => \A k \in Keys : record[k].by = a => record'[k].st = "stored"
  <2>1. CASE record' = record
    BY <2>1 DEF IInv, TypeOK, RecordOK
  <2>2. CASE record' # record
    <3>1. inserted[a] \in Nat
      BY DEF IInv, TypeOK
    <3>. QED
      BY <2>2, <3>1, StoreEffect DEF IInv, RecordOK
  <2>. QED
    BY <2>1, <2>2
<1>3. TypeOK'
  BY <1>1, <1>2 DEF IInv, TypeOK
<1>4. \A b \in Attempts : StandsOK(b)'
  BY <1>1 DEF IInv, StandsOK, Key
<1>5. \A k \in Keys : RecordOK(k)'
  <2> SUFFICES ASSUME NEW k \in Keys PROVE RecordOK(k)'
    OBVIOUS
  <2>1. RecordOK(k) /\ NoAttempt \notin Attempts
    BY IdempotencyAssumption DEF IInv
  <2>2. CASE record[k].by = a
    BY <1>1, <1>2, <2>1, <2>2 DEF RecordOK, Key
  <2>3. CASE record[k].by # a
    <3>1. record'[k] = record[k]
      BY <1>2, <2>3
    <3>. QED
      BY <1>1, <2>1, <2>3, <3>1 DEF RecordOK, Key
  <2>. QED
    BY <2>2, <2>3
<1>6. HandsOK'
  BY <1>1, <1>2 DEF IInv, HandsOK, Key
<1>7. \A b \in Attempts : ReplayOK(b)'
  <2> SUFFICES ASSUME NEW b \in Attempts, attempt'[b].answer.kind = "replay"
               PROVE  ReplayOK(b)'
    BY DEF ReplayOK
  <2>1. CASE b = a
    <3>1. kind = "replay" /\ attempt'[a].answer.of = of /\ attempt'[a].answer.n = n
      BY <1>1, <2>1
    <3>2. /\ of \in Attempts /\ attempt[of].pc = "done" /\ Key(of) = Key(a)
          /\ n = inserted[of] /\ inserted[of] = attempt[of].n
      <4>1. record[Key(a)] \in Record /\ RecordOK(Key(a))
        BY <3>1 DEF IInv, TypeOK
      <4>. QED
        BY <3>1, <4>1 DEF RecordOK, Record
    <3>. QED
      BY <1>1, <2>1, <3>1, <3>2 DEF ReplayOK, Key
  <2>2. CASE b # a
    <3>1. attempt'[b] = attempt[b] /\ ReplayOK(b)
      BY <1>1, <2>2 DEF IInv
    <3>. QED
      BY <1>1, <3>1 DEF ReplayOK, Key
  <2>. QED
    BY <2>1, <2>2
<1>. QED
  BY <1>3, <1>4, <1>5, <1>6, <1>7 DEF IInv

LEMMA StepInv == IInv /\ [Next]_vars => IInv'
<1> SUFFICES ASSUME IInv, [Next]_vars PROVE IInv'
  OBVIOUS
<1>a. /\ \A a \in Attempts : attempt[a].key \in Keys \cup {NoKey} /\ inserted[a] \in Nat
                              /\ attempt[a].n \in Nat /\ attempt[a].age \in Nat
                              /\ (attempt[a].held \in BOOLEAN)
      /\ \A k \in Keys : record[k] \in Record /\ record[k].age \in Nat
      /\ failures \in Nat
  BY DEF IInv, TypeOK, Attempt, Record
<1>1. ASSUME NEW a \in Attempts, NEW k \in Keys \cup {NoKey}, NEW n \in 0..MaxRows,
             Arrive(a, k, n)
      PROVE  IInv'
  <2>1. n \in Nat /\ attempt[a].pc = "new" /\ UNCHANGED <<record, inserted, failures>>
    BY <1>1, IdempotencyAssumption DEF Arrive, At
  <2>2. /\ attempt' \in [Attempts -> Attempt]
        /\ attempt'[a].pc = IF k = NoKey THEN "work" ELSE "reserve"
        /\ attempt'[a].key = k /\ attempt'[a].n = n
        /\ (attempt'[a].held = attempt[a].held) /\ attempt'[a].age = attempt[a].age
        /\ attempt'[a].answer = attempt[a].answer
        /\ \A b \in Attempts : b # a => attempt'[b] = attempt[b]
    BY <1>1, <2>1, ArriveEffect DEF IInv
  <2>3. ~attempt[a].held /\ inserted[a] = 0 /\ attempt[a].answer = NoAnswer
    BY <2>1, IdempotencyAssumption DEF IInv, StandsOK
  <2>4. TypeOK'
    BY <2>1, <2>2, <2>3 DEF IInv, TypeOK
  <2>5. \A b \in Attempts : StandsOK(b)'
    BY <2>1, <2>2, <2>3 DEF IInv, StandsOK, Key
  <2>6. \A j \in Keys : RecordOK(j)'
    BY <2>1, <2>2, <2>3 DEF IInv, RecordOK, Key
  <2>7. HandsOK'
    BY <2>1, <2>2, <2>3 DEF IInv, HandsOK, Key
  <2>8. \A b \in Attempts : ReplayOK(b)'
    BY <2>1, <2>2, <2>3 DEF IInv, ReplayOK, Key, NoAnswer
  <2>. QED
    BY <2>4, <2>5, <2>6, <2>7, <2>8 DEF IInv
<1>2. ASSUME NEW a \in Attempts, Reserve(a) PROVE IInv'
  <2> DEFINE k == Key(a)
  <2>1. /\ k \in Keys /\ attempt[a].pc = "reserve" /\ ~attempt[a].held
        /\ record[k].st = "none" /\ record[k].by = NoAttempt
        /\ attempt[a].answer = NoAnswer /\ inserted' = inserted /\ failures' = failures
    BY <1>2 DEF Reserve, At, IInv, StandsOK, RecordOK
  <2>2. /\ attempt' \in [Attempts -> Attempt] /\ record' \in [Keys -> Record]
        /\ attempt'[a].pc = "work" /\ attempt'[a].key = k
        /\ attempt'[a].n = attempt[a].n /\ attempt'[a].held
        /\ attempt'[a].age = record[k].age /\ attempt'[a].answer = attempt[a].answer
        /\ \A b \in Attempts : b # a => attempt'[b] = attempt[b]
        /\ record'[k].st = "reserved" /\ record'[k].by = a
        /\ record'[k].age = record[k].age
        /\ \A j \in Keys : j # k => record'[j] = record[j]
    BY <1>2, <2>1, ReserveEffect DEF IInv
  <2>3. attempt'[a].key = attempt[a].key /\ NoAttempt \notin Attempts
    BY <2>2, IdempotencyAssumption DEF Key
  <2>4. TypeOK'
    BY <2>1, <2>2 DEF IInv, TypeOK
  <2>5. \A b \in Attempts : StandsOK(b)'
    BY <2>1, <2>2 DEF IInv, StandsOK, Key
  <2>6. \A j \in Keys : RecordOK(j)'
    <3> SUFFICES ASSUME NEW j \in Keys PROVE RecordOK(j)'
      OBVIOUS
    <3>1. CASE j = k
      BY <2>1, <2>2, <2>3, <3>1 DEF RecordOK, Key, NoAnswer
    <3>2. CASE j # k
      <4>1. RecordOK(j) /\ record'[j] = record[j]
        BY <2>2, <3>2 DEF IInv
      <4>2. record[j].by # a
        BY <2>1, <4>1 DEF RecordOK
      <4>. QED
        BY <2>1, <2>2, <4>1, <4>2 DEF RecordOK, Key
    <3>. QED
      BY <3>1, <3>2
  <2>7. HandsOK'
    <3>1. \A b \in Attempts : attempt[b].held /\ Key(b) = k => attempt[b].age < record[k].age
      BY <2>1, <2>3 DEF IInv, HandsOK
    <3> HIDE DEF k
    <3>2. \A b \in Attempts, j \in Keys :
            (attempt[b].held /\ Key(b) = j)' =>
               record'[j].by = b \/ attempt'[b].age < record'[j].age
      BY <2>1, <2>2, <3>1 DEF IInv, HandsOK, Key
    <3>3. \A b, c \in Attempts :
            (b # c /\ attempt[b].held /\ attempt[c].held /\ Key(b) = Key(c))'
               => attempt'[b].age # attempt'[c].age
      BY <1>a, <2>1, <2>2, <3>1 DEF IInv, HandsOK, Key
    <3>. QED
      BY <3>2, <3>3 DEF HandsOK
  <2>8. \A b \in Attempts : ReplayOK(b)'
    BY <2>1, <2>2, <2>3 DEF IInv, ReplayOK, Key, NoAnswer
  <2>. QED
    BY <2>4, <2>5, <2>6, <2>7, <2>8 DEF IInv
<1>3. ASSUME NEW a \in Attempts, Duplicate(a) PROVE IInv'
  <2>1. /\ attempt[a].pc = "reserve" /\ UNCHANGED <<record, inserted, failures>>
        /\ Goto(a, "lookup")
    BY <1>3 DEF Duplicate, At
  <2>2. /\ attempt' \in [Attempts -> Attempt]
        /\ attempt'[a].pc = "lookup" /\ attempt'[a].key = attempt[a].key
        /\ attempt'[a].n = attempt[a].n /\ attempt'[a].age = attempt[a].age
        /\ (attempt'[a].held = attempt[a].held)
        /\ attempt'[a].answer = attempt[a].answer
        /\ \A b \in Attempts : b # a => attempt'[b] = attempt[b]
    BY <2>1, GotoEffect DEF IInv
  <2>3. TypeOK' /\ HandsOK'
    BY <2>1, <2>2 DEF IInv, TypeOK, HandsOK, Key
  <2>4. \A b \in Attempts : StandsOK(b)' /\ ReplayOK(b)'
    BY <2>1, <2>2 DEF IInv, StandsOK, ReplayOK, Key
  <2>5. \A j \in Keys : RecordOK(j)'
    BY <2>1, <2>2 DEF IInv, StandsOK, RecordOK, Key
  <2>. QED
    BY <2>3, <2>4, <2>5 DEF IInv
<1>4. ASSUME NEW a \in Attempts, Lookup(a) PROVE IInv'
  <2>1. /\ attempt[a].pc = "lookup" /\ Key(a) \in Keys
        /\ UNCHANGED <<record, inserted, failures>>
    BY <1>4 DEF Lookup, At, IInv, StandsOK
  <2>2. CASE /\ record[Key(a)].st = "stored"
             /\ Respond(a, "replay", record[Key(a)].by, record[Key(a)].body)
    <3>1. record[Key(a)].by \in Attempts \cup {NoAttempt} /\ record[Key(a)].body \in Nat
      BY <1>a, <2>1 DEF Record
    <3>. QED
      BY <1>a, <2>1, <2>2, <3>1, RespondInv
  <2>3. CASE Respond(a, "conflict", NoAttempt, 0)
    BY <1>a, <2>1, <2>3, RespondInv
  <2>. QED
    BY <1>4, <2>2, <2>3 DEF Lookup
<1>5. ASSUME NEW a \in Attempts, Insert(a) PROVE IInv'
  <2>1. /\ attempt[a].pc = "work" /\ attempt' = attempt /\ record' = record
        /\ failures' = failures /\ inserted[a] < attempt[a].n
        /\ inserted' \in [Attempts -> Nat] /\ inserted'[a] = inserted[a] + 1
        /\ \A b \in Attempts : b # a => inserted'[b] = inserted[b]
    BY <1>5 DEF Insert, At, IInv, TypeOK
  <2>2. TypeOK' /\ HandsOK'
    BY <1>a, <2>1 DEF IInv, TypeOK, HandsOK, Key
  <2>3. \A b \in Attempts : StandsOK(b)'
    BY <1>a, <2>1 DEF IInv, StandsOK, Key
  <2>4. \A b \in Attempts : ReplayOK(b)'
    BY <2>1 DEF IInv, ReplayOK, Key
  <2>5. \A j \in Keys : RecordOK(j)'
    BY <2>1 DEF IInv, RecordOK, Key
  <2>. QED
    BY <2>2, <2>3, <2>4, <2>5 DEF IInv
<1>6. ASSUME NEW a \in Attempts, Save(a) PROVE IInv'
  <2>1. /\ attempt[a].pc = "work" /\ Key(a) \in Keys /\ inserted[a] = attempt[a].n
        /\ UNCHANGED <<inserted, failures>>
    BY <1>6, <1>a DEF Save, At, Key
  <2>2. CASE /\ record[Key(a)].by = a /\ Respond(a, "own", a, inserted[a])
             /\ record' = [record EXCEPT ![Key(a)].st = "stored",
                                         ![Key(a)].body = inserted[a]]
    <3>1. record'[Key(a)].st = "stored"
      BY <1>a, <2>1, <2>2, StoreEffect DEF IInv
    <3>. QED
      BY <1>a, <2>1, <2>2, <3>1, RespondInv
  <2>3. CASE Respond(a, "error", NoAttempt, 0) /\ record' = record
    BY <1>a, <2>1, <2>3, RespondInv
  <2>. QED
    BY <1>6, <2>2, <2>3 DEF Save
<1>7. ASSUME NEW a \in Attempts, AnswerUnkeyed(a) PROVE IInv'
  <2>1. /\ attempt[a].pc = "work" /\ Key(a) = NoKey /\ NoKey \notin Keys
        /\ Respond(a, "own", a, inserted[a]) /\ UNCHANGED <<record, inserted, failures>>
    BY <1>7, IdempotencyAssumption DEF AnswerUnkeyed, At
  <2>. QED
    BY <1>a, <2>1, RespondInv
<1>8. ASSUME NEW a \in Attempts, Fail(a) PROVE IInv'
  <2>1. /\ attempt[a].pc \in {"reserve", "lookup", "work"} /\ failures' \in Nat
        /\ Respond(a, "error", NoAttempt, 0) /\ UNCHANGED <<record, inserted>>
    BY <1>8, <1>a DEF Fail
  <2>. QED
    BY <2>1, RespondInv
<1>9. ASSUME NEW k \in Keys, Expire(k) PROVE IInv'
  <2>1. /\ UNCHANGED <<attempt, inserted, failures>>
        /\ record'[k].st = "none" /\ record'[k].by = NoAttempt
        /\ record'[k].age = record[k].age + 1
        /\ \A j \in Keys : j # k => record'[j] = record[j]
        /\ record' \in [Keys -> Record]
    <3>1. [st |-> "none", by |-> NoAttempt, body |-> 0, age |-> record[k].age + 1] \in Record
      BY <1>a DEF Record
    <3>. QED
      BY <1>9, <3>1 DEF Expire, IInv, TypeOK
  <2>2. TypeOK'
    BY <2>1 DEF IInv, TypeOK
  <2>3. \A b \in Attempts : StandsOK(b)' /\ ReplayOK(b)'
    BY <2>1 DEF IInv, StandsOK, ReplayOK, Key
  <2>4. \A j \in Keys : RecordOK(j)'
    BY <2>1, IdempotencyAssumption DEF IInv, RecordOK, Key
  <2>5. HandsOK'
    <3>1. \A a \in Attempts : attempt[a].held /\ Key(a) = k => attempt[a].age <= record[k].age
      BY <1>a DEF IInv, HandsOK, RecordOK
    <3>2. \A a \in Attempts, j \in Keys :
            attempt[a].held /\ Key(a) = j =>
               record'[j].by = a \/ attempt[a].age < record'[j].age
      BY <1>a, <2>1, <3>1 DEF IInv, HandsOK
    <3>. QED
      BY <2>1, <3>2 DEF IInv, HandsOK, Key
  <2>. QED
    BY <2>2, <2>3, <2>4, <2>5 DEF IInv
<1>10. CASE UNCHANGED vars
  BY <1>10 DEF vars, IInv, TypeOK, StandsOK, RecordOK, HandsOK, ReplayOK, Key
<1>. QED
  BY <1>1, <1>2, <1>3, <1>4, <1>5, <1>6, <1>7, <1>8, <1>9, <1>10 DEF Next, Continue

THEOREM Invariance == Spec => []IInv
BY InitInv, StepInv, PTL DEF Spec

(* createTask and importTasks keep the shape of the collection and never     *)
(* insert more rows than were asked for.                                     *)
THEOREM TypeCorrect == Spec => []TypeOK
BY Invariance, PTL DEF IInv

(* The reservation protocol, over any number of concurrent attempts, crashes *)
(* and TTL removals: one key works at most once per record, and what it      *)
(* replays is the finished result of that work.                              *)
THEOREM KeysAreSafe == Spec => []KeySafety
<1>1. IInv => KeySafety
  BY InvImplies DEF KeySafety
<1>. QED
  BY <1>1, Invariance, PTL

-----------------------------------------------------------------------------
(* The refinement: every step of the protocol is a step of OncePerKey or     *)
(* leaves its variables alone.                                               *)
P_ask    == [a \in Attempts |-> [key |-> attempt[a].key, n |-> attempt[a].n]]
P_holder == [k \in Keys |-> record[k].by]
P_held   == {a \in Attempts : attempt[a].held}
P_answer == [a \in Attempts |-> attempt[a].answer]

LEMMA InitRefines == Init => Promise!AInit
BY DEF Init, Promise!AInit, Promise!NotAsked, Promise!Nothing, NoAnswer

(* Answering changes the mapped answer and nothing else. *)
LEMMA RespondRefines ==
    ASSUME IInv, NEW a \in Attempts, attempt[a].pc # "done",
           NEW kind \in {"own", "replay", "conflict", "error"},
           NEW of \in Attempts \cup {NoAttempt}, NEW n \in Nat,
           Respond(a, kind, of, n), UNCHANGED inserted,
           \A k \in Keys : record'[k].by = record[k].by
    PROVE  Promise!Tell(a, kind, of, n)
<1>1. /\ attempt' \in [Attempts -> Attempt]
      /\ attempt'[a].key = attempt[a].key /\ attempt'[a].n = attempt[a].n
      /\ (attempt'[a].held = attempt[a].held)
      /\ attempt'[a].answer = [kind |-> kind, of |-> of, n |-> n]
      /\ \A b \in Attempts : b # a => attempt'[b] = attempt[b]
  BY RespondEffect DEF IInv
<1>2. attempt[a].answer = NoAnswer
  BY DEF IInv, StandsOK
<1>3. P_ask' = P_ask
  BY <1>1 DEF P_ask
<1>4. P_holder' = P_holder
  BY DEF P_holder
<1>5. P_held' = P_held
  BY <1>1 DEF P_held
<1>6. P_answer' = [P_answer EXCEPT ![a] = [kind |-> kind, of |-> of, n |-> n]]
  BY <1>1 DEF P_answer
<1>7. P_answer[a] = Promise!Nothing
  BY <1>2 DEF P_answer, NoAnswer, Promise!Nothing
<1>. QED
  BY <1>3, <1>4, <1>5, <1>6, <1>7
     DEF Promise!Tell, P_ask, P_holder, P_held, P_answer

LEMMA StepRefines == IInv /\ IInv' /\ [Next]_vars => [Promise!ANext]_(Promise!avars)
<1> SUFFICES ASSUME IInv, IInv', [Next]_vars
             PROVE  Promise!ANext \/ UNCHANGED Promise!avars
  BY DEF Promise!avars
<1>a. /\ \A a \in Attempts : attempt[a].key \in Keys \cup {NoKey} /\ inserted[a] \in Nat
                              /\ attempt[a].n \in Nat
      /\ \A k \in Keys : record[k] \in Record
  BY DEF IInv, TypeOK, Attempt, Record
<1>1. ASSUME NEW a \in Attempts, NEW k \in Keys \cup {NoKey}, NEW n \in 0..MaxRows,
             Arrive(a, k, n)
      PROVE  Promise!Ask(a, k, n)
  <2>1. n \in Nat /\ attempt[a].pc = "new" /\ UNCHANGED <<record, inserted, failures>>
    BY <1>1, IdempotencyAssumption DEF Arrive, At
  <2>2. /\ attempt'[a].key = k /\ attempt'[a].n = n
        /\ (attempt'[a].held = attempt[a].held)
        /\ attempt'[a].answer = attempt[a].answer
        /\ \A b \in Attempts : b # a => attempt'[b] = attempt[b]
    BY <1>1, <2>1, ArriveEffect DEF IInv
  <2>3. attempt[a].key = NoKey /\ attempt[a].n = 0
    BY <2>1 DEF IInv, StandsOK, Key
  <2>4. P_ask[a] = Promise!NotAsked
    BY <2>3 DEF P_ask, Promise!NotAsked
  <2>5. P_ask' = [P_ask EXCEPT ![a] = [key |-> k, n |-> n]]
    BY <2>2 DEF P_ask
  <2>6. P_holder' = P_holder /\ P_held' = P_held /\ P_answer' = P_answer
    BY <2>1, <2>2 DEF P_holder, P_held, P_answer
  <2>. QED
    BY <2>1, <2>4, <2>5, <2>6
       DEF Promise!Ask, P_ask, P_holder, P_held, P_answer
<1>2. ASSUME NEW a \in Attempts, Reserve(a) PROVE \E k \in Keys : Promise!Hold(a, k)
  <2>1. /\ Key(a) \in Keys /\ attempt[a].pc = "reserve" /\ ~attempt[a].held
        /\ record[Key(a)].by = NoAttempt /\ attempt[a].answer = NoAnswer
        /\ inserted' = inserted
    BY <1>2 DEF Reserve, At, IInv, StandsOK, RecordOK
  <2>2. /\ attempt'[a].key = Key(a) /\ attempt'[a].n = attempt[a].n /\ attempt'[a].held
        /\ attempt'[a].answer = attempt[a].answer
        /\ \A b \in Attempts : b # a => attempt'[b] = attempt[b]
        /\ record'[Key(a)].by = a
        /\ \A j \in Keys : j # Key(a) => record'[j] = record[j]
    BY <1>2, <2>1, ReserveEffect DEF IInv
  <2>3. P_ask' = P_ask /\ P_answer' = P_answer
    BY <2>2 DEF P_ask, P_answer, Key
  <2>4. P_holder' = [P_holder EXCEPT ![Key(a)] = a] /\ P_holder[Key(a)] = NoAttempt
    BY <2>1, <2>2 DEF P_holder
  <2>5. P_held' = P_held \cup {a} /\ a \notin P_held
    BY <2>1, <2>2 DEF P_held
  <2>6. P_ask[a].key = Key(a) /\ P_answer[a] = Promise!Nothing
    BY <2>1 DEF P_ask, P_answer, Key, NoAnswer, Promise!Nothing
  <2>. QED
    BY <2>1, <2>3, <2>4, <2>5, <2>6
       DEF Promise!Hold, P_ask, P_holder, P_held, P_answer
<1>3. ASSUME NEW a \in Attempts, Duplicate(a) PROVE UNCHANGED Promise!avars
  <2>1. UNCHANGED <<record, inserted>> /\ Goto(a, "lookup")
    BY <1>3 DEF Duplicate
  <2>2. /\ attempt'[a].key = attempt[a].key /\ attempt'[a].n = attempt[a].n
        /\ (attempt'[a].held = attempt[a].held)
        /\ attempt'[a].answer = attempt[a].answer
        /\ \A b \in Attempts : b # a => attempt'[b] = attempt[b]
    BY <2>1, GotoEffect DEF IInv
  <2>3. P_ask' = P_ask /\ P_holder' = P_holder /\ P_held' = P_held /\ P_answer' = P_answer
    BY <2>1, <2>2 DEF P_ask, P_holder, P_held, P_answer
  <2>. QED
    BY <2>1, <2>3 DEF Promise!avars, P_ask, P_holder, P_held, P_answer
<1>4. ASSUME NEW a \in Attempts, Lookup(a)
      PROVE  (\E k \in Keys : Promise!TellReplay(a, k)) \/ Promise!TellConflict(a)
  <2>1. /\ attempt[a].pc = "lookup" /\ Key(a) \in Keys /\ ~attempt[a].held
        /\ UNCHANGED <<record, inserted>> /\ NoKey \notin Keys
    BY <1>4, IdempotencyAssumption DEF Lookup, At, IInv, StandsOK
  <2>2. P_ask[a].key = Key(a) /\ a \notin P_held
    BY <2>1 DEF P_ask, P_held, Key
  <2>3. CASE /\ record[Key(a)].st = "stored"
             /\ Respond(a, "replay", record[Key(a)].by, record[Key(a)].body)
    <3>1. PICK b \in Attempts, m \in Nat :
            /\ b = record[Key(a)].by /\ m = record[Key(a)].body
            /\ inserted[b] = m /\ attempt[b].n = m
      BY <1>a, <2>1, <2>3 DEF IInv, RecordOK, Record
    <3>2. Promise!Tell(a, "replay", b, m)
      BY <2>1, <2>3, <3>1, RespondRefines
    <3>3. P_holder[Key(a)] = b /\ P_ask[b].n = m
      BY <2>1, <3>1 DEF P_holder, P_ask
    <3>4. PICK k \in Keys : k = Key(a)
      BY <2>1
    <3>5. /\ P_ask[a].key = k /\ P_holder[k] = b
          /\ inserted[P_holder[k]] = P_ask[P_holder[k]].n
      BY <2>2, <3>1, <3>3, <3>4
    <3>6. Promise!Tell(a, "replay", P_holder[k], inserted[P_holder[k]])
      BY <3>1, <3>2, <3>5 DEF Promise!Tell
    <3>7. Promise!TellReplay(a, k)
      BY <2>2, <3>1, <3>5, <3>6 DEF Promise!TellReplay, P_ask, P_holder, P_held, P_answer
    <3>. QED
      BY <3>7
  <2>4. CASE Respond(a, "conflict", NoAttempt, 0)
    <3>1. Promise!Tell(a, "conflict", NoAttempt, 0)
      BY <2>1, <2>4, RespondRefines
    <3>. QED
      BY <2>1, <2>2, <3>1 DEF Promise!TellConflict, P_ask, P_holder, P_held, P_answer
  <2>. QED
    BY <1>4, <2>3, <2>4 DEF Lookup
<1>5. ASSUME NEW a \in Attempts, Insert(a) PROVE Promise!Work(a)
  <2>1. /\ attempt[a].pc = "work" /\ attempt' = attempt /\ record' = record
        /\ inserted[a] < attempt[a].n
        /\ inserted' = [inserted EXCEPT ![a] = inserted[a] + 1]
        /\ attempt[a].answer = NoAnswer /\ (attempt[a].held \/ attempt[a].key = NoKey)
    BY <1>5 DEF Insert, At, IInv, StandsOK, Key
  <2>2. /\ P_ask[a].key = attempt[a].key /\ P_ask[a].n = attempt[a].n
        /\ P_answer[a] = Promise!Nothing /\ (attempt[a].held => a \in P_held)
    BY <2>1 DEF P_ask, P_answer, P_held, NoAnswer, Promise!Nothing
  <2>. QED
    BY <2>1, <2>2 DEF Promise!Work, Promise!MayWork, P_ask, P_holder, P_held, P_answer
<1>b. ASSUME NEW a \in Attempts, NEW m \in Nat, m = inserted[a],
             attempt[a].pc = "work", inserted[a] = attempt[a].n,
             Promise!Tell(a, "own", a, m)
      PROVE  Promise!TellOwn(a)
  <2>1. attempt[a].held \/ attempt[a].key = NoKey
    BY <1>b DEF IInv, StandsOK, Key
  <2>2. /\ P_ask[a].key = attempt[a].key /\ P_ask[a].n = attempt[a].n
        /\ (attempt[a].held => a \in P_held)
    BY DEF P_ask, P_held
  <2>. QED
    BY <1>b, <2>1, <2>2 DEF Promise!TellOwn, Promise!Tell, Promise!MayWork, P_ask, P_holder, P_held, P_answer
<1>6. ASSUME NEW a \in Attempts, Save(a) PROVE Promise!TellOwn(a) \/ Promise!TellError(a)
  <2>1. /\ attempt[a].pc = "work" /\ Key(a) \in Keys /\ inserted[a] = attempt[a].n
        /\ inserted' = inserted
    BY <1>6, <1>a DEF Save, At, Key
  <2>2. CASE /\ Respond(a, "own", a, inserted[a])
             /\ record' = [record EXCEPT ![Key(a)].st = "stored",
                                         ![Key(a)].body = inserted[a]]
    <3>1. \A k \in Keys : record'[k].by = record[k].by
      BY <1>a, <2>1, <2>2, StoreEffect DEF IInv
    <3>2. PICK m \in Nat : m = inserted[a]
      BY <1>a
    <3>3. Promise!Tell(a, "own", a, m)
      BY <2>1, <2>2, <3>1, <3>2, RespondRefines
    <3>. QED
      BY <1>b, <2>1, <3>2, <3>3
  <2>3. CASE Respond(a, "error", NoAttempt, 0) /\ record' = record
    BY <2>1, <2>3, RespondRefines DEF Promise!TellError
  <2>. QED
    BY <1>6, <2>2, <2>3 DEF Save
<1>7. ASSUME NEW a \in Attempts, AnswerUnkeyed(a) PROVE Promise!TellOwn(a)
  <2>1. /\ attempt[a].pc = "work" /\ inserted[a] = attempt[a].n
        /\ Respond(a, "own", a, inserted[a]) /\ UNCHANGED <<record, inserted>>
    BY <1>7 DEF AnswerUnkeyed, At
  <2>2. PICK m \in Nat : m = inserted[a]
    BY <1>a
  <2>3. Promise!Tell(a, "own", a, m)
    BY <2>1, <2>2, RespondRefines
  <2>. QED
    BY <1>b, <2>1, <2>2, <2>3
<1>8. ASSUME NEW a \in Attempts, Fail(a) PROVE Promise!TellError(a)
  <2>1. /\ attempt[a].pc # "done" /\ Respond(a, "error", NoAttempt, 0)
        /\ UNCHANGED <<record, inserted>>
    BY <1>8 DEF Fail
  <2>. QED
    BY <2>1, RespondRefines DEF Promise!TellError
<1>9. ASSUME NEW k \in Keys, Expire(k) PROVE Promise!Forget(k)
  <2>1. UNCHANGED <<attempt, inserted>>
    BY <1>9 DEF Expire
  <2>2. P_holder' = [P_holder EXCEPT ![k] = NoAttempt]
    BY <1>9 DEF P_holder, Expire, IInv, TypeOK
  <2>3. P_ask' = P_ask /\ P_held' = P_held /\ P_answer' = P_answer
    BY <2>1 DEF P_ask, P_held, P_answer
  <2>. QED
    BY <2>1, <2>2, <2>3 DEF Promise!Forget, P_ask, P_holder, P_held, P_answer
<1>10. ASSUME UNCHANGED vars PROVE UNCHANGED Promise!avars
  <2>1. P_ask' = P_ask /\ P_holder' = P_holder /\ P_held' = P_held /\ P_answer' = P_answer
    BY <1>10 DEF vars, P_ask, P_holder, P_held, P_answer
  <2>. QED
    BY <1>10, <2>1 DEF vars, Promise!avars, P_ask, P_holder, P_held, P_answer
<1>. QED
  BY <1>1, <1>2, <1>3, <1>4, <1>5, <1>6, <1>7, <1>8, <1>9, <1>10
     DEF Next, Continue, Promise!ANext

(* The protocol of createTask and importTasks implements what OncePerKey     *)
(* promises to a client that repeats a request.                              *)
THEOREM ImplementsPromise == Spec => KeepsPromise
BY InitRefines, StepRefines, Invariance, PTL
   DEF Spec, KeepsPromise, Promise!ASpec
-----------------------------------------------------------------------------
(* Numbers of pages. *)
LEMMA CeilCounts ==
    ASSUME NEW n \in Nat, NEW m \in Nat \ {0}, NEW p \in Nat
    PROVE  Ceil(n, m) \in Nat /\ Ceil(n, m) <= n /\ (p < Ceil(n, m) <=> p * m < n)
<1>. DEFINE q == (n + m - 1) \div m
<1>1. q \in Nat /\ q * m <= n + m - 1 /\ n + m - 1 < q * m + m
  BY DEF q
<1>. HIDE DEF q
<1>2. (q + 1) * m = q * m + m /\ (n + 1) * m = n * m + m /\ n <= n * m
  BY <1>1
<1>3. ASSUME q > n PROVE FALSE
  <2>1. (n + 1) * m <= q * m
    BY <1>1, <1>3
  <2>. QED
    BY <1>1, <1>2, <2>1
<1>4. ASSUME p < q PROVE p * m < n
  <2>1. (p + 1) * m <= q * m /\ (p + 1) * m = p * m + m
    BY <1>1, <1>4
  <2>. QED
    BY <1>1, <2>1
<1>5. ASSUME p * m < n PROVE p < q
  <2>1. SUFFICES ASSUME q <= p PROVE FALSE
    BY <1>1
  <2>2. q * m <= p * m
    BY <1>1, <2>1
  <2>. QED
    BY <1>1, <1>5, <2>2
<1>. QED
  BY <1>1, <1>3, <1>4, <1>5 DEF Ceil, q

(* What stands before a task in the list. *)
Ahead(t) == Cardinality({u \in Listed : Before(u, t)})
Linear   == \A t, u \in Listed : t # u => Before(t, u) \/ Before(u, t)

LEMMA ListedFinite ==
    /\ Listed \subseteq Tasks /\ IsFiniteSet(Listed)
    /\ Cardinality(Listed) \in Nat /\ Cardinality(Listed) <= Cardinality(Tasks) /\ Cardinality(Tasks) \in Nat
    /\ \A t : IsFiniteSet({u \in Listed : Before(u, t)}) /\ Ahead(t) \in Nat
<1>1. Listed \subseteq Tasks
  BY DEF Listed
<1>2. IsFiniteSet(Listed) /\ Cardinality(Listed) <= Cardinality(Tasks)
  BY <1>1, FS_Subset, ListingAssumption
<1>3. ASSUME NEW t PROVE IsFiniteSet({u \in Listed : Before(u, t)}) /\ Ahead(t) \in Nat
  BY <1>2, FS_Subset, FS_CardinalityType DEF Ahead
<1>. QED
  BY <1>1, <1>2, <1>3, FS_CardinalityType, ListingAssumption

(* An answer of the database has every listed task once; and if the order    *)
(* leaves no choice, each at the place that the number of tasks before it    *)
(* says.                                                                     *)
LEMMA Places ==
    ASSUME NEW s \in Sorted
    PROVE  /\ s \in [1..Cardinality(Listed) -> Listed] /\ s \in Seq(Listed) /\ Len(s) = Cardinality(Listed)
           /\ \A j, k \in DOMAIN s : s[j] = s[k] => j = k
           /\ \A t \in Listed : \E k \in DOMAIN s : s[k] = t
           /\ Linear => \A k \in DOMAIN s : Ahead(s[k]) = k - 1
<1>. DEFINE n == Cardinality(Listed)
<1>1. /\ s \in [1..n -> Listed] /\ \A j, k \in 1..n : j # k => s[j] # s[k]
      /\ \A j, k \in DOMAIN s : Before(s[j], s[k]) => j < k
  BY DEF Sorted, SetToSeqs
<1>2. n \in Nat
  BY ListedFinite
<1>. HIDE DEF n
<1>3. s \in Seq(Listed) /\ Len(s) = n /\ DOMAIN s = 1..n
  BY <1>1, <1>2
<1>4. \A t \in Listed : \E k \in DOMAIN s : s[k] = t
  <2>1. s \in Injection(1..n, Listed)
    BY <1>1 DEF Injection, IsInjective
  <2>2. Cardinality(1..n) = n
    BY <1>2, FS_Interval
  <2>3. s \in Surjection(1..n, Listed)
    BY <2>1, <2>2, FS_Injection, ListedFinite DEF n
  <2>. QED
    BY <1>3, <2>3 DEF Surjection
<1>5. ASSUME Linear, NEW k \in DOMAIN s PROVE Ahead(s[k]) = k - 1
  <2>. DEFINE A == {u \in Listed : Before(u, s[k])}
              f == [j \in 1..(k - 1) |-> s[j]]
  <2>1. k \in 1..n /\ k - 1 \in Nat
    BY <1>2, <1>3
  <2>2. ASSUME NEW j \in 1..(k - 1) PROVE s[j] \in A
    <3>1. j \in 1..n /\ j < k
      BY <1>2, <2>1
    <3>2. s[j] \in Listed /\ s[k] \in Listed /\ s[j] # s[k]
      BY <1>1, <2>1, <3>1
    <3>3. ~Before(s[k], s[j])
      BY <1>1, <1>3, <2>1, <3>1
    <3>. QED
      BY <1>5, <3>2, <3>3 DEF Linear
  <2>3. ASSUME NEW u \in A PROVE \E j \in 1..(k - 1) : s[j] = u
    <3>1. PICK j \in DOMAIN s : s[j] = u
      BY <1>4
    <3>2. j < k
      BY <1>1, <3>1
    <3>. QED
      BY <1>2, <1>3, <2>1, <3>1, <3>2
  <2>4. \A i1, i2 \in 1..(k - 1) : s[i1] = s[i2] => i1 = i2
    BY <1>1, <1>2, <2>1
  <2>. HIDE DEF A
  <2>5. f \in Bijection(1..(k - 1), A)
    BY <2>2, <2>3, <2>4 DEF Bijection, Injection, Surjection, IsInjective
  <2>6. Cardinality(A) = k - 1
    BY <2>1, <2>5, FS_CountingElements DEF ExistsBijection
  <2>. QED
    BY <2>6 DEF Ahead, A
<1>. QED
  BY <1>1, <1>3, <1>4, <1>5 DEF n

(* The part of a list on a page. *)
LEMMA CutRows ==
    ASSUME NEW T, NEW s \in Seq(T), page \in Nat \ {0}, Limit \in Nat \ {0}
    PROVE  LET o == (page - 1) * Limit
           IN  /\ Cut(s) \in Seq(T) /\ Len(Cut(s)) <= Limit /\ o \in Nat /\ page * Limit = o + Limit
               /\ \A k \in DOMAIN Cut(s) : o + k \in DOMAIN s /\ o + k <= page * Limit /\ Cut(s)[k] = s[o + k]
               /\ \A j \in DOMAIN s : o < j /\ j <= page * Limit => j - o \in DOMAIN Cut(s) /\ Cut(s)[j - o] = s[j]
<1>. DEFINE o == (page - 1) * Limit
            e == page * Limit
            n == Len(s)
            m == Smallest(e, n)
            c == SubSeq(s, o + 1, m)
<1>1. o \in Nat /\ e = o + Limit /\ n \in Nat /\ DOMAIN s = 1..n
  <2>1. page - 1 \in Nat /\ page = (page - 1) + 1
    OBVIOUS
  <2>2. \A a \in Nat, b \in Nat : a * b \in Nat /\ (a + 1) * b = a * b + b
    OBVIOUS
  <2>. QED
    BY <2>1, <2>2
<1>2. Cut(s) = c
  BY DEF Cut
<1>. HIDE DEF o, e, n
<1>3. m \in Nat /\ m <= e /\ m <= n /\ m \in {e, n}
  BY <1>1 DEF Smallest
<1>. HIDE DEF m
<1>4. /\ c \in Seq(T) /\ Len(c) = (IF o + 1 <= m THEN m - o ELSE 0)
      /\ \A k \in 1..Len(c) : c[k] = s[o + k]
  <2>1. \A k \in (o + 1)..m : k \in 1..n
    BY <1>1, <1>3
  <2>2. \A k \in (o + 1)..m : s[k] \in T
    BY <2>1 DEF n
  <2>3. /\ c \in Seq(T) /\ Len(c) = (IF o + 1 <= m THEN m - (o + 1) + 1 ELSE 0)
        /\ \A k \in 1..(m - (o + 1) + 1) : c[k] = s[o + 1 + k - 1]
    BY <1>1, <1>3, <2>2, SubSeqProperties
  <2>4. \A k \in Nat : o + 1 + k - 1 = o + k
    BY <1>1
  <2>5. m - (o + 1) + 1 = m - o /\ (m - o \in Int)
    BY <1>1, <1>3
  <2>6. \A k \in 1..Len(c) : k \in 1..(m - o) /\ k \in Nat
    BY <2>3, <2>5
  <2>. QED
    BY <2>3, <2>4, <2>5, <2>6
<1>. HIDE DEF c
<1>5. DOMAIN c = 1..Len(c) /\ Len(c) \in Nat
  BY <1>4
<1>6. ASSUME NEW k \in DOMAIN c PROVE o + k \in DOMAIN s /\ o + k <= e /\ c[k] = s[o + k]
  BY <1>1, <1>3, <1>4, <1>5
<1>7. ASSUME NEW j \in DOMAIN s, o < j, j <= e PROVE j - o \in DOMAIN c /\ c[j - o] = s[j]
  <2>1. j \in Nat /\ j <= m
    BY <1>1, <1>3, <1>7
  <2>2. j - o \in 1..Len(c) /\ o + (j - o) = j
    BY <1>1, <1>3, <1>4, <1>7, <2>1
  <2>. QED
    BY <1>4, <1>5, <2>2
<1>8. Len(c) <= Limit
  BY <1>1, <1>3, <1>4
<1>9. Cut(s) \in Seq(T) /\ Len(Cut(s)) <= Limit /\ o \in Nat /\ e = o + Limit
  BY <1>1, <1>2, <1>4, <1>8
<1>. QED
  BY <1>2, <1>6, <1>7, <1>9 DEF o, e

(* A page of an ordered list has the tasks whose places are on it. *)
LEMMA PageRows ==
    ASSUME NEW s \in Sorted, page \in Nat \ {0}, Limit \in Nat \ {0}
    PROVE  /\ Cut(s) \in Seq(Tasks) /\ Len(Cut(s)) <= Limit
           /\ \A j, k \in DOMAIN Cut(s) : Cut(s)[j] = Cut(s)[k] => j = k
           /\ ToSet(Cut(s)) \subseteq Listed
           /\ Linear => \A t \in Listed :
                t \in ToSet(Cut(s)) <=> (page - 1) * Limit <= Ahead(t) /\ Ahead(t) < page * Limit
<1>. DEFINE o == (page - 1) * Limit
            e == page * Limit
            c == Cut(s)
<1>1. /\ c \in Seq(Listed) /\ Len(c) <= Limit /\ o \in Nat /\ e = o + Limit
      /\ \A k \in DOMAIN c : o + k \in DOMAIN s /\ o + k <= e /\ c[k] = s[o + k]
      /\ \A j \in DOMAIN s : o < j /\ j <= e => j - o \in DOMAIN c /\ c[j - o] = s[j]
  BY Places, CutRows
<1>. HIDE DEF o, e, c
<1>2. DOMAIN c = 1..Len(c) /\ Len(c) \in Nat /\ DOMAIN s = 1..Len(s) /\ Len(s) \in Nat
  BY <1>1, Places
<1>3. c \in Seq(Tasks) /\ ToSet(c) \subseteq Listed
  <2>1. \A k \in DOMAIN c : c[k] \in Listed /\ c[k] \in Tasks
    BY <1>1, <1>2, ListedFinite
  <2>2. c \in Seq(Tasks)
    BY <1>1, <1>2, <2>1
  <2>3. ToSet(c) \subseteq Listed
    BY <2>1 DEF ToSet
  <2>. QED
    BY <2>2, <2>3
<1>4. ASSUME NEW j \in DOMAIN c, NEW k \in DOMAIN c, c[j] = c[k] PROVE j = k
  <2>1. o + j = o + k
    BY <1>1, <1>4, Places
  <2>. QED
    BY <1>1, <1>2, <2>1
<1>5. ASSUME Linear, NEW t \in Listed
      PROVE  t \in ToSet(c) <=> o <= Ahead(t) /\ Ahead(t) < e
  <2>1. PICK j \in DOMAIN s : s[j] = t
    BY Places
  <2>2. Ahead(t) = j - 1 /\ j \in Nat
    BY <1>2, <1>5, <2>1, Places
  <2>3. ASSUME t \in ToSet(c) PROVE o < j /\ j <= e
    <3>1. PICK k \in DOMAIN c : c[k] = t
      BY <2>3 DEF ToSet
    <3>2. o + k = j
      BY <1>1, <2>1, <3>1, Places
    <3>. QED
      BY <1>1, <1>2, <3>1, <3>2
  <2>4. ASSUME o < j, j <= e PROVE t \in ToSet(c)
    BY <1>1, <2>1, <2>4 DEF ToSet
  <2>. QED
    BY <1>1, <2>2, <2>3, <2>4
<1>. QED
  BY <1>1, <1>3, <1>4, <1>5 DEF o, e, c

-----------------------------------------------------------------------------
(* What holds of a reader of pages, whatever the query and the changes. *)
TaskRecord == [where : {"new", "live", "trash", "gone"}, rank : {1, 2}, at : Nat]
Shifts     == {"entered", "left", "moved", "torn", "tied"}
Pageful    == [rows : Seq(Tasks) \cup {NaN}, total : (0..Cardinality(Tasks)) \cup {NaN}]

ListBase ==
    /\ reader \in {"off", "reading", "done", "refused"}
    /\ reader # "off" =>
         /\ task \in [Tasks -> TaskRecord] /\ query \in Queries
         /\ page \in 1..Largest(FirstPage, Cardinality(Tasks))
         /\ part \in Pageful /\ (part.rows = NaN \/ Len(part.rows) <= Limit)
         /\ got \in Seq(Tasks) /\ start \subseteq Tasks /\ shifts \subseteq Shifts

LEMMA QueryBounds ==
    ASSUME query \in Queries
    PROVE  /\ query.list \in {"live", "trash", "admin"}
           /\ Limit \in 1..MaxLimit /\ Limit \in Nat \ {0} /\ FirstPage \in Nat \ {0}
<1>. DEFINE l == IF query.limit \in {NaN, 0} THEN DefaultLimit[query.list] ELSE query.limit
            p == IF query.page \in {NaN, 0} THEN 1 ELSE query.page
<1>1. /\ query.list \in {"live", "trash", "admin"}
      /\ query.page \in Int \cup {NaN} /\ query.limit \in Int \cup {NaN}
  BY ListingAssumption
<1>2. DefaultLimit[query.list] \in 1..MaxLimit /\ MaxLimit \in Nat
  BY <1>1, ListingAssumption
<1>3. l \in Int /\ p \in Int
  BY <1>1, <1>2
<1>4. Limit = Smallest(Largest(l, 1), MaxLimit) /\ FirstPage = Largest(p, 1)
  BY DEF Limit, FirstPage, ParsePagination
<1>. HIDE DEF l, p
<1>. QED
  BY <1>1, <1>2, <1>3, <1>4 DEF Smallest, Largest

(* Without a tie the order leaves no choice, and nothing is before itself. *)
LEMMA OrderIsLinear ==
    ASSUME task \in [Tasks -> TaskRecord]
    PROVE  /\ ~Tied => Linear
           /\ \A t \in Tasks : ~Before(t, t)
<1>1. \A t \in Tasks : t \in Nat /\ task[t].at \in Nat /\ task[t].rank \in Nat /\ SortKey(t) \in Nat
  BY ListingAssumption DEF TaskRecord, SortKey
<1>2. ASSUME NEW t \in Tasks PROVE ~Before(t, t)
  BY <1>1 DEF Before
<1>3. ASSUME ~Tied, NEW t \in Listed, NEW u \in Listed, t # u PROVE Before(t, u) \/ Before(u, t)
  <2>1. t \in Tasks /\ u \in Tasks
    BY ListedFinite
  <2>2. CASE query.list = "trash"
    <3>1. task[t].at # task[u].at
      BY <1>3, <2>2 DEF Tied
    <3>. QED
      BY <1>1, <2>1, <2>2, <3>1 DEF Before
  <2>3. CASE query.list # "trash"
    <3>1. t < u \/ u < t
      BY <1>1, <1>3, <2>1
    <3>. QED
      BY <1>1, <2>1, <2>3, <3>1 DEF Before
  <2>. QED
    BY <2>2, <2>3
<1>. QED
  BY <1>2, <1>3 DEF Linear

(* Fewer stand before a task than are in the list. *)
LEMMA AheadLess ==
    ASSUME task \in [Tasks -> TaskRecord], NEW t \in Listed PROVE Ahead(t) < Cardinality(Listed)
<1>. DEFINE A == {u \in Listed : Before(u, t)}
<1>1. A \subseteq Listed /\ A # Listed
  BY OrderIsLinear, ListedFinite
<1>2. Ahead(t) = Cardinality(A) /\ Ahead(t) \in Nat
  BY ListedFinite DEF Ahead
<1>. HIDE DEF A
<1>3. Cardinality(A) <= Cardinality(Listed) /\ Cardinality(A) # Cardinality(Listed)
  BY <1>1, ListedFinite, FS_Subset
<1>. QED
  BY <1>2, <1>3, ListedFinite

(* Where the tasks and the query stay, the order does. *)
LEMMA OrderStays ==
    ASSUME UNCHANGED <<task, query>>
    PROVE  /\ Listed' = Listed /\ Limit' = Limit /\ FirstPage' = FirstPage
           /\ \A t : Ahead(t)' = Ahead(t)
<1>1. Listed' = Listed /\ Limit' = Limit /\ FirstPage' = FirstPage
  BY DEF Listed, Limit, FirstPage
<1>2. \A t, u : Before(t, u)' = Before(t, u)
  BY DEF Before, SortKey, Order
<1>. QED
  BY <1>1, <1>2 DEF Ahead

(* What a change does to the list. *)
LEMMA ChangedEffect ==
    ASSUME ListBase, Changed
    PROVE  /\ reader = "reading" /\ UNCHANGED <<query, page, part, got, reader, start>>
           /\ task' \in [Tasks -> TaskRecord] /\ shifts \subseteq shifts' /\ shifts' \subseteq Shifts
           /\ Limit' = Limit /\ FirstPage' = FirstPage
           /\ "torn" \notin shifts' => (part.rows = NaN <=> part.total = NaN)
           /\ "left" \notin shifts' => Listed \subseteq Listed'
           /\ "entered" \notin shifts' => Listed' \subseteq Listed
           /\ "moved" \notin shifts' => \A t, u \in Listed \cap Listed' : Before(t, u)' <=> Before(t, u)
<1>1. PICK x \in Tasks, now \in TaskRecord :
        /\ Change(x, now)
        /\ task[x].where = "trash" => now.where # "trash"
  <2>0. task \in [Tasks -> TaskRecord] /\ reader = "reading"
    BY DEF ListBase, Changed
  <2>1. Clock \in Nat
    <3>1. Cardinality({t \in Tasks : task[t].at > 0}) \in Nat
      BY FS_Subset, FS_CardinalityType, ListingAssumption
    <3>. QED
      BY <3>1, ListingAssumption DEF Clock
  <2>2. PICK x \in Tasks :
        \/ task[x].where = "new"   /\ Change(x, [task[x] EXCEPT !.where = "live"])
        \/ task[x].where = "live"  /\ Change(x, [task[x] EXCEPT !.where = "trash", !.at = Clock])
        \/ task[x].where = "trash" /\ Change(x, [task[x] EXCEPT !.where = "live", !.at = 0])
        \/ task[x].where = "trash" /\ Change(x, [task[x] EXCEPT !.where = "gone", !.at = 0])
        \/ task[x].where = "live"  /\ Change(x, [task[x] EXCEPT !.rank = 3 - @])
    BY DEF Changed
  <2>. DEFINE y == task[x]
              clock == Clock
  <2>3. y \in TaskRecord /\ clock \in Nat
    BY <2>0, <2>1
  <2>. HIDE DEF clock
  <2>4. /\ [y EXCEPT !.where = "live"] \in TaskRecord
        /\ [y EXCEPT !.where = "trash", !.at = clock] \in TaskRecord
        /\ [y EXCEPT !.where = "live", !.at = 0] \in TaskRecord /\ [y EXCEPT !.where = "live", !.at = 0].where = "live"
        /\ [y EXCEPT !.where = "gone", !.at = 0] \in TaskRecord /\ [y EXCEPT !.where = "gone", !.at = 0].where = "gone"
        /\ [y EXCEPT !.rank = 3 - @] \in TaskRecord
    <3>. HIDE DEF y
    <3>1. 3 - y.rank \in {1, 2}
      BY <2>3 DEF TaskRecord
    <3>2. [y EXCEPT !.rank = 3 - @] = [y EXCEPT !.rank = 3 - y.rank]
      OBVIOUS
    <3>. DEFINE r == 3 - y.rank
    <3>. HIDE DEF r
    <3>3. [y EXCEPT !.rank = r] \in TaskRecord
      BY <2>3, <3>1 DEF TaskRecord, r
    <3>4. /\ [y EXCEPT !.where = "live"] \in TaskRecord
          /\ [y EXCEPT !.where = "trash", !.at = clock] \in TaskRecord
      BY <2>3 DEF TaskRecord
    <3>5. /\ [y EXCEPT !.where = "live", !.at = 0] \in TaskRecord /\ [y EXCEPT !.where = "live", !.at = 0].where = "live"
          /\ [y EXCEPT !.where = "gone", !.at = 0] \in TaskRecord /\ [y EXCEPT !.where = "gone", !.at = 0].where = "gone"
      BY <2>3 DEF TaskRecord
    <3>. QED
      BY <3>2, <3>3, <3>4, <3>5 DEF r
  <2>. QED
    BY <2>2, <2>4 DEF clock
<1>. DEFINE how == CASE x \notin Listed /\ Shows(query.list, now.where) -> {"entered"}
                     [] x \in Listed /\ ~Shows(query.list, now.where)   -> {"left"}
                     [] x \in Listed /\ Shows(query.list, now.where) /\ Order.field = "priority" -> {"moved"}
                     [] OTHER -> {}
            torn == (part.rows = NaN) # (part.total = NaN)
<1>2. /\ task' = [task EXCEPT ![x] = now] /\ UNCHANGED <<query, page, part, got, reader, start>>
      /\ shifts' = shifts \cup how \cup (IF torn THEN {"torn"} ELSE {})
  BY <1>1 DEF Change
<1>3. /\ x \notin Listed /\ Shows(query.list, now.where) => how = {"entered"}
      /\ x \in Listed /\ ~Shows(query.list, now.where) => how = {"left"}
      /\ x \in Listed /\ Shows(query.list, now.where) /\ Order.field = "priority" => how = {"moved"}
      /\ how \subseteq Shifts
  BY DEF Shifts
<1>. HIDE DEF how, torn
<1>4. reader = "reading" /\ task \in [Tasks -> TaskRecord] /\ shifts \subseteq Shifts
  BY DEF ListBase, Changed
<1>5. /\ task' \in [Tasks -> TaskRecord] /\ task'[x] = now /\ \A t \in Tasks : t # x => task'[t] = task[t]
  BY <1>2, <1>4
<1>6. shifts \subseteq shifts' /\ shifts' \subseteq Shifts
  BY <1>2, <1>3, <1>4 DEF Shifts
<1>7. Limit' = Limit /\ FirstPage' = FirstPage /\ Order' = Order
  BY <1>2 DEF Limit, FirstPage, Order
<1>8. "torn" \notin shifts' => (part.rows = NaN <=> part.total = NaN)
  <2>1. "torn" \notin shifts' => ~torn
    BY <1>2
  <2>. QED
    BY <2>1 DEF torn
<1>9. x \in Listed' <=> Shows(query.list, now.where)
  BY <1>2, <1>5 DEF Listed
<1>10. \A t : t # x => (t \in Listed' <=> t \in Listed)
  BY <1>2, <1>5 DEF Listed
<1>11. "left" \notin shifts' => Listed \subseteq Listed'
  BY <1>2, <1>3, <1>9, <1>10
<1>12. "entered" \notin shifts' => Listed' \subseteq Listed
  BY <1>2, <1>3, <1>9, <1>10
<1>13. ASSUME "moved" \notin shifts', NEW t \in Listed \cap Listed', NEW u \in Listed \cap Listed'
       PROVE  Before(t, u)' <=> Before(t, u)
  <2>1. t \in Tasks /\ u \in Tasks
    BY ListedFinite
  <2>2. CASE t # x /\ u # x
    BY <1>2, <1>5, <1>7, <2>1, <2>2 DEF Before, SortKey
  <2>3. CASE x \in {t, u}
    <3>1. x \in Listed /\ x \in Listed' /\ Shows(query.list, now.where)
      BY <1>9, <2>3
    <3>2. Order.field # "priority"
      BY <1>2, <1>3, <1>13, <3>1
    <3>3. query.list # "trash"
      BY <1>1, <3>1 DEF Listed, Shows
    <3>. QED
      BY <1>2, <1>7, <3>2, <3>3 DEF Before, SortKey
  <2>. QED
    BY <2>2, <2>3
<1>. QED
  BY <1>2, <1>4, <1>5, <1>6, <1>7, <1>8, <1>11, <1>12, <1>13

(* A task that was in the list and still is has no fewer before it if none   *)
(* left, and no more if none came in.                                        *)
LEMMA AheadMoves ==
    ASSUME ListBase, Changed, "moved" \notin shifts', NEW t \in Listed \cap Listed'
    PROVE  /\ "left" \notin shifts' => Ahead(t) <= Ahead(t)'
           /\ "entered" \notin shifts' => Ahead(t)' <= Ahead(t)
           /\ Ahead(t) \in Nat /\ Ahead(t)' \in Nat
<1>. DEFINE A == {u \in Listed : Before(u, t)}
            B == {u \in Listed' : Before(u, t)'}
<1>1. IsFiniteSet(A) /\ Cardinality(A) = Ahead(t) /\ Ahead(t) \in Nat
  BY ListedFinite DEF Ahead
<1>2. Listed' \subseteq Tasks
  BY DEF Listed
<1>3. IsFiniteSet(B) /\ Cardinality(B) \in Nat
  BY <1>2, FS_Subset, FS_CardinalityType, ListingAssumption
<1>4. Ahead(t)' = Cardinality(B)
  BY DEF Ahead
<1>5. "left" \notin shifts' => A \subseteq B
  BY ChangedEffect
<1>6. "entered" \notin shifts' => B \subseteq A
  BY ChangedEffect
<1>. HIDE DEF A, B
<1>. QED
  BY <1>1, <1>3, <1>4, <1>5, <1>6, FS_Subset

-----------------------------------------------------------------------------
(* The invariant behind the pages: a task that was there all along is on a   *)
(* page that was read, or stands behind it; and one that was read and still  *)
(* is there stands on the pages before.                                      *)
Read(t) == t \in ToSet(got) \/ (part.rows # NaN /\ t \in ToSet(part.rows))

NothingMissed ==
    reader = "reading" /\ FirstPage = 1 /\ shifts \cap {"left", "moved", "torn", "tied"} = {} =>
      /\ \A t \in start :
           /\ t \in Listed
           /\ Read(t) \/ (IF part.rows = NaN THEN page - 1 ELSE page) * Limit <= Ahead(t)
           /\ part.rows # NaN /\ part.total # NaN => Read(t) \/ page * Limit < part.total
      /\ part.rows = NaN /\ part.total # NaN => part.total = Cardinality(Listed)

Once(s) == \A j, k \in DOMAIN s : s[j] = s[k] => j = k

NothingRepeated ==
    reader # "off" /\ shifts \cap {"entered", "moved", "tied"} = {} =>
      /\ Once(got)
      /\ part.rows # NaN => Once(part.rows) /\ ToSet(got) \cap ToSet(part.rows) = {}
      /\ reader = "reading" => \A t \in Listed :
           /\ t \in ToSet(got) => Ahead(t) < (page - 1) * Limit
           /\ part.rows # NaN /\ t \in ToSet(part.rows) => Ahead(t) < page * Limit

ListInv == ListBase /\ NothingMissed /\ PagesMissNothing /\ NothingRepeated

LEMMA ListStarts == ASSUME ListInit \/ ListOff PROVE ListInv
<1>1. CASE ListOff
  BY <1>1 DEF ListOff, ListInv, ListBase, NothingMissed, PagesMissNothing, NothingRepeated
<1>2. CASE ListInit
  <2>1. /\ reader \in {"reading", "refused"} /\ query \in Queries /\ page = FirstPage
        /\ part = NoPart /\ got = <<>> /\ shifts = {} /\ start = Listed
    BY <1>2 DEF ListInit
  <2>2. task \in [Tasks -> TaskRecord]
    BY <1>2 DEF ListInit, TaskRecord
  <2>3. FirstPage \in Nat \ {0} /\ Limit \in Nat \ {0} /\ Cardinality(Tasks) \in Nat
    BY <2>1, QueryBounds, ListedFinite
  <2>4. page \in 1..Largest(FirstPage, Cardinality(Tasks))
    BY <2>1, <2>3 DEF Largest
  <2>5. part \in Pageful /\ part.rows = NaN /\ part.total = NaN
    BY <2>1 DEF Pageful, NoPart
  <2>6. ListBase
    BY <2>1, <2>2, <2>4, <2>5, ListedFinite DEF ListBase
  <2>7. NothingMissed
    <3>. SUFFICES ASSUME FirstPage = 1, NEW t \in start PROVE t \in Listed /\ (page - 1) * Limit <= Ahead(t)
      BY <2>1, <2>5 DEF NothingMissed
    <3>1. (page - 1) * Limit = 0
      BY <2>1, <2>3
    <3>2. t \in Listed /\ Ahead(t) \in Nat
      BY <2>1, ListedFinite
    <3>. QED
      BY <3>1, <3>2
  <2>8. ToSet(got) = {} /\ Once(got)
    BY <2>1 DEF ToSet, Once
  <2>9. NothingRepeated /\ PagesMissNothing
    BY <2>1, <2>5, <2>8 DEF NothingRepeated, PagesMissNothing
  <2>. QED
    BY <2>6, <2>7, <2>9 DEF ListInv
<1>. QED
  BY <1>1, <1>2

LEMMA ListStays == ASSUME ListInv, UNCHANGED listVars PROVE ListInv'
<1>1. /\ UNCHANGED <<task, query>> /\ task' = task /\ query' = query /\ page' = page /\ part' = part /\ got' = got
      /\ reader' = reader /\ start' = start /\ shifts' = shifts
  BY DEF listVars
<1>2. /\ Listed' = Listed /\ Limit' = Limit /\ FirstPage' = FirstPage /\ \A t : Ahead(t)' = Ahead(t)
      /\ \A t : Read(t)' <=> Read(t)
  BY <1>1, OrderStays DEF Read
<1>3. ListBase'
  BY <1>1, <1>2 DEF ListInv, ListBase
<1>4. NothingMissed'
  BY <1>1, <1>2 DEF ListInv, NothingMissed
<1>5. PagesMissNothing' /\ NothingRepeated'
  BY <1>1, <1>2 DEF ListInv, PagesMissNothing, NothingRepeated
<1>. QED
  BY <1>3, <1>4, <1>5 DEF ListInv

(* Rows are read: with the total, or beside it.  Without a tie they are      *)
(* those that the number of the page says.                                   *)
LEMMA RowsCome ==
    ASSUME ListInv, reader = "reading", part.rows = NaN, NEW s \in Sorted,
           NEW n \in {part.total, Cardinality(Listed)}, n # part.total => part.total = NaN,
           part' = [rows |-> Cut(s), total |-> n],
           shifts \subseteq shifts', shifts' \subseteq shifts \cup {"tied"}, Tied => "tied" \in shifts',
           UNCHANGED <<task, query, page, got, reader, start>>
    PROVE  ListInv'
<1>1. /\ Listed' = Listed /\ Limit' = Limit /\ FirstPage' = FirstPage /\ \A t : Ahead(t)' = Ahead(t)
      /\ task \in [Tasks -> TaskRecord] /\ query \in Queries /\ page \in 1..Largest(FirstPage, Cardinality(Tasks))
      /\ part \in Pageful /\ got \in Seq(Tasks) /\ start \subseteq Tasks /\ shifts \subseteq Shifts
  BY OrderStays DEF ListInv, ListBase
<1>2. /\ Limit \in Nat \ {0} /\ FirstPage \in Nat \ {0} /\ page \in Nat \ {0}
      /\ Cardinality(Listed) \in 0..Cardinality(Tasks) /\ Cardinality(Listed) \in Nat
  <2>1. Limit \in Nat \ {0} /\ FirstPage \in Nat \ {0} /\ Cardinality(Tasks) \in Nat /\ Cardinality(Listed) \in 0..Cardinality(Tasks)
    BY <1>1, QueryBounds, ListedFinite
  <2>. QED
    BY <1>1, <2>1 DEF Largest
<1>. DEFINE c == Cut(s)
            o == (page - 1) * Limit
            e == page * Limit
<1>3. /\ c \in Seq(Tasks) /\ Len(c) <= Limit /\ Once(c) /\ ToSet(c) \subseteq Listed
      /\ Linear => \A t \in Listed : t \in ToSet(c) <=> o <= Ahead(t) /\ Ahead(t) < e
  BY <1>2, PageRows DEF Once
<1>4. part'.rows = c /\ part'.total = n
  OBVIOUS
<1>5. o \in Nat /\ e \in Nat /\ o <= e
  <2>1. \A a \in Nat, b \in Nat : a * b \in Nat /\ (a + 1) * b = a * b + b
    OBVIOUS
  <2>2. page - 1 \in Nat /\ page = (page - 1) + 1 /\ Limit \in Nat
    BY <1>2
  <2>3. o \in Nat /\ e = o + Limit
    BY <2>1, <2>2
  <2>. QED
    BY <1>2, <2>3
<1>6. n \in (0..Cardinality(Tasks)) \cup {NaN} /\ part' \in Pageful
  BY <1>1, <1>2, <1>3 DEF Pageful
<1>7. "tied" \notin shifts' => Linear
  BY <1>1, OrderIsLinear
<1>. HIDE DEF c, o, e
<1>8. ListBase'
  BY <1>1, <1>3, <1>4, <1>6 DEF ListBase, Shifts, ListInv
<1>9. NothingMissed'
  <2>. SUFFICES ASSUME FirstPage = 1, shifts' \cap {"left", "moved", "torn", "tied"} = {}
                PROVE  /\ \A t \in start :
                           /\ t \in Listed
                           /\ Read(t)' \/ (IF part'.rows = NaN THEN o ELSE e) <= Ahead(t)
                           /\ part'.rows # NaN /\ part'.total # NaN => Read(t)' \/ e < part'.total
                       /\ part'.rows = NaN /\ part'.total # NaN => part'.total = Cardinality(Listed)
    BY <1>1 DEF NothingMissed, o, e
  <2>1. Linear /\ shifts \cap {"left", "moved", "torn", "tied"} = {}
    BY <1>7
  <2>2. /\ \A t \in start : t \in Listed /\ (t \in ToSet(got) \/ o <= Ahead(t))
        /\ part.total # NaN => part.total = Cardinality(Listed)
    BY <2>1 DEF ListInv, NothingMissed, Read, o
  <2>3. part'.total # NaN => part'.total = Cardinality(Listed)
    BY <1>4, <2>2
  <2>4. ASSUME NEW t \in start, part'.rows # NaN PROVE Read(t)' \/ (e <= Ahead(t) /\ e < Cardinality(Listed))
    <3>1. t \in Listed /\ (t \in ToSet(got) \/ o <= Ahead(t))
      BY <2>2
    <3>2. Ahead(t) \in Nat /\ Ahead(t) < Cardinality(Listed)
      BY <1>1, <3>1, AheadLess, ListedFinite
    <3>3. Read(t)' <=> t \in ToSet(got) \/ t \in ToSet(c)
      BY <1>4, <2>4 DEF Read
    <3>. QED
      BY <1>2, <1>3, <1>5, <2>1, <3>1, <3>2, <3>3
  <2>5. ASSUME NEW t \in start, part'.rows = NaN PROVE Read(t)' \/ o <= Ahead(t)
    BY <2>2 DEF Read
  <2>. QED
    BY <2>2, <2>3, <2>4, <2>5
<1>10. PagesMissNothing'
  BY DEF PagesMissNothing
<1>11. NothingRepeated'
  <2>. SUFFICES ASSUME shifts' \cap {"entered", "moved", "tied"} = {}
                PROVE  /\ Once(got)
                       /\ Once(c) /\ ToSet(got) \cap ToSet(c) = {}
                       /\ \A t \in Listed : /\ t \in ToSet(got) => Ahead(t) < o
                                            /\ t \in ToSet(c) => Ahead(t) < e
    BY <1>1, <1>4 DEF NothingRepeated, o, e
  <2>1. Linear /\ shifts \cap {"entered", "moved", "tied"} = {}
    BY <1>7
  <2>2. Once(got) /\ \A t \in Listed : t \in ToSet(got) => Ahead(t) < o
    BY <2>1 DEF ListInv, NothingRepeated, o
  <2>3. \A t \in Listed : Ahead(t) \in Nat
    BY ListedFinite
  <2>4. ASSUME NEW t \in ToSet(got), t \in ToSet(c) PROVE FALSE
    BY <1>3, <1>5, <2>1, <2>2, <2>3, <2>4
  <2>. QED
    BY <1>3, <2>1, <2>2, <2>4
<1>. QED
  BY <1>8, <1>9, <1>10, <1>11 DEF ListInv

LEMMA ListTasksKeeps == ASSUME ListInv, ListTasks PROVE ListInv'
<1>1. reader = "reading" /\ query.list = "live" /\ part.rows = NaN /\ part.total = NaN
  BY DEF ListTasks, NoPart
<1>2. PICK s \in Sorted : part' = [rows |-> Cut(s), total |-> Cardinality(Listed)]
  BY DEF ListTasks
<1>3. ~Tied
  BY <1>1 DEF Tied
<1>4. shifts' = shifts /\ UNCHANGED <<task, query, page, got, reader, start>>
  BY DEF ListTasks
<1>. QED
  BY <1>1, <1>2, <1>3, <1>4, RowsCome

LEMMA FindPartKeeps == ASSUME ListInv, FindPart PROVE ListInv'
<1>1. PICK s \in Sorted : part' = [part EXCEPT !.rows = Cut(s)]
  BY DEF FindPart
<1>2. part \in Pageful
  BY DEF ListInv, ListBase, FindPart
<1>3. part' = [rows |-> Cut(s), total |-> part.total]
  BY <1>1, <1>2 DEF Pageful
<1>4. /\ reader = "reading" /\ part.rows = NaN /\ shifts' = shifts \cup (IF Tied THEN {"tied"} ELSE {})
      /\ UNCHANGED <<task, query, page, got, reader, start>>
  BY DEF FindPart
<1>. QED
  BY <1>3, <1>4, RowsCome

LEMMA CountAllKeeps == ASSUME ListInv, CountAll PROVE ListInv'
<1>1. /\ reader = "reading" /\ part.total = NaN /\ part' = [part EXCEPT !.total = Cardinality(Listed)]
      /\ UNCHANGED <<task, query, page, got, reader, start, shifts>>
  BY DEF CountAll
<1>2. /\ Listed' = Listed /\ Limit' = Limit /\ FirstPage' = FirstPage /\ \A t : Ahead(t)' = Ahead(t)
      /\ task \in [Tasks -> TaskRecord] /\ query \in Queries /\ page \in 1..Largest(FirstPage, Cardinality(Tasks))
      /\ part \in Pageful /\ (part.rows = NaN \/ Len(part.rows) <= Limit)
      /\ got \in Seq(Tasks) /\ start \subseteq Tasks /\ shifts \subseteq Shifts
  BY <1>1, OrderStays DEF ListInv, ListBase
<1>3. /\ Cardinality(Listed) \in 0..Cardinality(Tasks) /\ Cardinality(Listed) \in Nat
      /\ Limit \in Nat \ {0} /\ FirstPage \in Nat \ {0} /\ page \in Nat \ {0}
  <2>1. Limit \in Nat \ {0} /\ FirstPage \in Nat \ {0} /\ Cardinality(Tasks) \in Nat /\ Cardinality(Listed) \in 0..Cardinality(Tasks)
    BY <1>2, QueryBounds, ListedFinite
  <2>. QED
    BY <1>2, <2>1 DEF Largest
<1>. DEFINE n == Cardinality(Listed)
            e == page * Limit
<1>. HIDE DEF n
<1>4. part' \in Pageful /\ part'.rows = part.rows /\ part'.total = n
  BY <1>1, <1>2, <1>3 DEF Pageful, n
<1>5. e \in Nat
  BY <1>3
<1>. HIDE DEF e
<1>6. ListBase'
  BY <1>1, <1>2, <1>4 DEF ListBase, ListInv
<1>7. \A t : Read(t)' <=> Read(t)
  BY <1>1, <1>4 DEF Read
<1>8. NothingMissed'
  <2>. SUFFICES ASSUME FirstPage = 1, shifts \cap {"left", "moved", "torn", "tied"} = {}
                PROVE  /\ \A t \in start :
                           /\ t \in Listed
                           /\ Read(t) \/ (IF part.rows = NaN THEN page - 1 ELSE page) * Limit <= Ahead(t)
                           /\ part.rows # NaN => Read(t) \/ e < n
    BY <1>1, <1>2, <1>4, <1>7 DEF NothingMissed, e, n
  <2>1. \A t \in start : /\ t \in Listed
                         /\ Read(t) \/ (IF part.rows = NaN THEN page - 1 ELSE page) * Limit <= Ahead(t)
    BY <1>1 DEF ListInv, NothingMissed
  <2>2. ASSUME NEW t \in start, part.rows # NaN, ~Read(t) PROVE e < n
    <3>1. e <= Ahead(t) /\ t \in Listed
      BY <2>1, <2>2 DEF e
    <3>2. Ahead(t) \in Nat /\ Ahead(t) < n
      BY <1>2, <3>1, AheadLess, ListedFinite DEF n
    <3>. QED
      BY <1>3, <1>5, <3>1, <3>2 DEF n
  <2>. QED
    BY <2>1, <2>2
<1>9. PagesMissNothing'
  BY <1>1 DEF PagesMissNothing
<1>10. NothingRepeated'
  BY <1>1, <1>2, <1>4 DEF NothingRepeated, ListInv
<1>. QED
  BY <1>6, <1>8, <1>9, <1>10 DEF ListInv

(* The reader turns the page: what was read is got, and the places that are  *)
(* left are behind the new page; at the last there are none.                 *)
LEMMA TurnKeeps == ASSUME ListInv, Turn PROVE ListInv'
<1>. DEFINE n == part.total
            e == page * Limit
<1>1. /\ reader = "reading" /\ part.rows # NaN /\ n # NaN
      /\ got' = got \o part.rows /\ part' = NoPart
      /\ IF page < Ceil(n, Limit) THEN page' = page + 1 /\ reader' = reader ELSE reader' = "done" /\ page' = page
      /\ UNCHANGED <<task, query, start, shifts>>
  BY DEF Turn
<1>2. /\ Listed' = Listed /\ Limit' = Limit /\ FirstPage' = FirstPage /\ \A t : Ahead(t)' = Ahead(t)
      /\ task \in [Tasks -> TaskRecord] /\ query \in Queries /\ page \in 1..Largest(FirstPage, Cardinality(Tasks))
      /\ part \in Pageful /\ part.rows \in Seq(Tasks) /\ n \in 0..Cardinality(Tasks)
      /\ got \in Seq(Tasks) /\ start \subseteq Tasks /\ shifts \subseteq Shifts
  BY <1>1, OrderStays DEF ListInv, ListBase, Pageful
<1>3. /\ Limit \in Nat \ {0} /\ FirstPage \in Nat \ {0} /\ page \in Nat \ {0} /\ Cardinality(Tasks) \in Nat /\ n \in Nat
  <2>1. Limit \in Nat \ {0} /\ FirstPage \in Nat \ {0} /\ Cardinality(Tasks) \in Nat
    BY <1>2, QueryBounds, ListedFinite
  <2>. QED
    BY <1>2, <2>1 DEF Largest
<1>. HIDE DEF n, e
<1>4. /\ Ceil(n, Limit) \in Nat /\ Ceil(n, Limit) <= n
      /\ page < Ceil(n, Limit) <=> e < n
  BY <1>3, CeilCounts DEF e
<1>5. e \in Nat /\ ((page + 1) - 1) * Limit = e
  BY <1>3 DEF e
<1>6. part' \in Pageful /\ part'.rows = NaN /\ part'.total = NaN
  BY <1>1 DEF Pageful, NoPart
<1>7. got' \in Seq(Tasks) /\ ToSet(got') = ToSet(got) \cup ToSet(part.rows)
  <2>1. /\ got' \in Seq(Tasks) /\ Len(got') = Len(got) + Len(part.rows)
        /\ \A k \in 1..Len(got) : got'[k] = got[k]
        /\ \A k \in 1..Len(part.rows) : got'[Len(got) + k] = part.rows[k]
    BY <1>1, <1>2
  <2>2. /\ DOMAIN got' = 1..Len(got') /\ DOMAIN got = 1..Len(got) /\ DOMAIN part.rows = 1..Len(part.rows)
        /\ Len(got) \in Nat /\ Len(part.rows) \in Nat
    BY <1>2, <2>1
  <2>3. ASSUME NEW k \in DOMAIN got' PROVE got'[k] \in ToSet(got) \cup ToSet(part.rows)
    <3>1. CASE k <= Len(got)
      BY <2>1, <2>2, <3>1 DEF ToSet
    <3>2. CASE k > Len(got)
      <4>1. k - Len(got) \in 1..Len(part.rows) /\ Len(got) + (k - Len(got)) = k
        BY <2>1, <2>2, <3>2
      <4>2. got'[k] = part.rows[k - Len(got)]
        BY <2>1, <4>1
      <4>. QED
        BY <2>2, <4>1, <4>2 DEF ToSet
    <3>. QED
      BY <2>1, <2>2, <3>1, <3>2
  <2>4. ASSUME NEW k \in DOMAIN got PROVE got[k] \in ToSet(got')
    <3>1. k \in DOMAIN got' /\ got'[k] = got[k]
      BY <2>1, <2>2
    <3>. QED
      BY <3>1 DEF ToSet
  <2>5. ASSUME NEW k \in DOMAIN part.rows PROVE part.rows[k] \in ToSet(got')
    <3>1. Len(got) + k \in DOMAIN got' /\ got'[Len(got) + k] = part.rows[k]
      BY <2>1, <2>2
    <3>. QED
      BY <3>1 DEF ToSet
  <2>6. ToSet(got') \subseteq ToSet(got) \cup ToSet(part.rows)
    BY <2>3 DEF ToSet
  <2>7. ToSet(got) \subseteq ToSet(got') /\ ToSet(part.rows) \subseteq ToSet(got')
    BY <2>4, <2>5 DEF ToSet
  <2>. QED
    BY <2>1, <2>6, <2>7
<1>8. ListBase'
  <2>1. page' \in 1..Largest(FirstPage, Cardinality(Tasks))
    BY <1>1, <1>2, <1>3, <1>4 DEF Largest
  <2>. QED
    BY <1>1, <1>2, <1>6, <1>7, <2>1 DEF ListBase
<1>9. ASSUME FirstPage = 1, shifts \cap {"left", "moved", "torn", "tied"} = {}, NEW t \in start
      PROVE  t \in Listed /\ (t \in ToSet(got') \/ (e <= Ahead(t) /\ e < n))
  <2>1. t \in Listed /\ (Read(t) \/ page * Limit <= Ahead(t)) /\ (Read(t) \/ page * Limit < part.total)
    BY <1>1, <1>9 DEF ListInv, NothingMissed, n
  <2>. QED
    BY <1>7, <2>1 DEF Read, e, n
<1>10. NothingMissed'
  <2>1. CASE e < n
    <3>1. page' = page + 1
      BY <1>1, <1>4, <2>1
    <3>2. (page' - 1) * Limit = e
      BY <1>5, <3>1
    <3>. SUFFICES ASSUME FirstPage = 1, shifts \cap {"left", "moved", "torn", "tied"} = {}, NEW t \in start
                  PROVE  t \in Listed /\ (Read(t)' \/ (page' - 1) * Limit <= Ahead(t))
      BY <1>1, <1>2, <1>6 DEF NothingMissed
    <3>. QED
      BY <1>9, <3>2 DEF Read
  <2>2. CASE ~(e < n)
    <3>1. reader' = "done"
      BY <1>1, <1>4, <2>2
    <3>. QED
      BY <3>1 DEF NothingMissed
  <2>. QED
    BY <2>1, <2>2
<1>11. PagesMissNothing'
  <2>. SUFFICES ASSUME reader' = "done", FirstPage = 1, shifts \cap {"left", "moved", "torn", "tied"} = {}, NEW t \in start
                PROVE  t \in ToSet(got')
    BY <1>1, <1>2 DEF PagesMissNothing
  <2>1. ~(e < n)
    BY <1>1, <1>4
  <2>. QED
    BY <1>9, <2>1
<1>12. NothingRepeated'
  <2>. SUFFICES ASSUME shifts \cap {"entered", "moved", "tied"} = {}
                PROVE  /\ Once(got')
                       /\ reader' = "reading" =>
                            \A t \in Listed : t \in ToSet(got') => Ahead(t) < (page' - 1) * Limit
    BY <1>1, <1>2, <1>6 DEF NothingRepeated
  <2>1. /\ Once(got) /\ Once(part.rows) /\ ToSet(got) \cap ToSet(part.rows) = {}
        /\ \A t \in Listed : /\ t \in ToSet(got) => Ahead(t) < (page - 1) * Limit
                             /\ t \in ToSet(part.rows) => Ahead(t) < page * Limit
    BY <1>1 DEF ListInv, NothingRepeated
  <2>2. Once(got')
    <3>1. /\ Len(got') = Len(got) + Len(part.rows) /\ DOMAIN got' = 1..Len(got')
          /\ DOMAIN got = 1..Len(got) /\ DOMAIN part.rows = 1..Len(part.rows)
          /\ Len(got) \in Nat /\ Len(part.rows) \in Nat
          /\ \A k \in 1..Len(got) : got'[k] = got[k]
          /\ \A k \in 1..Len(part.rows) : got'[Len(got) + k] = part.rows[k]
      BY <1>1, <1>2
    <3>. DEFINE a == Len(got)
    <3>. HIDE DEF a
    <3>2. ASSUME NEW k \in DOMAIN got'
          PROVE  \/ k \in DOMAIN got /\ got'[k] = got[k] /\ got'[k] \in ToSet(got)
                 \/ k - a \in DOMAIN part.rows /\ got'[k] = part.rows[k - a] /\ got'[k] \in ToSet(part.rows)
      <4>1. CASE k <= Len(got)
        BY <3>1, <4>1 DEF ToSet
      <4>2. CASE k > Len(got)
        <5>1. k - Len(got) \in 1..Len(part.rows) /\ Len(got) + (k - Len(got)) = k
          BY <3>1, <4>2
        <5>2. got'[k] = part.rows[k - a]
          BY <3>1, <5>1 DEF a
        <5>3. k - a \in DOMAIN part.rows
          BY <3>1, <5>1 DEF a
        <5>. QED
          BY <5>2, <5>3 DEF ToSet
      <4>. QED
        BY <3>1, <4>1, <4>2
    <3>3. ASSUME NEW j \in DOMAIN got', NEW k \in DOMAIN got', got'[j] = got'[k] PROVE j = k
      <4>1. CASE j \in DOMAIN got /\ got'[j] = got[j] /\ k \in DOMAIN got /\ got'[k] = got[k]
        BY <2>1, <3>3, <4>1 DEF Once
      <4>2. CASE /\ j - a \in DOMAIN part.rows /\ got'[j] = part.rows[j - a]
                 /\ k - a \in DOMAIN part.rows /\ got'[k] = part.rows[k - a]
        <5>1. j - a = k - a
          BY <2>1, <3>3, <4>2 DEF Once
        <5>2. j \in Int /\ k \in Int /\ a \in Int
          BY <3>1 DEF a
        <5>. QED
          BY <5>1, <5>2
      <4>. QED
        BY <2>1, <3>2, <3>3, <4>1, <4>2
    <3>. QED
      BY <3>3 DEF Once
  <2>3. ASSUME reader' = "reading", NEW t \in Listed, t \in ToSet(got') PROVE Ahead(t) < (page' - 1) * Limit
    <3>1. (page' - 1) * Limit = e
      BY <1>1, <1>5, <2>3
    <3>2. Ahead(t) < (page - 1) * Limit \/ Ahead(t) < e
      BY <1>7, <2>1, <2>3 DEF e
    <3>3. (page - 1) * Limit \in Nat /\ (page - 1) * Limit <= e
      <4>1. \A x \in Nat, y \in Nat : x * y \in Nat /\ (x + 1) * y = x * y + y
        OBVIOUS
      <4>2. page - 1 \in Nat /\ page = (page - 1) + 1 /\ Limit \in Nat
        BY <1>3
      <4>3. (page - 1) * Limit \in Nat /\ page * Limit = (page - 1) * Limit + Limit
        BY <4>1, <4>2
      <4>. QED
        BY <1>3, <4>3 DEF e
    <3>4. Ahead(t) \in Nat
      BY ListedFinite
    <3>. QED
      BY <1>5, <3>1, <3>2, <3>3, <3>4
  <2>. QED
    BY <2>2, <2>3
<1>. QED
  BY <1>8, <1>10, <1>11, <1>12 DEF ListInv

LEMMA ChangedKeeps == ASSUME ListInv, Changed PROVE ListInv'
<1>1. ListBase
  BY DEF ListInv
<1>2. /\ reader = "reading" /\ UNCHANGED <<query, page, part, got, reader, start>>
      /\ task' \in [Tasks -> TaskRecord] /\ shifts \subseteq shifts' /\ shifts' \subseteq Shifts
      /\ Limit' = Limit /\ FirstPage' = FirstPage
      /\ "torn" \notin shifts' => (part.rows = NaN <=> part.total = NaN)
      /\ "left" \notin shifts' => Listed \subseteq Listed'
      /\ "entered" \notin shifts' => Listed' \subseteq Listed
  BY <1>1, ChangedEffect
<1>3. ListBase'
  BY <1>1, <1>2 DEF ListBase
<1>4. \A t : Read(t)' <=> Read(t)
  BY <1>2 DEF Read
<1>5. query \in Queries /\ page \in Nat /\ page # 0 /\ Limit \in Nat
  <2>1. query \in Queries /\ page \in 1..Largest(FirstPage, Cardinality(Tasks))
    BY <1>1, <1>2 DEF ListBase
  <2>2. Limit \in Nat /\ FirstPage \in Nat /\ Cardinality(Tasks) \in Nat
    BY <2>1, QueryBounds, ListedFinite
  <2>. QED
    BY <2>1, <2>2 DEF Largest
<1>6. page * Limit \in Int /\ (page - 1) * Limit \in Int
  BY <1>5
<1>7. NothingMissed'
  <2>. DEFINE o == (IF part.rows = NaN THEN page - 1 ELSE page) * Limit
  <2>. SUFFICES ASSUME FirstPage = 1, shifts' \cap {"left", "moved", "torn", "tied"} = {}
                PROVE  /\ \A t \in start : /\ t \in Listed' /\ (Read(t) \/ o <= Ahead(t)')
                                           /\ part.rows # NaN /\ part.total # NaN => Read(t) \/ page * Limit < part.total
                       /\ ~(part.rows = NaN /\ part.total # NaN)
    BY <1>2, <1>4 DEF NothingMissed
  <2>1. /\ \A t \in start : /\ t \in Listed /\ (Read(t) \/ o <= Ahead(t))
                            /\ part.rows # NaN /\ part.total # NaN => Read(t) \/ page * Limit < part.total
    BY <1>2 DEF ListInv, NothingMissed
  <2>2. o \in Int
    BY <1>6
  <2>. HIDE DEF o
  <2>3. ASSUME NEW t \in start PROVE t \in Listed' /\ (Read(t) \/ o <= Ahead(t)')
    <3>1. t \in Listed \cap Listed'
      BY <1>2, <2>1
    <3>2. Ahead(t) <= Ahead(t)' /\ Ahead(t) \in Nat /\ Ahead(t)' \in Nat
      BY <1>1, <3>1, AheadMoves
    <3>. QED
      BY <2>1, <2>2, <3>1, <3>2
  <2>. QED
    BY <1>2, <2>1, <2>3
<1>8. PagesMissNothing'
  BY <1>2 DEF PagesMissNothing
<1>9. NothingRepeated'
  <2>. SUFFICES ASSUME shifts' \cap {"entered", "moved", "tied"} = {}
                PROVE  /\ Once(got)
                       /\ part.rows # NaN => Once(part.rows) /\ ToSet(got) \cap ToSet(part.rows) = {}
                       /\ \A t \in Listed' :
                           /\ t \in ToSet(got) => Ahead(t)' < (page - 1) * Limit
                           /\ part.rows # NaN /\ t \in ToSet(part.rows) => Ahead(t)' < page * Limit
    BY <1>2 DEF NothingRepeated
  <2>1. /\ Once(got)
        /\ part.rows # NaN => Once(part.rows) /\ ToSet(got) \cap ToSet(part.rows) = {}
        /\ \A t \in Listed :
             /\ t \in ToSet(got) => Ahead(t) < (page - 1) * Limit
             /\ part.rows # NaN /\ t \in ToSet(part.rows) => Ahead(t) < page * Limit
    BY <1>2 DEF ListInv, NothingRepeated
  <2>2. ASSUME NEW t \in Listed' PROVE t \in Listed /\ Ahead(t)' <= Ahead(t) /\ Ahead(t) \in Nat /\ Ahead(t)' \in Nat
    <3>1. t \in Listed \cap Listed'
      BY <1>2
    <3>. QED
      BY <1>1, <3>1, AheadMoves
  <2>3. ASSUME NEW t \in Listed', NEW z \in Int, Ahead(t) < z PROVE Ahead(t)' < z
    BY <2>2, <2>3
  <2>. QED
    BY <1>6, <2>1, <2>2, <2>3
<1>. QED
  BY <1>3, <1>7, <1>8, <1>9 DEF ListInv

LEMMA ListIsSafe == ASSUME ListInv PROVE ListSafety
<1>1. ListTypeOK
  <2>1. query \in Queries /\ reader # "off" => Limit \in 1..MaxLimit
    BY QueryBounds
  <2>. QED
    BY <2>1 DEF ListInv, ListBase, ListTypeOK, Shifts
<1>2. PagesRepeatNothing
  <2>. SUFFICES ASSUME reader # "off", shifts \cap {"entered", "moved", "tied"} = {}
                PROVE  Cardinality(ToSet(got)) = Len(got)
    BY DEF PagesRepeatNothing
  <2>1. Once(got) /\ got \in Seq(Tasks)
    BY DEF ListInv, ListBase, NothingRepeated
  <2>2. Len(got) \in Nat /\ DOMAIN got = 1..Len(got)
    BY <2>1
  <2>3. got \in [1..Len(got) -> ToSet(got)]
    BY <2>1, <2>2 DEF ToSet
  <2>4. got \in Bijection(1..Len(got), ToSet(got))
    BY <2>1, <2>2, <2>3 DEF Once, ToSet, Bijection, Injection, Surjection, IsInjective
  <2>. QED
    BY <2>2, <2>4, FS_CountingElements DEF ExistsBijection
<1>. QED
  BY <1>1, <1>2 DEF ListInv, ListSafety

(* Pages stay in bounds; whoever turns them from the first on misses a task  *)
(* only if one left, was moved, came between the two commands or had no      *)
(* place of its own; and meets none twice unless one came in or was moved.   *)
THEOREM ListsAreSafe == FormatsSpec => []ListSafety
<1>1. FormatsInit => ListInv
  BY ListStarts DEF FormatsInit
<1>2. ListInv /\ [FormatsNext]_<<importVars, listVars, calendarVars>> => ListInv'
  <2>. SUFFICES ASSUME ListInv, [FormatsNext]_<<importVars, listVars, calendarVars>> PROVE ListInv'
    OBVIOUS
  <2>1. CASE ListNext
    BY <2>1, ListTasksKeeps, FindPartKeeps, CountAllKeeps, TurnKeeps, ChangedKeeps DEF ListNext
  <2>2. CASE UNCHANGED listVars
    BY <2>2, ListStays
  <2>. QED
    BY <2>1, <2>2 DEF FormatsNext
<1>3. ListInv => ListSafety
  BY ListIsSafe
<1>. QED
  BY <1>1, <1>2, <1>3, PTL DEF FormatsSpec

-----------------------------------------------------------------------------
(* Due dates: the date a recurring task is due exists, and the next one is   *)
(* as many days later as its rule says, in every year.                       *)
Dates == {date \in [y : Nat, m : 1..12, d : 1..31] : date.d <= Days(date.y, date.m)}
YearStart(y) == y * 365 + (y + 3) \div 4 - (y + 99) \div 100 + (y + 399) \div 400
MonthStart(y, m) ==
    CASE m = 1 -> 0 [] m = 2 -> 31
      [] OTHER -> Days(y, 2) + (CASE m = 3 -> 31 [] m = 4 -> 62 [] m = 5 -> 92 [] m = 6 -> 123 [] m = 7 -> 153
                                  [] m = 8 -> 184 [] m = 9 -> 215 [] m = 10 -> 245 [] m = 11 -> 276 [] m = 12 -> 306)

LEMMA DaysOfMonths ==
    ASSUME NEW y \in Nat, NEW m \in 1..12
    PROVE  /\ Days(y, m) \in 28..31 /\ MonthStart(y, m) \in Nat
           /\ m < 12 => MonthStart(y, m + 1) = MonthStart(y, m) + Days(y, m)
           /\ MonthStart(y, 12) + Days(y, 12) = 337 + Days(y, 2)
<1>1. Days(y, 2) \in {28, 29}
  BY DEF Days
<1>2. m \in {1, 2, 3, 4, 5, 6, 7, 8, 9, 10, 11, 12}
  OBVIOUS
<1>3. /\ Days(y, 1) = 31 /\ Days(y, 3) = 31 /\ Days(y, 5) = 31 /\ Days(y, 7) = 31 /\ Days(y, 8) = 31
      /\ Days(y, 10) = 31 /\ Days(y, 12) = 31
      /\ Days(y, 4) = 30 /\ Days(y, 6) = 30 /\ Days(y, 9) = 30 /\ Days(y, 11) = 30
  BY DEF Days
<1>4. Days(y, m) \in 28..31
  BY <1>1, <1>2, <1>3
<1>5. /\ MonthStart(y, 1) = 0 /\ MonthStart(y, 2) = 31 /\ MonthStart(y, 3) = 31 + Days(y, 2)
      /\ MonthStart(y, 4) = 62 + Days(y, 2) /\ MonthStart(y, 5) = 92 + Days(y, 2) /\ MonthStart(y, 6) = 123 + Days(y, 2)
      /\ MonthStart(y, 7) = 153 + Days(y, 2) /\ MonthStart(y, 8) = 184 + Days(y, 2) /\ MonthStart(y, 9) = 215 + Days(y, 2)
      /\ MonthStart(y, 10) = 245 + Days(y, 2) /\ MonthStart(y, 11) = 276 + Days(y, 2) /\ MonthStart(y, 12) = 306 + Days(y, 2)
  BY <1>1 DEF MonthStart
<1>. QED
  BY <1>1, <1>2, <1>3, <1>4, <1>5

LEMMA DaysBound == ASSUME NEW y \in Nat, NEW m \in 1..12 PROVE Days(y, m) \in 28..31 /\ MonthStart(y, m) \in Nat
BY DaysOfMonths

LEMMA MonthAfter ==
    ASSUME NEW y \in Nat, NEW m \in 1..12, m # 12 PROVE MonthStart(y, m + 1) = MonthStart(y, m) + Days(y, m)
<1>1. m < 12
  OBVIOUS
<1>. QED
  BY <1>1, DaysOfMonths

LEMMA YearEnds == ASSUME NEW y \in Nat PROVE MonthStart(y, 12) + Days(y, 12) = 337 + Days(y, 2)
<1>1. 12 \in 1..12
  OBVIOUS
<1>. QED
  BY <1>1, DaysOfMonths

LEMMA YearHasItsDays ==
    ASSUME NEW y \in Nat
    PROVE  YearStart(y) \in Int /\ YearStart(y + 1) = YearStart(y) + 337 + Days(y, 2)
<1>. DEFINE q4 == (y + 3) \div 4     r4 == (y + 4) \div 4
            q100 == (y + 99) \div 100  r100 == (y + 100) \div 100
            q400 == (y + 399) \div 400 r400 == (y + 400) \div 400
<1>1. q4 \in Int /\ r4 = q4 + (IF y % 4 = 0 THEN 1 ELSE 0)
  OBVIOUS
<1>2. q100 \in Int /\ r100 = q100 + (IF y % 100 = 0 THEN 1 ELSE 0)
  OBVIOUS
<1>3. q400 \in Int /\ r400 = q400 + (IF y % 400 = 0 THEN 1 ELSE 0)
  OBVIOUS
<1>4. (y % 100 = 0 => y % 4 = 0) /\ (y % 400 = 0 => y % 100 = 0)
  OBVIOUS
<1>5. Days(y, 2) = 28 + (IF y % 4 = 0 THEN 1 ELSE 0) - (IF y % 100 = 0 THEN 1 ELSE 0) + (IF y % 400 = 0 THEN 1 ELSE 0)
  BY <1>4 DEF Days, Leap
<1>6. YearStart(y) = y * 365 + q4 - q100 + q400
  BY DEF YearStart
<1>7. YearStart(y + 1) = (y + 1) * 365 + r4 - r100 + r400
  <2>1. (y + 1) + 3 = y + 4 /\ (y + 1) + 99 = y + 100 /\ (y + 1) + 399 = y + 400
    OBVIOUS
  <2>. QED
    BY <2>1 DEF YearStart
<1>. HIDE DEF q4, r4, q100, r100, q400, r400
<1>. QED
  BY <1>1, <1>2, <1>3, <1>5, <1>6, <1>7

(* the recursion of Ordinal, over the months of one year *)
LEMMA OrdinalOf ==
    ASSUME NEW date, date.y \in Nat, date.m \in 1..12
    PROVE  Ordinal(date) = YearStart(date.y) + MonthStart(date.y, date.m) + date.d
<1>. DEFINE y == date.y
            f == [m \in 1..12 |-> MonthStart(y, m)]
            rec(g) == [m \in 1..12 |-> IF m = 1 THEN 0 ELSE g[m - 1] + Days(y, m - 1)]
            months == CHOOSE g : g = rec(g)
<1>1. f = rec(f)
  <2>1. ASSUME NEW m \in 1..12 PROVE f[m] = IF m = 1 THEN 0 ELSE f[m - 1] + Days(y, m - 1)
    <3>1. CASE m = 1
      BY <3>1 DEF MonthStart
    <3>2. CASE m # 1
      <4>1. m - 1 \in 1..12 /\ m - 1 # 12 /\ (m - 1) + 1 = m
        BY <3>2
      <4>2. MonthStart(y, (m - 1) + 1) = MonthStart(y, m - 1) + Days(y, m - 1)
        BY <4>1, MonthAfter
      <4>. QED
        BY <3>2, <4>1, <4>2
    <3>. QED
      BY <3>1, <3>2
  <2>. QED
    BY <2>1
<1>2. months = rec(months)
  BY <1>1
<1>. HIDE DEF months
<1>3. ASSUME NEW m \in 1..12 PROVE months[m] = IF m = 1 THEN 0 ELSE months[m - 1] + Days(y, m - 1)
  BY <1>2
<1>4. months[date.m] = MonthStart(y, date.m)
  <2>1. months[1] = MonthStart(y, 1)
    BY <1>3 DEF MonthStart
  <2>2. ASSUME NEW m \in 1..11, months[m] = MonthStart(y, m) PROVE months[m + 1] = MonthStart(y, m + 1)
    <3>1. m + 1 \in 1..12 /\ m + 1 # 1 /\ (m + 1) - 1 = m /\ m \in 1..12 /\ m # 12
      OBVIOUS
    <3>2. months[m + 1] = months[m] + Days(y, m)
      BY <1>3, <3>1
    <3>. QED
      BY <2>2, <3>1, <3>2, MonthAfter
  <2>3. /\ months[2] = MonthStart(y, 2) /\ months[3] = MonthStart(y, 3) /\ months[4] = MonthStart(y, 4)
    BY <2>1, <2>2
  <2>4. /\ months[5] = MonthStart(y, 5) /\ months[6] = MonthStart(y, 6) /\ months[7] = MonthStart(y, 7)
    BY <2>2, <2>3
  <2>5. /\ months[8] = MonthStart(y, 8) /\ months[9] = MonthStart(y, 9) /\ months[10] = MonthStart(y, 10)
    BY <2>2, <2>4
  <2>6. /\ months[11] = MonthStart(y, 11) /\ months[12] = MonthStart(y, 12)
    BY <2>2, <2>5
  <2>7. date.m \in {1, 2, 3, 4, 5, 6, 7, 8, 9, 10, 11, 12}
    OBVIOUS
  <2>. QED
    BY <2>1, <2>3, <2>4, <2>5, <2>6, <2>7
<1>5. Ordinal(date) = YearStart(y) + months[date.m] + date.d
  <2>1. [z \in 0..date.y |-> z * 365 + (z + 3) \div 4 - (z + 99) \div 100 + (z + 399) \div 400][date.y] = YearStart(y)
    BY DEF YearStart
  <2>. QED
    BY <2>1 DEF Ordinal, months
<1>. QED
  BY <1>4, <1>5

(* a month begins where the one before it ends *)
LEMMA MonthsJoin ==
    ASSUME NEW y \in Nat, NEW m \in 1..12
    PROVE  YearStart(NextMonth(y, m).y) + MonthStart(NextMonth(y, m).y, NextMonth(y, m).m)
           = YearStart(y) + MonthStart(y, m) + Days(y, m)
<1>. DEFINE n == NextMonth(y, m)
<1>1. /\ Days(y, m) \in 28..31 /\ Days(y, 2) \in 28..31 /\ MonthStart(y, m) \in Nat /\ YearStart(y) \in Int
      /\ YearStart(y + 1) = YearStart(y) + 337 + Days(y, 2)
  <2>1. Days(y, m) \in 28..31 /\ MonthStart(y, m) \in Nat
    BY DaysBound
  <2>2. 2 \in 1..12
    OBVIOUS
  <2>3. Days(y, 2) \in 28..31
    BY <2>2, DaysBound
  <2>. QED
    BY <2>1, <2>3, YearHasItsDays
<1>2. CASE m = 12
  <2>1. n.y = y + 1 /\ n.m = 1
    BY <1>2 DEF NextMonth
  <2>2. MonthStart(y + 1, 1) = 0
    BY DEF MonthStart
  <2>3. MonthStart(y, m) + Days(y, m) = 337 + Days(y, 2)
    BY <1>2, YearEnds
  <2>. QED
    BY <1>1, <2>1, <2>2, <2>3
<1>3. CASE m # 12
  <2>1. n.y = y /\ n.m = m + 1
    BY <1>3 DEF NextMonth
  <2>2. MonthStart(y, m + 1) = MonthStart(y, m) + Days(y, m)
    BY <1>3, MonthAfter
  <2>. QED
    BY <1>1, <2>1, <2>2
<1>. QED
  BY <1>2, <1>3

(* the day d of a month, up to a short month too far *)
LEMMA DateExists ==
    ASSUME NEW y \in Nat, NEW m \in 1..12, NEW d \in 1..(Days(y, m) + 28)
    PROVE  DateOf(y, m, d) \in Dates /\ Ordinal(DateOf(y, m, d)) = YearStart(y) + MonthStart(y, m) + d
<1>. DEFINE n == NextMonth(y, m)
<1>1. Days(y, m) \in 28..31
  BY DaysBound
<1>2. CASE d <= Days(y, m)
  <2>. DEFINE r == [y |-> y, m |-> m, d |-> d]
  <2>1. DateOf(y, m, d) = r /\ r \in Dates
    BY <1>1, <1>2 DEF DateOf, Dates
  <2>2. Ordinal(r) = YearStart(y) + MonthStart(y, m) + d
    BY OrdinalOf
  <2>. QED
    BY <2>1, <2>2
<1>3. CASE ~(d <= Days(y, m))
  <2>. DEFINE r == [y |-> n.y, m |-> n.m, d |-> d - Days(y, m)]
  <2>1. n.y \in Nat /\ n.m \in 1..12
    BY DEF NextMonth
  <2>2. Days(n.y, n.m) \in 28..31 /\ MonthStart(n.y, n.m) \in Nat
    BY <2>1, DaysBound
  <2>3. d - Days(y, m) \in 1..28
    BY <1>1, <1>3
  <2>4. DateOf(y, m, d) = r
    BY <1>3 DEF DateOf
  <2>. HIDE DEF n
  <2>5. r \in [y : Nat, m : 1..12, d : 1..31] /\ r.d <= Days(r.y, r.m)
    <3>. DEFINE k == d - Days(y, m)
    <3>1. k \in 1..31 /\ k <= Days(n.y, n.m)
      BY <2>2, <2>3
    <3>. HIDE DEF k
    <3>2. [y |-> n.y, m |-> n.m, d |-> k] \in [y : Nat, m : 1..12, d : 1..31]
      BY <2>1, <3>1
    <3>. QED
      BY <3>1, <3>2 DEF k
  <2>6. Ordinal(r) = YearStart(n.y) + MonthStart(n.y, n.m) + (d - Days(y, m))
    BY <2>1, OrdinalOf
  <2>7. YearStart(n.y) + MonthStart(n.y, n.m) = YearStart(y) + MonthStart(y, m) + Days(y, m)
    BY MonthsJoin DEF n
  <2>8. YearStart(n.y) \in Int /\ YearStart(y) \in Int /\ MonthStart(y, m) \in Nat
    BY <2>1, YearHasItsDays, DaysBound
  <2>9. r \in Dates
    BY <2>5 DEF Dates
  <2>10. YearStart(n.y) + MonthStart(n.y, n.m) + (d - Days(y, m)) = YearStart(y) + MonthStart(y, m) + d
    BY <1>1, <2>2, <2>7, <2>8
  <2>. QED
    BY <2>4, <2>6, <2>9, <2>10
<1>. QED
  BY <1>2, <1>3

LEMMA NextDueDateSteps ==
    ASSUME NEW b \in Dates, NEW recurrence \in {"daily", "weekly", "monthly"}
    PROVE  /\ NextDueDate(b, recurrence) \in Dates
           /\ Ordinal(NextDueDate(b, recurrence)) - Ordinal(b) \in {1, 7, Days(b.y, b.m)}
<1>. DEFINE y == b.y  m == b.m  d == b.d  n == NextMonth(b.y, b.m)
<1>1. y \in Nat /\ m \in 1..12 /\ d \in 1..31 /\ d <= Days(y, m)
  BY DEF Dates
<1>2. n.y \in Nat /\ n.m \in 1..12 /\ n = NextMonth(y, m)
  BY <1>1 DEF NextMonth
<1>3. /\ Days(y, m) \in 28..31 /\ MonthStart(y, m) \in Nat /\ YearStart(y) \in Int
      /\ Days(n.y, n.m) \in 28..31 /\ MonthStart(n.y, n.m) \in Nat /\ YearStart(n.y) \in Int
  BY <1>1, <1>2, DaysBound, YearHasItsDays
<1>4. Ordinal(b) = YearStart(y) + MonthStart(y, m) + d
  BY <1>1, OrdinalOf
<1>. HIDE DEF y, m, d, n
<1>5. CASE recurrence = "daily"
  <2>1. NextDueDate(b, recurrence) = DateOf(y, m, d + 1)
    BY <1>5 DEF NextDueDate, y, m, d
  <2>2. d + 1 \in 1..(Days(y, m) + 28)
    BY <1>1, <1>3
  <2>. QED
    BY <1>1, <1>3, <1>4, <2>1, <2>2, DateExists DEF y, m
<1>6. CASE recurrence = "weekly"
  <2>1. NextDueDate(b, recurrence) = DateOf(y, m, d + 7)
    BY <1>6 DEF NextDueDate, y, m, d
  <2>2. d + 7 \in 1..(Days(y, m) + 28)
    BY <1>1, <1>3
  <2>. QED
    BY <1>1, <1>3, <1>4, <2>1, <2>2, DateExists DEF y, m
<1>7. CASE recurrence = "monthly"
  <2>1. NextDueDate(b, recurrence) = DateOf(n.y, n.m, d)
    BY <1>7 DEF NextDueDate, y, m, d, n
  <2>2. d \in 1..(Days(n.y, n.m) + 28)
    BY <1>1, <1>3
  <2>3. /\ DateOf(n.y, n.m, d) \in Dates
        /\ Ordinal(DateOf(n.y, n.m, d)) = YearStart(n.y) + MonthStart(n.y, n.m) + d
    BY <1>2, <2>2, DateExists
  <2>4. YearStart(n.y) + MonthStart(n.y, n.m) = YearStart(y) + MonthStart(y, m) + Days(y, m)
    BY <1>1, <1>2, <1>3, MonthsJoin
  <2>5. Ordinal(DateOf(n.y, n.m, d)) - Ordinal(b) = Days(y, m)
    BY <1>1, <1>3, <1>4, <2>3, <2>4
  <2>. QED
    BY <2>1, <2>3, <2>5 DEF y, m
<1>. QED
  BY <1>5, <1>6, <1>7

DueInv == due # None => due \in Dates

(* A recurring task comes again after a day, after a week, or after as many  *)
(* days as the month has that it was due in, from any date of any year.      *)
THEOREM DueDatesStep == FormatsSpec => DueSteps
<1>. DEFINE stay == UNCHANGED due
<1>1. FormatsInit => DueInv
  <2>1. \A b \in Bases : b \in Dates
    BY BasesExist DEF Dates
  <2>. QED
    BY <2>1 DEF FormatsInit, CalendarInit, CalendarOff, DueInv
<1>2. ASSUME DueInv, [FormatsNext]_<<importVars, listVars, calendarVars>>
      PROVE  DueInv' /\ [due # None => Ordinal(due') - Ordinal(due) \in {1, 7, Days(due.y, due.m)}]_due
  <2>1. CASE stay
    BY <1>2, <2>1 DEF DueInv
  <2>2. ASSUME NEW recurrence \in {"daily", "weekly", "monthly"}, Recur(recurrence)
        PROVE  DueInv' /\ (due # None => Ordinal(due') - Ordinal(due) \in {1, 7, Days(due.y, due.m)})
    <3>1. due \in Dates /\ due' = NextDueDate(due, recurrence)
      BY <1>2, <2>2 DEF DueInv, Recur
    <3>. QED
      BY <3>1, NextDueDateSteps DEF DueInv
  <2>. QED
    BY <1>2, <2>1, <2>2 DEF FormatsNext, CalendarNext, Short, FirstPart, NextPart, LastPart, calendarVars
<1>. QED
  BY <1>1, <1>2, PTL DEF FormatsSpec, DueSteps

-----------------------------------------------------------------------------
(* What FlattenSeq puts together. *)

(* A set of numbers has a least one, and a greatest if it is bounded. *)
LEMMA LeastNumber ==
    ASSUME NEW T \in SUBSET Nat, T # {} PROVE \E n \in T : \A k \in T : n <= k
<1>1. PICK n \in T : \A k \in T : <<k, n>> \notin OpToRel(<, Nat)
  BY NatLessThanWellFounded, WFMin
<1>2. \A k \in T : ~(k < n)
  BY <1>1 DEF OpToRel
<1>. QED
  BY <1>2

LEMMA GreatestNumber ==
    ASSUME NEW T \in SUBSET Nat, T # {}, NEW b \in Nat, \A k \in T : k <= b
    PROVE  \E n \in T : \A k \in T : n >= k
<1>. DEFINE U == {b - k : k \in T}
<1>1. U \in SUBSET Nat /\ U # {}
  <2>1. \A k \in T : b - k \in Nat
    OBVIOUS
  <2>2. PICK k \in T : TRUE
    OBVIOUS
  <2>3. b - k \in U
    OBVIOUS
  <2>. QED
    BY <2>1, <2>3
<1>2. PICK u \in U : \A k \in U : u <= k
  <2>. HIDE DEF U
  <2>. QED
    BY <1>1, LeastNumber
<1>3. PICK n \in T : u = b - n
  BY <1>2
<1>4. \A k \in T : n >= k
  <2>. TAKE k \in T
  <2>1. b - k \in U
    OBVIOUS
  <2>. HIDE DEF U
  <2>. QED
    BY <1>2, <1>3, <2>1
<1>. QED
  BY <1>4

(* Induction over numbers and over sequences, for the members of a set. *)
LEMMA NatSet ==
    ASSUME NEW S, 0 \in S, \A n \in Nat : n \in S => n + 1 \in S PROVE Nat \subseteq S
<1>. DEFINE T == {n \in Nat : n \notin S}
<1>. SUFFICES ASSUME T # {} PROVE FALSE
  OBVIOUS
<1>1. PICK n \in T : \A k \in T : n <= k
  <2>1. T \in SUBSET Nat
    OBVIOUS
  <2>. HIDE DEF T
  <2>. QED
    BY <2>1, LeastNumber
<1>2. n \in Nat /\ n # 0 /\ n - 1 \in Nat /\ ~(n <= n - 1) /\ (n - 1) + 1 = n
  OBVIOUS
<1>3. n - 1 \in S
  BY <1>1, <1>2
<1>. QED
  BY <1>1, <1>2, <1>3

LEMMA SeqSet ==
    ASSUME NEW T, NEW S, <<>> \in S, \A s \in Seq(T), x \in T : s \in S => Append(s, x) \in S
    PROVE  Seq(T) \subseteq S
<1>. DEFINE N == {n \in Nat : \A s \in Seq(T) : Len(s) = n => s \in S}
<1>1. 0 \in N
  OBVIOUS
<1>2. ASSUME NEW n \in Nat, n \in N PROVE n + 1 \in N
  <2>. SUFFICES ASSUME NEW s \in Seq(T), Len(s) = n + 1 PROVE s \in S
    OBVIOUS
  <2>1. s # <<>>
    BY <1>2
  <2>2. PICK p \in Seq(T), x \in T : s = Append(p, x) /\ Len(p) = n
    <3>. DEFINE p == [k \in 1..n |-> s[k]]
    <3>1. p \in Seq(T) /\ Len(p) = n
      OBVIOUS
    <3>2. s = Append(p, s[n + 1]) /\ s[n + 1] \in T
      OBVIOUS
    <3>. HIDE DEF p
    <3>. QED
      BY <3>1, <3>2
  <2>. QED
    BY <1>2, <2>2
<1>. HIDE DEF N
<1>3. Nat \subseteq N
  BY <1>1, <1>2, NatSet
<1>4. \A s \in Seq(T) : Len(s) \in N
  BY <1>3
<1>. QED
  BY <1>4 DEF N

(* FlattenSeq is the last value of a function f, which puts together the     *)
(* sequences up to each of them.                                             *)
Flattens(f, seqs) == \A k \in 1..Len(seqs) : f[k] = IF k = 1 THEN seqs[k] ELSE f[k - 1] \o seqs[k]

LEMMA FlattensExists ==
    ASSUME NEW T, NEW seqs \in Seq(Seq(T)), seqs # <<>>
    PROVE  \E f : Flattens(f, seqs) /\ FlattenSeq(seqs) = f[Len(seqs)]
<1>. DEFINE n == Len(seqs)
            rec(m, f) == [i1 \in 1..m |-> IF i1 = 1 THEN seqs[i1] ELSE f[i1 - 1] \o seqs[i1]]
            flatten == CHOOSE f : f = rec(n, f)
            Can(m) == \E f : f = rec(m, f)
            N == {m \in Nat : m \in 1..n => Can(m)}
<1>1. n \in Nat \ {0} /\ \A k \in 1..n : seqs[k] \in Seq(T)
  OBVIOUS
<1>2. ASSUME NEW m \in Nat, m \in N PROVE m + 1 \in N
  <2>. SUFFICES ASSUME m + 1 \in 1..n PROVE Can(m + 1)
    <3>. HIDE DEF Can
    <3>. QED
      OBVIOUS
  <2>1. CASE m = 0
    <3>. DEFINE f == [i1 \in 1..1 |-> seqs[1]]
    <3>1. f = rec(1, f)
      OBVIOUS
    <3>2. Can(1)
      <4>. HIDE DEF f
      <4>. QED
        BY <3>1
    <3>3. 1 = m + 1
      BY <2>1
    <3>. HIDE DEF Can
    <3>. QED
      BY <3>2, <3>3
  <2>2. CASE m # 0
    <3>1. m \in 1..n
      BY <1>1, <2>2
    <3>2. PICK g : g = rec(m, g)
      <4>1. Can(m)
        <5>. HIDE DEF Can
        <5>. QED
          BY <1>2, <3>1
      <4>. QED
        BY <4>1
    <3>. DEFINE f == [i1 \in 1..(m + 1) |-> IF i1 = m + 1 THEN g[m] \o seqs[m + 1] ELSE g[i1]]
    <3>3. ASSUME NEW k \in 1..(m + 1) PROVE f[k] = IF k = 1 THEN seqs[k] ELSE f[k - 1] \o seqs[k]
      <4>1. CASE k = m + 1
        <5>1. k - 1 = m /\ k - 1 \in 1..(m + 1) /\ k - 1 # m + 1 /\ k # 1
          BY <2>2, <4>1
        <5>2. f[k - 1] = g[m]
          BY <4>1, <5>1
        <5>. QED
          BY <4>1, <5>1, <5>2
      <4>2. CASE k # m + 1
        <5>1. k \in 1..m /\ f[k] = g[k]
          BY <4>2
        <5>2. g[k] = IF k = 1 THEN seqs[k] ELSE g[k - 1] \o seqs[k]
          <6>. HIDE DEF f
          <6>. QED
            BY <3>2, <5>1
        <5>3. k # 1 => k - 1 \in 1..(m + 1) /\ k - 1 # m + 1
          BY <5>1
        <5>. QED
          BY <5>1, <5>2, <5>3
      <4>. QED
        BY <4>1, <4>2
    <3>4. f = rec(m + 1, f)
      <4>1. f = [k \in 1..(m + 1) |-> f[k]]
        OBVIOUS
      <4>. HIDE DEF f
      <4>. QED
        BY <3>3, <4>1
    <3>. QED
      BY <3>4
  <2>. QED
    BY <2>1, <2>2
<1>3. n \in N
  <2>1. 0 \in N
    <3>. HIDE DEF Can
    <3>. QED
      OBVIOUS
  <2>. HIDE DEF N, n
  <2>. QED
    BY <1>1, <1>2, <2>1, NatSet
<1>4. flatten = rec(n, flatten)
  <2>1. n \in 1..n
    <3>. HIDE DEF n
    <3>. QED
      BY <1>1
  <2>. QED
    BY <1>3, <2>1
<1>5. FlattenSeq(seqs) = flatten[n]
  BY <1>1 DEF FlattenSeq
<1>. HIDE DEF flatten
<1>6. Flattens(flatten, seqs)
  BY <1>4 DEF Flattens
<1>. QED
  BY <1>5, <1>6

(* What FlattenSeq returns, and what it returns for one sequence more. *)
LEMMA FlattenEmpty == FlattenSeq(<<>>) = <<>>
BY DEF FlattenSeq

LEMMA FlattenType ==
    ASSUME NEW T, NEW seqs \in Seq(Seq(T)) PROVE FlattenSeq(seqs) \in Seq(T)
<1>1. CASE seqs = <<>>
  BY <1>1, FlattenEmpty, EmptySeq
<1>2. CASE seqs # <<>>
  <2>1. PICK f : Flattens(f, seqs) /\ FlattenSeq(seqs) = f[Len(seqs)]
    BY <1>2, FlattensExists
  <2>. DEFINE N == {m \in Nat : m \in 1..Len(seqs) => f[m] \in Seq(T)}
  <2>2. ASSUME NEW m \in Nat, m \in N PROVE m + 1 \in N
    <3>. SUFFICES ASSUME m + 1 \in 1..Len(seqs) PROVE f[m + 1] \in Seq(T)
      OBVIOUS
    <3>1. seqs[m + 1] \in Seq(T)
      OBVIOUS
    <3>2. f[m + 1] = IF m + 1 = 1 THEN seqs[m + 1] ELSE f[(m + 1) - 1] \o seqs[m + 1]
      BY <2>1 DEF Flattens
    <3>3. m + 1 # 1 => m \in 1..Len(seqs) /\ (m + 1) - 1 = m
      OBVIOUS
    <3>4. m + 1 # 1 => f[m] \in Seq(T)
      BY <2>2, <3>3
    <3>. QED
      BY <3>1, <3>2, <3>3, <3>4
  <2>3. Len(seqs) \in N
    <3>1. 0 \in N /\ Len(seqs) \in Nat
      OBVIOUS
    <3>. HIDE DEF N
    <3>. QED
      BY <2>2, <3>1, NatSet
  <2>4. Len(seqs) \in 1..Len(seqs)
    BY <1>2
  <2>. QED
    BY <2>1, <2>3, <2>4
<1>. QED
  BY <1>1, <1>2

LEMMA FlattenAppend ==
    ASSUME NEW T, NEW seqs \in Seq(Seq(T)), NEW s \in Seq(T)
    PROVE  FlattenSeq(Append(seqs, s)) = FlattenSeq(seqs) \o s
<1>. DEFINE n == Len(seqs)
            more == Append(seqs, s)
<1>1. /\ more \in Seq(Seq(T)) /\ more # <<>> /\ n \in Nat /\ Len(more) = n + 1 /\ more[n + 1] = s
      /\ \A k \in 1..n : more[k] = seqs[k]
  <2>1. more \in Seq(Seq(T)) /\ n \in Nat /\ Len(more) = n + 1
    BY AppendProperties
  <2>2. more[n + 1] = s /\ \A k \in 1..n : more[k] = seqs[k]
    BY AppendProperties
  <2>3. more # <<>>
    BY AppendProperties
  <2>. QED
    BY <2>1, <2>2, <2>3
<1>2. PICK g : Flattens(g, more) /\ FlattenSeq(more) = g[n + 1]
  <2>. HIDE DEF more, n
  <2>. QED
    BY <1>1, FlattensExists
<1>3. CASE seqs = <<>>
  <2>1. n = 0 /\ g[1] = more[1]
    BY <1>1, <1>2, <1>3 DEF Flattens
  <2>. QED
    BY <1>1, <1>2, <1>3, <2>1, FlattenEmpty
<1>4. CASE seqs # <<>>
  <2>1. PICK f : Flattens(f, seqs) /\ FlattenSeq(seqs) = f[n]
    BY <1>4, FlattensExists
  <2>2. n \in 1..n
    BY <1>4
  <2>. HIDE DEF n, more
  <2>. DEFINE N == {m \in Nat : m \in 1..n => f[m] = g[m]}
  <2>3. ASSUME NEW m \in Nat, m \in N PROVE m + 1 \in N
    <3>. SUFFICES ASSUME m + 1 \in 1..n PROVE f[m + 1] = g[m + 1]
      OBVIOUS
    <3>1. f[m + 1] = IF m + 1 = 1 THEN seqs[m + 1] ELSE f[(m + 1) - 1] \o seqs[m + 1]
      BY <2>1 DEF Flattens, n
    <3>2. g[m + 1] = IF m + 1 = 1 THEN seqs[m + 1] ELSE g[(m + 1) - 1] \o seqs[m + 1]
      BY <1>1, <1>2 DEF Flattens
    <3>3. m + 1 # 1 => m \in 1..n /\ (m + 1) - 1 = m
      BY <1>1
    <3>. QED
      BY <2>3, <3>1, <3>2, <3>3
  <2>4. f[n] = g[n]
    <3>1. 0 \in N
      BY <1>1
    <3>. HIDE DEF N
    <3>2. n \in N
      BY <1>1, <2>3, <3>1, NatSet
    <3>. QED
      BY <2>2, <3>2 DEF N
  <2>5. g[n + 1] = g[n] \o more[n + 1]
    <3>1. n + 1 \in 1..(n + 1) /\ n + 1 # 1 /\ (n + 1) - 1 = n
      BY <1>1, <2>2
    <3>. QED
      BY <1>1, <1>2, <3>1 DEF Flattens
  <2>. QED
    BY <1>1, <1>2, <2>1, <2>4, <2>5 DEF more
<1>. QED
  BY <1>3, <1>4

(* Sequences in three parts, and at the end of another one. *)
LEMMA ConcatAssoc ==
    ASSUME NEW T, NEW a \in Seq(T), NEW b \in Seq(T), NEW c \in Seq(T)
    PROVE  a \o (b \o c) = (a \o b) \o c /\ a \o b \in Seq(T) /\ a \o <<>> = a /\ <<>> \o a = a
BY ConcatAssociative, ConcatEmptySeq

LEMMA AppendConcat ==
    ASSUME NEW T, NEW a \in Seq(T), NEW b \in Seq(T), NEW x \in T
    PROVE  /\ a \o Append(b, x) = Append(a \o b, x) /\ Append(a, x) = a \o <<x>>
           /\ <<x>> \in Seq(T) /\ Append(a, x) \in Seq(T)
OBVIOUS

LEMMA FlattenConcat ==
    ASSUME NEW T, NEW a \in Seq(Seq(T)), NEW b \in Seq(Seq(T))
    PROVE  FlattenSeq(a \o b) = FlattenSeq(a) \o FlattenSeq(b)
<1>. DEFINE S == {s \in Seq(Seq(T)) : FlattenSeq(a \o s) = FlattenSeq(a) \o FlattenSeq(s)}
<1>1. <<>> \in S
  <2>1. a \o <<>> = a /\ FlattenSeq(a) \o <<>> = FlattenSeq(a)
    BY FlattenType, ConcatEmptySeq
  <2>. QED
    BY <2>1, FlattenEmpty, EmptySeq
<1>2. ASSUME NEW s \in Seq(Seq(T)), NEW x \in Seq(T), s \in S PROVE Append(s, x) \in S
  <2>1. a \o Append(s, x) = Append(a \o s, x) /\ Append(s, x) \in Seq(Seq(T)) /\ a \o s \in Seq(Seq(T))
    BY AppendConcat
  <2>2. FlattenSeq(Append(a \o s, x)) = FlattenSeq(a \o s) \o x
    BY <2>1, FlattenAppend
  <2>3. FlattenSeq(Append(s, x)) = FlattenSeq(s) \o x
    BY FlattenAppend
  <2>4. FlattenSeq(a) \in Seq(T) /\ FlattenSeq(s) \in Seq(T)
    BY FlattenType
  <2>5. FlattenSeq(a) \o (FlattenSeq(s) \o x) = (FlattenSeq(a) \o FlattenSeq(s)) \o x
    BY <2>4, ConcatAssoc
  <2>. QED
    BY <1>2, <2>1, <2>2, <2>3, <2>5
<1>. HIDE DEF S
<1>3. Seq(Seq(T)) \subseteq S
  BY <1>1, <1>2, SeqSet
<1>. QED
  BY <1>3 DEF S

LEMMA FlattenOne == ASSUME NEW T, NEW s \in Seq(T) PROVE FlattenSeq(<<s>>) = s
<1>1. <<s>> = Append(<<>>, s) /\ <<>> \in Seq(Seq(T))
  OBVIOUS
<1>2. FlattenSeq(<<s>>) = FlattenSeq(<<>>) \o s
  BY <1>1, FlattenAppend
<1>. QED
  BY <1>2, FlattenEmpty

-----------------------------------------------------------------------------
(* The lines of a feed. *)
(* the characters that may be in the lines of a feed, and its lines *)
Characters(f) ==
    {"BEGIN", "UID", "DTSTART", "DTEND", "SUMMARY", "DESCRIPTION", "STATUS", "END", "CANCELLED", "CONFIRMED", Slash, "n", " "}
    \cup UNION {{f[k].id, f[k].dueDate, f[k].dueDate + 1, f[k].createdAt, f[k].createdAt + 1}
                \cup ToSet(f[k].title) \cup ToSet(f[k].description) : k \in DOMAIN f}
Lines(f)  == Seq(Characters(f)) \ {<<>>}
Fitting(f) == {l \in Lines(f) : Len(l) \in 1..Width}

LEMMA ICalEscapeType ==
    ASSUME NEW C, NEW s \in Seq(C), {Slash, "n"} \subseteq C PROVE ICalEscape(s) \in Seq(C)
<1>. DEFINE e(k) == CASE s[k] \in {Slash, ";", ","} -> <<Slash, s[k]>>
                      [] s[k] = Break -> <<Slash, "n">>
                      [] s[k] = Return /\ k < Len(s) /\ s[k + 1] = Break -> <<>>
                      [] OTHER -> <<s[k]>>
            seqs == [k \in DOMAIN s |-> e(k)]
<1>1. Len(s) \in Nat /\ DOMAIN s = 1..Len(s) /\ \A k \in 1..Len(s) : s[k] \in C
  OBVIOUS
<1>2. ASSUME NEW k \in 1..Len(s) PROVE e(k) \in Seq(C)
  <2>1. s[k] \in C /\ Slash \in C /\ "n" \in C
    BY <1>1, <1>2
  <2>2. <<Slash, s[k]>> \in Seq(C) /\ <<Slash, "n">> \in Seq(C) /\ <<>> \in Seq(C) /\ <<s[k]>> \in Seq(C)
    BY <2>1
  <2>. QED
    BY <2>2
<1>. HIDE DEF e
<1>3. seqs \in Seq(Seq(C))
  BY <1>1, <1>2
<1>4. FlattenSeq(seqs) \in Seq(C)
  <2>. HIDE DEF seqs
  <2>. QED
    BY <1>3, FlattenType
<1>. QED
  BY <1>4 DEF ICalEscape, e

LEMMA Prefixed ==
    ASSUME NEW C, NEW x \in C, NEW s \in Seq(C)
    PROVE  <<x>> \o s \in Seq(C) /\ Len(<<x>> \o s) = 1 + Len(s) /\ Len(s) \in Nat
OBVIOUS

LEMMA EventType ==
    ASSUME NEW f \in Feeds, NEW k \in DOMAIN f PROVE Event(f[k]) \in Seq(Lines(f))
<1>. DEFINE C == Characters(f)
            t == f[k]
            from == IF t.dueDate # None THEN t.dueDate ELSE t.createdAt
            title == ICalEscape(t.title)
            words == ICalEscape(t.description)
            status == IF t.status = "completed" THEN "CANCELLED" ELSE "CONFIRMED"
<1>1. /\ {t.id, from, from + 1} \subseteq C /\ ToSet(t.title) \subseteq C /\ ToSet(t.description) \subseteq C
      /\ {"BEGIN", "UID", "DTSTART", "DTEND", "SUMMARY", "DESCRIPTION", "STATUS", "END", status, Slash, "n"} \subseteq C
  <2>. DEFINE of(j) == {f[j].id, f[j].dueDate, f[j].dueDate + 1, f[j].createdAt, f[j].createdAt + 1}
                       \cup ToSet(f[j].title) \cup ToSet(f[j].description)
  <2>1. of(k) \subseteq C
    <3>1. UNION {of(j) : j \in DOMAIN f} \subseteq C
      BY DEF Characters
    <3>. HIDE DEF of, C
    <3>. QED
      BY <3>1
  <2>2. {t.id, from, from + 1} \subseteq of(k) /\ ToSet(t.title) \subseteq of(k) /\ ToSet(t.description) \subseteq of(k)
    OBVIOUS
  <2>3. {"BEGIN", "UID", "DTSTART", "DTEND", "SUMMARY", "DESCRIPTION", "STATUS", "END", status, Slash, "n"} \subseteq C
    BY DEF Characters
  <2>. HIDE DEF of, C, from, status
  <2>. QED
    BY <2>1, <2>2, <2>3
<1>2. title \in Seq(C) /\ words \in Seq(C)
  <2>1. t.title \in Seq(C) /\ t.description \in Seq(C)
    BY <1>1, FeedsAreTasks, SeqMonotonic
  <2>. HIDE DEF C
  <2>. QED
    BY <1>1, <2>1, ICalEscapeType
<1>3. Event(t) = << <<"BEGIN">>, <<"UID", t.id>>, <<"DTSTART", from>>, <<"DTEND", from + 1>>, <<"SUMMARY">> \o title >>
                 \o (IF t.description = <<>> THEN <<>> ELSE << <<"DESCRIPTION">> \o words >>)
                 \o << <<"STATUS", status>>, <<"END">> >>
  BY DEF Event
<1>. HIDE DEF C, title, words, from, status
<1>4. /\ <<"BEGIN">> \in Lines(f) /\ <<"UID", t.id>> \in Lines(f) /\ <<"DTSTART", from>> \in Lines(f)
      /\ <<"DTEND", from + 1>> \in Lines(f) /\ <<"STATUS", status>> \in Lines(f) /\ <<"END">> \in Lines(f)
  BY <1>1 DEF Lines, C
<1>5. ASSUME NEW x \in C, NEW s \in Seq(C) PROVE <<x>> \o s \in Lines(f)
  <2>1. <<x>> \o s \in Seq(C) /\ Len(<<x>> \o s) = 1 + Len(s) /\ Len(s) \in Nat
    BY <1>5, Prefixed
  <2>2. Len(<<x>> \o s) # 0 /\ Len(<<>>) = 0
    BY <2>1
  <2>. QED
    BY <2>1, <2>2 DEF Lines, C
<1>6. <<"SUMMARY">> \o title \in Lines(f) /\ <<"DESCRIPTION">> \o words \in Lines(f)
  BY <1>1, <1>2, <1>5
<1>. DEFINE L == Lines(f)
            summary == <<"SUMMARY">> \o title
            description == <<"DESCRIPTION">> \o words
            a == << <<"BEGIN">>, <<"UID", t.id>>, <<"DTSTART", from>>, <<"DTEND", from + 1>>, summary >>
            b == IF t.description = <<>> THEN <<>> ELSE <<description>>
            c == << <<"STATUS", status>>, <<"END">> >>
<1>7. a \in Seq(L)
  <2>. HIDE DEF L, summary
  <2>. QED
    BY <1>4, <1>6 DEF L, summary
<1>8. b \in Seq(L)
  <2>. HIDE DEF L, description
  <2>. QED
    BY <1>6 DEF L, description
<1>9. c \in Seq(L)
  BY <1>4
<1>. HIDE DEF L, a, b, c
<1>10. (a \o b) \o c \in Seq(L)
  BY <1>7, <1>8, <1>9
<1>. QED
  BY <1>3, <1>10 DEF L, a, b, c

LEMMA FeedType == ASSUME NEW f \in Feeds PROVE BuildICalFeed(f) \in Seq(Lines(f))
<1>. DEFINE seqs == [k \in DOMAIN f |-> Event(f[k])]
<1>1. DOMAIN f = 1..Len(f) /\ Len(f) \in Nat
  BY FeedsAreTasks
<1>2. seqs \in Seq(Seq(Lines(f)))
  BY <1>1, EventType
<1>. HIDE DEF seqs
<1>3. FlattenSeq(seqs) \in Seq(Lines(f))
  BY <1>2, FlattenType
<1>. QED
  BY <1>3 DEF BuildICalFeed, seqs

CalendarInv ==
    /\ DueInv /\ recurred \in 0..MaxRecurrences
    /\ at \in Nat /\ (left = <<>> => at = 0)
    /\ (left = <<>> /\ out = <<>>) \/ \E f \in Feeds : left \in Seq(Lines(f)) /\ out \in Seq(Fitting(f))

LEMMA SliceType ==
    ASSUME NEW C, Line \in Seq(C), NEW x \in Nat, NEW z \in Nat, x < z, x < Len(Line)
    PROVE  Slice(x, z) \in Seq(C) /\ Len(Slice(x, z)) \in 1..(z - x)
<1>. DEFINE l == Line
            y == IF z < Len(l) THEN z ELSE Len(l)
<1>0. l \in Seq(C) /\ x < Len(l)
  OBVIOUS
<1>. HIDE DEF l
<1>1. Len(l) \in Nat /\ y \in Nat /\ x + 1 <= y /\ y <= z /\ y <= Len(l)
  BY <1>0
<1>. HIDE DEF y
<1>2. \A k \in (x + 1)..y : k \in 1..Len(l)
  BY <1>1
<1>3. \A k \in (x + 1)..y : l[k] \in C
  BY <1>0, <1>2
<1>4. SubSeq(l, x + 1, y) \in Seq(C) /\ Len(SubSeq(l, x + 1, y)) = y - (x + 1) + 1
  BY <1>1, <1>3, SubSeqProperties
<1>5. Slice(x, z) = SubSeq(l, x + 1, y)
  BY DEF Slice, y, l
<1>. QED
  BY <1>1, <1>4, <1>5

LEMMA FoldKeeps ==
    ASSUME CalendarInv, Short \/ FirstPart \/ NextPart \/ LastPart PROVE CalendarInv'
<1>1. /\ due' = due /\ recurred' = recurred /\ at \in Nat
      /\ Width \in Nat /\ Width > 1
  BY CalendarAssumption DEF CalendarInv, Short, FirstPart, NextPart, LastPart
<1>2. left # <<>>
  <2>1. at \in Nat /\ (left = <<>> => at = 0)
    BY DEF CalendarInv
  <2>2. left # <<>> \/ at > 0
    BY DEF Short, FirstPart, NextPart, LastPart
  <2>. QED
    BY <2>1, <2>2
<1>3. PICK f \in Feeds : left \in Seq(Lines(f)) /\ out \in Seq(Fitting(f))
  BY <1>2 DEF CalendarInv
<1>4. Line \in Lines(f) /\ Line \in Seq(Characters(f)) /\ Len(Line) \in Nat \ {0} /\ Tail(left) \in Seq(Lines(f))
  <2>1. 1 \in 1..Len(left)
    BY <1>2, <1>3
  <2>2. Line \in Lines(f)
    BY <1>3, <2>1 DEF Line
  <2>3. Line \in Seq(Characters(f)) /\ Line # <<>>
    BY <2>2 DEF Lines
  <2>4. Len(Line) \in Nat \ {0}
    BY <2>3, EmptySeq
  <2>5. Tail(left) \in Seq(Lines(f))
    BY <1>2, <1>3, HeadTailProperties
  <2>. QED
    BY <2>2, <2>3, <2>4, <2>5
<1>5. ASSUME NEW s \in Seq(Characters(f)), Len(s) \in 1..Width PROVE Append(out, s) \in Seq(Fitting(f))
  <2>1. Len(<<>>) = 0
    OBVIOUS
  <2>2. s \in Fitting(f)
    BY <1>5, <2>1 DEF Fitting, Lines
  <2>. QED
    BY <1>3, <2>2, AppendProperties
<1>6. DueInv' /\ recurred' \in 0..MaxRecurrences
  BY <1>1 DEF CalendarInv, DueInv
<1>7. CASE Short
  <2>1. Append(out, Line) \in Seq(Fitting(f))
    BY <1>1, <1>4, <1>5, <1>7 DEF Short
  <2>. QED
    BY <1>3, <1>4, <1>6, <1>7, <2>1 DEF Short, CalendarInv
<1>8. CASE FirstPart
  <2>1. Slice(0, Width) \in Seq(Characters(f)) /\ Len(Slice(0, Width)) \in 1..Width
    <3>1. 0 \in Nat /\ 0 < Width /\ 0 < Len(Line) /\ Width - 0 = Width
      BY <1>1, <1>4
    <3>2. Slice(0, Width) \in Seq(Characters(f)) /\ Len(Slice(0, Width)) \in 1..(Width - 0)
      BY <1>1, <1>4, <3>1, SliceType
    <3>. QED
      BY <3>1, <3>2
  <2>2. Append(out, Slice(0, Width)) \in Seq(Fitting(f))
    BY <1>5, <2>1
  <2>. QED
    BY <1>1, <1>2, <1>3, <1>6, <1>8, <2>2 DEF FirstPart, CalendarInv
<1>9. CASE NextPart
  <2>. DEFINE z == at + Width - 1
              s == Slice(at, z)
  <2>1. z \in Nat /\ at < z /\ z - at = Width - 1
    BY <1>1
  <2>2. s \in Seq(Characters(f)) /\ Len(s) \in 1..(Width - 1)
    <3>. HIDE DEF z
    <3>. QED
      BY <1>1, <1>4, <1>9, <2>1, SliceType DEF NextPart
  <2>. HIDE DEF s
  <2>3. <<" ">> \o s \in Seq(Characters(f)) /\ Len(<<" ">> \o s) \in 1..Width
    <3>1. " " \in Characters(f)
      BY DEF Characters
    <3>2. <<" ">> \o s \in Seq(Characters(f)) /\ Len(<<" ">> \o s) = 1 + Len(s) /\ Len(s) \in Nat
      BY <2>2, <3>1, Prefixed
    <3>. QED
      <4>. DEFINE n == Len(s)
                  r == Len(<<" ">> \o s)
      <4>1. n \in Nat /\ n \in 1..(Width - 1) /\ r = 1 + n
        BY <2>2, <3>2
      <4>. HIDE DEF n, r
      <4>2. r \in 1..Width
        BY <1>1, <4>1
      <4>. QED
        BY <3>2, <4>2 DEF r
  <2>4. Append(out, <<" ">> \o s) \in Seq(Fitting(f))
    BY <1>5, <2>3
  <2>. QED
    BY <1>1, <1>2, <1>3, <1>6, <1>9, <2>1, <2>4 DEF NextPart, CalendarInv, s, z
<1>10. CASE LastPart
  BY <1>3, <1>4, <1>6, <1>10 DEF LastPart, CalendarInv
<1>. QED
  BY <1>7, <1>8, <1>9, <1>10

(* Whatever is in the tasks, every line of a feed fits; and a due date exists *)
(* however often it was moved.                                               *)
THEOREM FeedLinesFit == FormatsSpec => [](CalendarTypeOK /\ LinesFit)
<1>1. FormatsInit => CalendarInv
  <2>1. ASSUME CalendarOff \/ CalendarInit PROVE CalendarInv
    <3>1. recurred = 0 /\ at = 0 /\ out = <<>> /\ 0 \in 0..MaxRecurrences /\ DueInv
      BY <2>1, BasesExist, CalendarAssumption DEF CalendarOff, CalendarInit, DueInv, Dates
    <3>2. left = <<>> \/ \E f \in Feeds : left \in Seq(Lines(f))
      BY <2>1, FeedType DEF CalendarOff, CalendarInit
    <3>3. \A f \in Feeds : <<>> \in Seq(Fitting(f))
      OBVIOUS
    <3>. QED
      BY <3>1, <3>2, <3>3 DEF CalendarInv
  <2>. QED
    BY <2>1 DEF FormatsInit
<1>2. CalendarInv /\ [FormatsNext]_<<importVars, listVars, calendarVars>> => CalendarInv'
  <2>. SUFFICES ASSUME CalendarInv, [FormatsNext]_<<importVars, listVars, calendarVars>> PROVE CalendarInv'
    OBVIOUS
  <2>1. CASE UNCHANGED calendarVars
    BY <2>1 DEF CalendarInv, DueInv, calendarVars
  <2>2. CASE Short \/ FirstPart \/ NextPart \/ LastPart
    BY <2>2, FoldKeeps
  <2>3. ASSUME NEW recurrence \in {"daily", "weekly", "monthly"}, Recur(recurrence) PROVE CalendarInv'
    <3>1. due \in Dates /\ due' = NextDueDate(due, recurrence) /\ recurred' = recurred + 1 /\ recurred < MaxRecurrences
      BY <2>3 DEF CalendarInv, DueInv, Recur
    <3>2. UNCHANGED <<left, at, out>>
      BY <2>3 DEF Recur
    <3>3. DueInv' /\ recurred' \in 0..MaxRecurrences
      BY <3>1, NextDueDateSteps, CalendarAssumption DEF DueInv, CalendarInv
    <3>. QED
      BY <3>2, <3>3 DEF CalendarInv
  <2>. QED
    BY <2>1, <2>2, <2>3 DEF FormatsNext, CalendarNext
<1>3. CalendarInv => CalendarTypeOK /\ LinesFit
  <2>1. ASSUME CalendarInv PROVE CalendarTypeOK
    <3>1. ASSUME due # None PROVE due.m \in 1..12 /\ due.d \in 1..Days(due.y, due.m)
      <4>1. /\ due.y \in Nat /\ due.m \in 1..12 /\ due.d \in 1..31 /\ due.d <= Days(due.y, due.m)
        BY <2>1, <3>1 DEF CalendarInv, DueInv, Dates
      <4>2. Days(due.y, due.m) \in 28..31
        BY <4>1, DaysBound
      <4>. QED
        BY <4>1, <4>2
    <3>. QED
      BY <2>1, <3>1 DEF CalendarInv, CalendarTypeOK
  <2>2. ASSUME CalendarInv PROVE LinesFit
    <3>1. CASE out = <<>>
      BY <3>1 DEF LinesFit
    <3>2. ASSUME NEW f \in Feeds, out \in Seq(Fitting(f)), NEW k \in DOMAIN out PROVE Len(out[k]) \in 1..Width
      <4>1. out[k] \in Fitting(f)
        BY <3>2
      <4>. QED
        BY <4>1 DEF Fitting
    <3>. QED
      BY <2>2, <3>1, <3>2 DEF CalendarInv, LinesFit
  <2>. QED
    BY <2>1, <2>2
<1>. QED
  BY <1>1, <1>2, <1>3, PTL DEF FormatsSpec

-----------------------------------------------------------------------------
(* The import.  What the parser has gone over is what it holds (but for      *)
(* quotes, separators and blanks), so nothing of a text is lost; in the text *)
(* of an export it is always at some place of some cell, with the rows       *)
(* before it read, so it ends with the table that was written; and of the    *)
(* rows of that table it makes the tasks again.                              *)
(* Each element of a sequence replaced by a sequence. *)
Replaces(g, T, U) == g \in [T -> Seq(U)]
Spread(g, s) == FlattenSeq([k \in DOMAIN s |-> g[s[k]]])

(* Spread of a whole is the spread of its parts. *)
LEMMA SpreadType ==
    ASSUME NEW T, NEW U, NEW g, Replaces(g, T, U), NEW s \in Seq(T) PROVE Spread(g, s) \in Seq(U)
<1>1. DOMAIN s = 1..Len(s) /\ Len(s) \in Nat /\ \A k \in 1..Len(s) : g[s[k]] \in Seq(U)
  BY DEF Replaces
<1>2. [k \in DOMAIN s |-> g[s[k]]] \in Seq(Seq(U))
  BY <1>1
<1>. QED
  BY <1>2, FlattenType DEF Spread

LEMMA SpreadConcat ==
    ASSUME NEW T, NEW U, NEW g, Replaces(g, T, U), NEW s \in Seq(T), NEW t \in Seq(T)
    PROVE  Spread(g, s \o t) = Spread(g, s) \o Spread(g, t)
<1>. DEFINE m(r) == [k \in DOMAIN r |-> g[r[k]]]
<1>1. ASSUME NEW r \in Seq(T)
      PROVE  m(r) \in Seq(Seq(U)) /\ Len(m(r)) = Len(r) /\ \A k \in 1..Len(r) : m(r)[k] = g[r[k]]
  <2>1. DOMAIN r = 1..Len(r) /\ Len(r) \in Nat /\ \A k \in 1..Len(r) : g[r[k]] \in Seq(U)
    BY DEF Replaces
  <2>. QED
    BY <2>1
<1>2. s \o t \in Seq(T) /\ Len(s \o t) = Len(s) + Len(t) /\ Len(s) \in Nat /\ Len(t) \in Nat
  OBVIOUS
<1>3. m(s \o t) = m(s) \o m(t)
  <2>1. ASSUME NEW k \in 1..(Len(s) + Len(t)) PROVE m(s \o t)[k] = (m(s) \o m(t))[k]
    <3>1. m(s \o t)[k] = g[(s \o t)[k]]
      BY <1>1, <1>2
    <3>2. CASE k <= Len(s)
      <4>1. k \in 1..Len(s) /\ (s \o t)[k] = s[k] /\ m(s)[k] = g[s[k]]
        BY <1>1, <1>2, <3>2
      <4>2. (m(s) \o m(t))[k] = m(s)[k]
        <5>. HIDE DEF m
        <5>. QED
          BY <1>1, <1>2, <4>1
      <4>. QED
        BY <3>1, <4>1, <4>2
    <3>3. CASE ~(k <= Len(s))
      <4>1. k - Len(s) \in 1..Len(t) /\ (s \o t)[k] = t[k - Len(s)]
        BY <1>2, <3>3
      <4>2. m(t)[k - Len(s)] = g[t[k - Len(s)]]
        BY <1>1, <4>1
      <4>3. (m(s) \o m(t))[k] = m(t)[k - Len(s)]
        <5>. HIDE DEF m
        <5>. QED
          BY <1>1, <1>2, <3>3, <4>1
      <4>. QED
        BY <3>1, <4>1, <4>2, <4>3
    <3>. QED
      BY <3>2, <3>3
  <2>2. m(s \o t) \in Seq(Seq(U)) /\ Len(m(s \o t)) = Len(s) + Len(t)
    <3>. HIDE DEF m
    <3>. QED
      BY <1>1, <1>2
  <2>3. m(s) \o m(t) \in Seq(Seq(U)) /\ Len(m(s) \o m(t)) = Len(s) + Len(t)
    <3>. HIDE DEF m
    <3>1. m(s) \in Seq(Seq(U)) /\ m(t) \in Seq(Seq(U)) /\ Len(m(s)) = Len(s) /\ Len(m(t)) = Len(t)
      BY <1>1
    <3>2. m(s) \o m(t) \in Seq(Seq(U)) /\ Len(m(s) \o m(t)) = Len(m(s)) + Len(m(t))
      BY <3>1, ConcatProperties
    <3>. QED
      BY <3>1, <3>2
  <2>. HIDE DEF m
  <2>. QED
    BY <2>1, <2>2, <2>3, SeqEqual
<1>. HIDE DEF m
<1>4. FlattenSeq(m(s) \o m(t)) = FlattenSeq(m(s)) \o FlattenSeq(m(t))
  BY <1>1, FlattenConcat
<1>. QED
  BY <1>3, <1>4 DEF Spread, m

LEMMA SpreadOne ==
    ASSUME NEW T, NEW U, NEW g, Replaces(g, T, U), NEW x \in T
    PROVE  Spread(g, <<x>>) = g[x] /\ Spread(g, <<>>) = <<>>
<1>1. [k \in DOMAIN <<x>> |-> g[<<x>>[k]]] = <<g[x]>> /\ g[x] \in Seq(U)
  BY DEF Replaces
<1>2. [k \in DOMAIN <<>> |-> g[<<>>[k]]] = <<>>
  OBVIOUS
<1>. QED
  BY <1>1, <1>2, FlattenOne, FlattenEmpty DEF Spread

-----------------------------------------------------------------------------
Blank(s) == \A k \in 1..Len(s) : s[k] \in White

(* Trim leaves a part of a text; and nothing of a blank one only. *)
LEMMA Trims ==
    ASSUME NEW T, NEW s \in Seq(T)
    PROVE  Trim(s) \in Seq(T) /\ (Trim(s) = <<>> <=> Blank(s))
<1>. DEFINE inner == {k \in DOMAIN s : s[k] \notin White}
            least == CHOOSE k \in inner : \A l \in inner : k <= l
            most  == CHOOSE k \in inner : \A l \in inner : k >= l
<1>0. DOMAIN s = 1..Len(s) /\ Len(s) \in Nat /\ \A k \in 1..Len(s) : s[k] \in T
  OBVIOUS
<1>1. CASE inner = {}
  <2>1. Blank(s)
    BY <1>0, <1>1 DEF Blank
  <2>2. Trim(s) = <<>>
    BY <1>1 DEF Trim
  <2>. QED
    BY <2>1, <2>2, EmptySeq
<1>2. CASE inner # {}
  <2>1. inner \in SUBSET Nat
    BY <1>0
  <2>2. least \in inner /\ \A l \in inner : least <= l
    <3>. HIDE DEF inner
    <3>. QED
      BY <1>2, <2>1, LeastNumber
  <2>3. most \in inner /\ \A l \in inner : most >= l
    <3>1. Len(s) \in Nat /\ \A k \in inner : k <= Len(s)
      BY <1>0
    <3>. HIDE DEF inner
    <3>. QED
      BY <1>2, <2>1, <3>1, GreatestNumber
  <2>4. Trim(s) = SubSeq(s, least, most)
    BY <1>2 DEF Trim
  <2>5. least \in 1..Len(s) /\ most \in 1..Len(s) /\ least <= most
    <3>. HIDE DEF least, most
    <3>. QED
      BY <1>0, <2>2, <2>3
  <2>6. ~Blank(s)
    <3>1. s[least] \notin White
      <4>. HIDE DEF least
      <4>. QED
        BY <2>2
    <3>. HIDE DEF least
    <3>. QED
      BY <2>5, <3>1 DEF Blank
  <2>. HIDE DEF least, most, inner
  <2>7. SubSeq(s, least, most) \in Seq(T) /\ Len(SubSeq(s, least, most)) = most - least + 1
    <3>1. \A k \in least..most : s[k] \in T
      BY <1>0, <2>5
    <3>2. least \in Int /\ most \in Int
      BY <1>0, <2>5
    <3>. QED
      BY <2>5, <3>1, <3>2, SubSeqProperties
  <2>8. SubSeq(s, least, most) # <<>>
    BY <1>0, <2>5, <2>7
  <2>. QED
    BY <2>4, <2>6, <2>7, <2>8
<1>. QED
  BY <1>1, <1>2

Marks == {Quote, Comma} \cup White
Picks(T) == [c \in T |-> IF c \in Marks THEN <<>> ELSE <<c>>]

(* Content, which NothingLost compares, is such a spread. *)
LEMMA ContentConcat ==
    ASSUME NEW T, NEW s \in Seq(T), NEW t \in Seq(T)
    PROVE  Content(s) \in Seq(T) /\ Content(s \o t) = Content(s) \o Content(t) /\ Content(<<>>) = <<>>
<1>1. Replaces(Picks(T), T, T)
  BY DEF Picks, Replaces
<1>2. ASSUME NEW r \in Seq(T) PROVE Content(r) = Spread(Picks(T), r)
  <2>1. \A k \in DOMAIN r : Picks(T)[r[k]] = IF r[k] \in {Quote, Comma} \cup White THEN <<>> ELSE <<r[k]>>
    BY DEF Picks, Marks
  <2>. QED
    BY <2>1, Zenon DEF Content, Spread
<1>3. s \o t \in Seq(T) /\ <<>> \in Seq(T)
  BY ConcatProperties, EmptySeq
<1>4. /\ Spread(Picks(T), s) \in Seq(T)
      /\ Spread(Picks(T), s \o t) = Spread(Picks(T), s) \o Spread(Picks(T), t)
  <2>. DEFINE g == Picks(T)
  <2>1. Replaces(g, T, T)
    BY <1>1
  <2>. HIDE DEF g
  <2>2. Spread(g, s) \in Seq(T)
    BY <2>1, SpreadType
  <2>3. Spread(g, s \o t) = Spread(g, s) \o Spread(g, t)
    BY <2>1, SpreadConcat
  <2>. QED
    BY <2>2, <2>3 DEF g
<1>5. Content(<<>>) = <<>>
  <2>1. [k \in DOMAIN <<>> |-> IF <<>>[k] \in {Quote, Comma} \cup White THEN <<>> ELSE <<(<<>>)[k]>>] = <<>>
    OBVIOUS
  <2>. QED
    BY <2>1, FlattenEmpty DEF Content
<1>. QED
  BY <1>2, <1>3, <1>4, <1>5

LEMMA ContentNothing ==
    ASSUME NEW T, NEW s \in Seq(T), \A k \in 1..Len(s) : s[k] \in Marks PROVE Content(s) = <<>>
<1>. DEFINE S == {r \in Seq(T) : (\A k \in 1..Len(r) : r[k] \in Marks) => Content(r) = <<>>}
<1>1. <<>> \in S
  BY ContentConcat, EmptySeq
<1>2. ASSUME NEW r \in Seq(T), NEW x \in T, r \in S PROVE Append(r, x) \in S
  <2>. SUFFICES ASSUME \A k \in 1..Len(Append(r, x)) : Append(r, x)[k] \in Marks PROVE Content(Append(r, x)) = <<>>
    BY AppendProperties
  <2>1. /\ Len(Append(r, x)) = Len(r) + 1 /\ Append(r, x)[Len(r) + 1] = x /\ Len(r) \in Nat
        /\ \A k \in 1..Len(r) : Append(r, x)[k] = r[k]
    BY AppendProperties
  <2>2. (\A k \in 1..Len(r) : r[k] \in Marks) /\ x \in Marks
    <3>1. \A k \in 1..Len(r) : k \in 1..Len(Append(r, x))
      BY <2>1
    <3>2. Len(r) + 1 \in 1..Len(Append(r, x))
      BY <2>1
    <3>. QED
      BY <2>1, <3>1, <3>2
  <2>3. Content(<<x>>) = <<>>
    <3>1. [k \in DOMAIN <<x>> |-> IF <<x>>[k] \in {Quote, Comma} \cup White THEN <<>> ELSE << <<x>>[k] >>] = << <<>> >>
      BY <2>2 DEF Marks
    <3>2. FlattenSeq(<< <<>> >>) = <<>>
      BY EmptySeq, FlattenOne
    <3>. QED
      BY <3>1, <3>2, Zenon DEF Content
  <2>4. Append(r, x) = r \o <<x>> /\ <<x>> \in Seq(T)
    OBVIOUS
  <2>5. Content(r \o <<x>>) = Content(r) \o Content(<<x>>)
    BY <2>4, ContentConcat
  <2>6. <<>> \o <<>> = <<>>
    OBVIOUS
  <2>. QED
    BY <1>2, <2>2, <2>3, <2>4, <2>5, <2>6
<1>. HIDE DEF S
<1>3. Seq(T) \subseteq S
  BY <1>1, <1>2, SeqSet
<1>. QED
  BY <1>3 DEF S

-----------------------------------------------------------------------------
(* The state of the parser: everything it holds is made of its text. *)
Chars == {text[n] : n \in DOMAIN text}

Parser ==
    /\ text \in Seq(Chars) /\ i \in 1..(Len(text) + 1) /\ inQuotes \in BOOLEAN
    /\ field \in Seq(Chars) /\ row \in Seq(Seq(Chars)) /\ rows \in Seq(Seq(Seq(Chars)))
    /\ pc \in {"off", "parse", "import", "done", "refused"}
    /\ pc \notin {"off", "parse"} => i = Len(text) + 1

(* A row more adds its letters to those of the rows before it. *)
LEMMA RowsFlatten ==
    ASSUME NEW C, NEW rs \in Seq(Seq(Seq(C))), NEW r \in Seq(Seq(C))
    PROVE  /\ FlattenSeq([k \in DOMAIN rs |-> FlattenSeq(rs[k])]) \in Seq(C)
           /\ FlattenSeq([k \in DOMAIN Append(rs, r) |-> FlattenSeq(Append(rs, r)[k])])
                = FlattenSeq([k \in DOMAIN rs |-> FlattenSeq(rs[k])]) \o FlattenSeq(r)
<1>. DEFINE T == Seq(Seq(C))
            g == [q \in T |-> FlattenSeq(q)]
<1>1. Replaces(g, T, C) /\ g[r] = FlattenSeq(r)
  <2>1. \A q \in T : FlattenSeq(q) \in Seq(C)
    BY FlattenType
  <2>. QED
    BY <2>1 DEF Replaces
<1>2. ASSUME NEW q \in Seq(T) PROVE Spread(g, q) = FlattenSeq([k \in DOMAIN q |-> FlattenSeq(q[k])])
  <2>1. \A k \in DOMAIN q : g[q[k]] = FlattenSeq(q[k])
    OBVIOUS
  <2>. HIDE DEF g
  <2>. QED
    BY <2>1, Zenon DEF Spread
<1>. HIDE DEF g
<1>3. rs \in Seq(T) /\ <<r>> \in Seq(T) /\ Append(rs, r) = rs \o <<r>> /\ Append(rs, r) \in Seq(T) /\ r \in T
  OBVIOUS
<1>. HIDE DEF T
<1>4. Spread(g, rs) \in Seq(C)
  BY <1>1, <1>3, SpreadType
<1>6. Spread(g, rs \o <<r>>) = Spread(g, rs) \o Spread(g, <<r>>)
  <2>. DEFINE one == <<r>>
  <2>1. one \in Seq(T)
    BY <1>3
  <2>. HIDE DEF one
  <2>2. Spread(g, rs \o one) = Spread(g, rs) \o Spread(g, one)
    BY <1>1, <1>3, <2>1, SpreadConcat
  <2>. QED
    BY <2>2 DEF one
<1>5. Spread(g, <<r>>) = FlattenSeq(r)
  BY <1>1, <1>3, SpreadOne
<1>. QED
  BY <1>2, <1>3, <1>4, <1>5, <1>6

InRows == FlattenSeq([k \in DOMAIN rows |-> FlattenSeq(rows[k])])

(* The turns of the parser, by what they go over and what they hold then. *)
Over(n) == i' = i + n /\ i + n - 1 <= Len(text)
Adds    == \E c \in Chars : field' = Append(field, c) /\ row' = row /\ rows' = rows /\ c = text[i]
Ends    == row' = Append(row, field) /\ field' = <<>> /\ rows' = rows
Breaks  == /\ field' = <<>> /\ row' = <<>>
           /\ \/ rows' = Append(rows, Append(row, field))
              \/ rows' = rows /\ row = <<>> /\ Blank(field)

Turning ==
    /\ pc = "parse" /\ pc' = pc /\ i <= Len(text)
    /\ \/ Over(1) /\ Adds
       \/ Over(2) /\ Adds /\ text[i] = Quote /\ text[i + 1] = Quote
       \/ Over(1) /\ UNCHANGED <<field, row, rows>> /\ text[i] = Quote
       \/ Over(1) /\ Ends /\ text[i] = Comma
       \/ Over(1) /\ Breaks /\ text[i] \in {LF, CR}
       \/ Over(2) /\ Breaks /\ text[i] = CR /\ text[i + 1] = LF
Ending ==
    /\ pc = "parse" /\ pc' = "import" /\ i' = i /\ i > Len(text) /\ field' = <<>> /\ row' = <<>>
    /\ Breaks \/ (row = <<>> /\ field = <<>> /\ rows' = rows)
Turned ==
    /\ text' = text /\ source' = source /\ docs' = docs /\ failed' = failed /\ inQuotes' \in BOOLEAN
    /\ Turning \/ Ending

(* A row is kept, or it was a blank one. *)
LEMMA KeepBreaks ==
    ASSUME Parser, Keep(Append(row, field))
    PROVE  \/ rows' = Append(rows, Append(row, field))
           \/ rows' = rows /\ row = <<>> /\ Blank(field)
<1>. DEFINE r == Append(row, field)
<1>1. r \in Seq(Seq(Chars)) /\ Len(r) = Len(row) + 1 /\ Len(row) \in Nat /\ r[Len(row) + 1] = field
      /\ row \in Seq(Seq(Chars)) /\ field \in Seq(Chars)
  BY AppendProperties DEF Parser
<1>2. rows' = IF Len(r) > 1 \/ Trim(r[1]) # <<>> THEN Append(rows, r) ELSE rows
  BY DEF Keep
<1>. HIDE DEF r
<1>3. CASE Len(r) > 1 \/ Trim(r[1]) # <<>>
  BY <1>2, <1>3 DEF r
<1>4. CASE ~(Len(r) > 1 \/ Trim(r[1]) # <<>>)
  <2>1. Len(row) = 0 /\ row = <<>>
    BY <1>1, <1>4
  <2>2. Trim(field) = <<>>
    BY <1>1, <1>4, <2>1
  <2>3. Blank(field)
    BY <1>1, <2>2, Trims
  <2>. QED
    BY <1>2, <1>4, <2>1, <2>3
<1>. QED
  BY <1>3, <1>4

(* Every turn of the parser is one of these, and keeps its state typed. *)
LEMMA ParserTurns ==
    ASSUME Parser, Escaped \/ Unquote \/ OpenQuote \/ Plain \/ EndField \/ EndRow \/ EndText
    PROVE  Turned
<1>0. Len(text) \in Nat /\ i \in Nat /\ i >= 1 /\ DOMAIN text = 1..Len(text)
  BY DEF Parser
<1>a. i <= Len(text) => text[i] \in Chars
  BY <1>0 DEF Chars
<1>1. CASE Escaped
  <2>1. text[i + 1] = Quote /\ i < Len(text)
    <3>1. Peek = Quote /\ Quote # Absent
      BY <1>1, ColumnsExist DEF Escaped
    <3>. QED
      BY <3>1 DEF Peek
  <2>. QED
    BY <1>0, <1>a, <1>1, <2>1 DEF Escaped, Char, Skip, Turned, Turning, Over, Adds, Parser
<1>2. CASE Unquote
  <2>1. /\ pc = "parse" /\ pc' = pc /\ i <= Len(text) /\ text[i] = Quote /\ i' = i + 1 /\ inQuotes' \in BOOLEAN
        /\ UNCHANGED <<source, text, field, row, rows, docs, failed>>
    BY <1>2 DEF Unquote, Char, Skip
  <2>2. Over(1)
    BY <1>0, <2>1 DEF Over
  <2>. QED
    BY <2>1, <2>2 DEF Turned, Turning
<1>3. CASE OpenQuote
  BY <1>0, <1>3 DEF OpenQuote, Char, Skip, Turned, Turning, Over, Parser
<1>4. CASE Plain
  BY <1>0, <1>a, <1>4 DEF Plain, Char, Skip, Turned, Turning, Over, Adds, Parser
<1>5. CASE EndField
  BY <1>0, <1>5 DEF EndField, Char, Skip, Turned, Turning, Over, Ends, Parser
<1>6. CASE EndRow
  <2>1. Breaks
    BY <1>6, KeepBreaks DEF EndRow, Breaks
  <2>2. CASE text[i] = CR /\ Peek = LF
    <3>1. text[i + 1] = LF /\ i < Len(text)
      BY <2>2, ColumnsExist DEF Peek
    <3>. QED
      BY <1>0, <1>6, <2>1, <2>2, <3>1 DEF EndRow, Char, Skip, Turned, Turning, Over, Parser
  <2>3. CASE ~(text[i] = CR /\ Peek = LF)
    BY <1>0, <1>6, <2>1, <2>3 DEF EndRow, Char, Skip, Turned, Turning, Over, Parser
  <2>. QED
    BY <2>2, <2>3
<1>7. CASE EndText
  <2>1. /\ pc = "parse" /\ pc' = "import" /\ i' = i /\ i > Len(text) /\ field' = <<>> /\ row' = <<>>
        /\ text' = text /\ source' = source /\ docs' = docs /\ failed' = failed /\ inQuotes' \in BOOLEAN
    BY <1>7 DEF EndText, Parser
  <2>2. CASE field # <<>> \/ row # <<>>
    <3>1. Keep(Append(row, field))
      BY <1>7, <2>2 DEF EndText
    <3>2. Breaks
      BY <2>1, <3>1, KeepBreaks DEF Breaks
    <3>. QED
      BY <2>1, <3>2 DEF Turned, Ending
  <2>3. CASE ~(field # <<>> \/ row # <<>>)
    BY <1>7, <2>1, <2>3 DEF EndText, Turned, Ending
  <2>. QED
    BY <2>2, <2>3
<1>. QED
  BY <1>1, <1>2, <1>3, <1>4, <1>5, <1>6, <1>7

LEMMA TurnedKeepsParser == ASSUME Parser, Turned PROVE Parser'
<1>0. Chars' = Chars
  BY DEF Turned, Chars
<1>1. /\ text' \in Seq(Chars) /\ i' \in 1..(Len(text') + 1) /\ inQuotes' \in BOOLEAN
      /\ pc' \in {"parse", "import"} /\ (pc' = "import" => i' = Len(text') + 1)
  <2>1. text' = text /\ Len(text) \in Nat /\ i \in Nat /\ i >= 1 /\ i <= Len(text) + 1 /\ inQuotes' \in BOOLEAN
    BY DEF Turned, Parser
  <2>2. text' \in Seq(Chars)
    BY <2>1 DEF Parser
  <2>3. \/ pc' = "parse" /\ (\E n \in {1, 2} : Over(n))
        \/ pc' = "import" /\ i' = i /\ i > Len(text)
    BY DEF Turned, Turning, Ending
  <2>. QED
    BY <2>1, <2>2, <2>3 DEF Over
<1>2. field' \in Seq(Chars) /\ row' \in Seq(Seq(Chars)) /\ rows' \in Seq(Seq(Seq(Chars)))
  <2>1. CASE Adds
    BY <2>1 DEF Adds, Parser
  <2>2. CASE Ends
    BY <2>2, EmptySeq, AppendProperties DEF Ends, Parser
  <2>3. CASE Breaks
    <3>1. Append(row, field) \in Seq(Seq(Chars))
      BY AppendProperties DEF Parser
    <3>2. Append(rows, Append(row, field)) \in Seq(Seq(Seq(Chars)))
      BY <3>1, AppendProperties DEF Parser
    <3>. QED
      BY <2>3, <3>2, EmptySeq DEF Breaks, Parser
  <2>4. CASE UNCHANGED <<field, row, rows>>
    BY <2>4 DEF Parser
  <2>5. CASE field' = <<>> /\ row' = <<>> /\ rows' = rows
    BY <2>5, EmptySeq DEF Parser
  <2>. QED
    BY <2>1, <2>2, <2>3, <2>4, <2>5 DEF Turned, Turning, Ending
<1>. QED
  BY <1>0, <1>1, <1>2 DEF Parser

(* A letter is content unless it is a mark. *)
LEMMA ContentOne ==
    ASSUME NEW T, NEW x \in T PROVE Content(<<x>>) = IF x \in Marks THEN <<>> ELSE <<x>>
<1>1. [k \in DOMAIN <<x>> |-> IF <<x>>[k] \in {Quote, Comma} \cup White THEN <<>> ELSE << <<x>>[k] >>]
        = << IF x \in Marks THEN <<>> ELSE <<x>> >>
  BY DEF Marks
<1>2. (IF x \in Marks THEN <<>> ELSE <<x>>) \in Seq(T)
  OBVIOUS
<1>3. FlattenSeq(<< IF x \in Marks THEN <<>> ELSE <<x>> >>) = IF x \in Marks THEN <<>> ELSE <<x>>
  BY <1>2, FlattenOne
<1>. QED
  BY <1>1, <1>3, Zenon DEF Content

Gone == SubSeq(text, 1, i - 1)

(* What the parser has gone over, when it goes on by one or two. *)
LEMMA GoneGrows ==
    ASSUME Parser, text' = text, i' = i + 1, i <= Len(text)
    PROVE  /\ Gone \in Seq(Chars) /\ Gone' \in Seq(Chars)
           /\ Content(Gone') = Content(Gone) \o (IF text[i] \in Marks THEN <<>> ELSE <<text[i]>>)
<1>1. i \in Nat /\ 1 <= i /\ Len(text) \in Nat /\ text \in Seq(Chars) /\ text[i] \in Chars
      /\ \A k \in 1..Len(text) : text[k] \in Chars
  BY DEF Parser
<1>2. Gone' = SubSeq(text, 1, i)
  BY <1>1 DEF Gone
<1>3. SubSeq(text, 1, i) = SubSeq(text, 1, i - 1) \o <<text[i]>>
  <2>1. 1 \in 1..Len(text) /\ i \in 1..Len(text)
    BY <1>1
  <2>. QED
    BY <1>1, <2>1, SubSeqRecursiveSecond
<1>4. Gone \in Seq(Chars)
  <2>1. \A k \in 1..(i - 1) : text[k] \in Chars
    BY <1>1
  <2>2. 1 \in Int /\ i - 1 \in Int
    BY <1>1
  <2>. QED
    BY <2>1, <2>2, SubSeqProperties DEF Gone
<1>5. <<text[i]>> \in Seq(Chars)
  BY <1>1
<1>6. Gone' = Gone \o <<text[i]>>
  BY <1>2, <1>3 DEF Gone
<1>7. Content(Gone \o <<text[i]>>) = Content(Gone) \o Content(<<text[i]>>)
  BY <1>4, <1>5, ContentConcat
<1>8. Gone \o <<text[i]>> \in Seq(Chars)
  BY <1>4, <1>5
<1>9. Content(<<text[i]>>) = IF text[i] \in Marks THEN <<>> ELSE <<text[i]>>
  BY <1>1, ContentOne
<1>. QED
  BY <1>4, <1>6, <1>7, <1>8, <1>9

LEMMA GoneTwice ==
    ASSUME Parser, text' = text, i' = i + 2, i + 1 <= Len(text), text[i] \in Marks, text[i + 1] \in Marks
    PROVE  Content(Gone') = Content(Gone)
<1>1. i \in Nat /\ 1 <= i /\ Len(text) \in Nat /\ text \in Seq(Chars) /\ text[i] \in Chars /\ text[i + 1] \in Chars
      /\ \A k \in 1..Len(text) : text[k] \in Chars
  BY DEF Parser
<1>2. Gone' = SubSeq(text, 1, i + 1)
  BY <1>1 DEF Gone
<1>3. SubSeq(text, 1, i) = SubSeq(text, 1, i - 1) \o <<text[i]>>
  <2>1. 1 \in 1..Len(text) /\ i \in 1..Len(text)
    BY <1>1
  <2>. QED
    BY <1>1, <2>1, SubSeqRecursiveSecond
<1>4. SubSeq(text, 1, i + 1) = SubSeq(text, 1, i) \o <<text[i + 1]>>
  <2>1. 1 \in 1..Len(text) /\ i + 1 \in 1..Len(text) /\ (i + 1) - 1 = i
    BY <1>1
  <2>. QED
    BY <1>1, <2>1, SubSeqRecursiveSecond
<1>5. Gone \in Seq(Chars) /\ SubSeq(text, 1, i) \in Seq(Chars)
  <2>1. (\A k \in 1..(i - 1) : text[k] \in Chars) /\ (\A k \in 1..i : text[k] \in Chars)
    BY <1>1
  <2>2. 1 \in Int /\ i - 1 \in Int /\ i \in Int
    BY <1>1
  <2>. QED
    BY <2>1, <2>2, SubSeqProperties DEF Gone
<1>6. <<text[i]>> \in Seq(Chars) /\ <<text[i + 1]>> \in Seq(Chars)
  BY <1>1
<1>7. Content(<<text[i]>>) = <<>> /\ Content(<<text[i + 1]>>) = <<>>
  BY <1>1, ContentOne
<1>8. Content(SubSeq(text, 1, i)) = Content(Gone) \o Content(<<text[i]>>)
  BY <1>3, <1>5, <1>6, ContentConcat DEF Gone
<1>9. Content(SubSeq(text, 1, i + 1)) = Content(SubSeq(text, 1, i)) \o Content(<<text[i + 1]>>)
  BY <1>4, <1>5, <1>6, ContentConcat
<1>10. Content(Gone) \in Seq(Chars)
  BY <1>5, ContentConcat
<1>11. Content(Gone) \o <<>> = Content(Gone)
  BY <1>10, ConcatEmptySeq
<1>. QED
  BY <1>2, <1>7, <1>8, <1>9, <1>11

(* What the parser holds, and how its turns change that. *)
Held == InRows \o FlattenSeq(row) \o field

LEMMA HeldType ==
    ASSUME Parser
    PROVE  /\ InRows \in Seq(Chars) /\ FlattenSeq(row) \in Seq(Chars) /\ field \in Seq(Chars)
           /\ InRows \o FlattenSeq(row) \in Seq(Chars) /\ Held \in Seq(Chars)
<1>1. rows \in Seq(Seq(Seq(Chars))) /\ row \in Seq(Seq(Chars)) /\ field \in Seq(Chars)
  BY DEF Parser
<1>2. InRows \in Seq(Chars)
  BY <1>1, RowsFlatten DEF InRows
<1>3. FlattenSeq(row) \in Seq(Chars)
  BY <1>1, FlattenType
<1>4. InRows \o FlattenSeq(row) \in Seq(Chars)
  BY <1>2, <1>3, ConcatProperties
<1>5. Held \in Seq(Chars)
  BY <1>1, <1>4, ConcatProperties DEF Held
<1>. QED
  BY <1>1, <1>2, <1>3, <1>4, <1>5

LEMMA HeldAdds ==
    ASSUME Parser, NEW c \in Chars, field' = Append(field, c), row' = row, rows' = rows
    PROVE  Content(Held') = Content(Held) \o (IF c \in Marks THEN <<>> ELSE <<c>>)
<1>1. Held' = (InRows \o FlattenSeq(row)) \o Append(field, c)
  BY DEF Held, InRows
<1>2. Append(field, c) = field \o <<c>> /\ <<c>> \in Seq(Chars)
  BY HeldType
<1>3. Held' = Held \o <<c>>
  BY <1>1, <1>2, HeldType, ConcatAssoc DEF Held
<1>4. Content(Held \o <<c>>) = Content(Held) \o Content(<<c>>)
  BY <1>2, HeldType, ContentConcat
<1>. QED
  BY <1>3, <1>4, ContentOne

LEMMA HeldEnds ==
    ASSUME Parser, Ends PROVE Held' = Held
<1>1. FlattenSeq(Append(row, field)) = FlattenSeq(row) \o field
  BY FlattenAppend DEF Parser
<1>2. Held' = (InRows \o (FlattenSeq(row) \o field)) \o <<>>
  BY <1>1 DEF Held, InRows, Ends
<1>3. InRows \o (FlattenSeq(row) \o field) = Held
  BY HeldType, ConcatAssoc DEF Held
<1>. QED
  BY <1>2, <1>3, HeldType, ConcatAssoc

LEMMA HeldBreaks ==
    ASSUME Parser, Breaks PROVE Content(Held') = Content(Held)
<1>1. /\ row \in Seq(Seq(Chars)) /\ field \in Seq(Chars) /\ rows \in Seq(Seq(Seq(Chars)))
      /\ Append(row, field) \in Seq(Seq(Chars))
  BY AppendProperties DEF Parser
<1>2. FlattenSeq(row') = <<>> /\ field' = <<>>
  BY FlattenEmpty DEF Breaks
<1>3. CASE rows' = Append(rows, Append(row, field))
  <2>1. InRows' = InRows \o FlattenSeq(Append(row, field))
    BY <1>1, <1>3, RowsFlatten DEF InRows
  <2>2. FlattenSeq(Append(row, field)) = FlattenSeq(row) \o field
    BY <1>1, FlattenAppend
  <2>3. Held' = (InRows' \o <<>>) \o <<>>
    BY <1>2 DEF Held
  <2>4. InRows' = Held
    BY <2>1, <2>2, HeldType, ConcatAssoc DEF Held
  <2>. QED
    BY <2>3, <2>4, HeldType, ConcatAssoc
<1>4. CASE rows' = rows /\ row = <<>> /\ Blank(field)
  <2>1. Held' = (InRows \o <<>>) \o <<>>
    BY <1>2, <1>4 DEF Held, InRows
  <2>2. Held = (InRows \o <<>>) \o field
    BY <1>4, FlattenEmpty DEF Held
  <2>3. InRows \o <<>> = InRows
    BY HeldType, ConcatAssoc
  <2>4. Content(field) = <<>>
    <3>1. \A k \in 1..Len(field) : field[k] \in Marks
      BY <1>4 DEF Blank, Marks
    <3>. QED
      BY <1>1, <3>1, ContentNothing
  <2>5. Content(InRows \o field) = Content(InRows) \o Content(field) /\ Content(InRows) \in Seq(Chars)
    BY <1>1, HeldType, ContentConcat
  <2>6. Content(InRows) \o <<>> = Content(InRows)
    BY <2>5, ConcatAssoc
  <2>. QED
    BY <2>1, <2>2, <2>3, <2>4, <2>5, <2>6
<1>. QED
  BY <1>3, <1>4 DEF Breaks

LEMMA TurnedLosesNothing ==
    ASSUME Parser, NothingLost, Turned PROVE NothingLost'
<1>1. Content(Gone) = Content(Held) /\ (NothingLost' <=> Content(Gone') = Content(Held'))
  BY DEF NothingLost, Gone, Held, InRows
<1>0. text' = text
  BY DEF Turned
<1>q. {Quote, Comma, LF, CR} \subseteq Marks
  BY DEF Marks, White
<1>2. ASSUME NEW s \in Seq(Chars) PROVE Content(s) \in Seq(Chars) /\ Content(s) \o <<>> = Content(s)
  BY <1>2, ContentConcat, ConcatEmptySeq
<1>g. Content(Gone) \o <<>> = Content(Gone)
  BY <1>1, <1>2, HeldType
<1>3. CASE Over(1) /\ i <= Len(text) /\ Adds
  <2>1. Content(Gone') = Content(Gone) \o (IF text[i] \in Marks THEN <<>> ELSE <<text[i]>>)
    BY <1>0, <1>3, GoneGrows DEF Over
  <2>2. Content(Held') = Content(Held) \o (IF text[i] \in Marks THEN <<>> ELSE <<text[i]>>)
    BY <1>3, HeldAdds DEF Adds
  <2>. QED
    BY <1>1, <2>1, <2>2
<1>4. CASE Over(2) /\ Adds /\ text[i] = Quote /\ text[i + 1] = Quote
  <2>0. i \in Nat /\ Len(text) \in Nat
    BY DEF Parser
  <2>1. Content(Gone') = Content(Gone)
    BY <1>0, <1>4, <1>q, <2>0, GoneTwice DEF Over
  <2>2. Content(Held') = Content(Held) \o <<>>
    BY <1>4, <1>q, HeldAdds DEF Adds
  <2>. QED
    BY <1>1, <1>g, <2>1, <2>2
<1>5. CASE Over(1) /\ i <= Len(text) /\ text[i] \in {Quote, Comma, LF, CR}
           /\ (UNCHANGED <<field, row, rows>> \/ Ends \/ Breaks)
  <2>1. Content(Gone') = Content(Gone)
    BY <1>0, <1>5, <1>q, <1>g, GoneGrows DEF Over
  <2>2. Content(Held') = Content(Held)
    <3>1. CASE UNCHANGED <<field, row, rows>>
      BY <3>1 DEF Held, InRows
    <3>. QED
      BY <1>5, <3>1, HeldEnds, HeldBreaks
  <2>. QED
    BY <1>1, <2>1, <2>2
<1>6. CASE Over(2) /\ Breaks /\ text[i] = CR /\ text[i + 1] = LF
  <2>0. i \in Nat /\ Len(text) \in Nat
    BY DEF Parser
  <2>1. Content(Gone') = Content(Gone)
    BY <1>0, <1>6, <1>q, <2>0, GoneTwice DEF Over
  <2>. QED
    BY <1>1, <1>6, <2>1, HeldBreaks
<1>7. CASE i' = i /\ (Breaks \/ (field' = <<>> /\ row' = <<>> /\ row = <<>> /\ field = <<>> /\ rows' = rows))
  <2>1. Gone' = Gone
    BY <1>0, <1>7 DEF Gone
  <2>2. Content(Held') = Content(Held)
    <3>1. CASE field' = <<>> /\ row' = <<>> /\ row = <<>> /\ field = <<>> /\ rows' = rows
      BY <3>1 DEF Held, InRows
    <3>. QED
      BY <1>7, <3>1, HeldBreaks
  <2>. QED
    BY <1>1, <2>1, <2>2
<1>8. CASE Turning
  BY <1>3, <1>4, <1>5, <1>6, <1>8 DEF Turning
<1>9. CASE Ending
  BY <1>7, <1>9 DEF Ending
<1>. QED
  BY <1>8, <1>9 DEF Turned

(* The helpers of the import return what its docs are made of. *)
LEMMA DistinctType == ASSUME NEW T, NEW seq \in Seq(T) PROVE Distinct(seq) \in Seq(T)
<1>. DEFINE m == [k \in DOMAIN seq |-> IF \E l \in 1..(k - 1) : seq[l] = seq[k] THEN <<>> ELSE <<seq[k]>>]
<1>1. DOMAIN seq = 1..Len(seq) /\ Len(seq) \in Nat /\ \A k \in 1..Len(seq) : seq[k] \in T
  OBVIOUS
<1>2. m \in Seq(Seq(T))
  BY <1>1
<1>. HIDE DEF m
<1>3. FlattenSeq(m) \in Seq(T)
  BY <1>2, FlattenType
<1>. QED
  BY <1>3 DEF Distinct, m

(* where the part before a separator begins *)
LEMMA PartBegins ==
    ASSUME NEW n \in Nat, NEW ends \in SUBSET (1..n), NEW k \in 1..n
    PROVE  \E l \in {0} \cup ends : l < k /\ \A m \in ends : m < k => m <= l
<1>. DEFINE before == {l \in {0} \cup ends : l < k}
<1>0. ends \subseteq 1..n /\ k \in Nat /\ 0 < k
  OBVIOUS
<1>1. before \in SUBSET Nat /\ before # {} /\ \A l \in before : l <= k
  <2>1. 0 \in before
    BY <1>0
  <2>2. before \subseteq Nat
    <3>1. 1..n \subseteq Nat /\ 0 \in Nat
      OBVIOUS
    <3>2. {0} \cup ends \subseteq Nat
      <4>. HIDE DEF before
      <4>. QED
        BY <1>0, <3>1, Zenon
    <3>. QED
      BY <3>2, Zenon
  <2>3. \A l \in before : l <= k
    <3>1. \A l \in before : l < k /\ l \in Nat
      BY <2>2
    <3>. HIDE DEF before
    <3>. QED
      BY <1>0, <3>1
  <2>. QED
    BY <2>1, <2>2, <2>3
<1>2. PICK l \in before : \A m \in before : l >= m
  <2>. HIDE DEF before
  <2>. QED
    BY <1>0, <1>1, GreatestNumber
<1>3. \A m \in ends : m < k => m \in before
  BY <1>0
<1>. QED
  BY <1>2, <1>3

LEMMA PartsType ==
    ASSUME NEW T, NEW s \in Seq(T), NEW separators
    PROVE  Parts(s, separators) \in Seq(Seq(T))
<1>. DEFINE ends == {k \in DOMAIN s : s[k] \in separators} \cup {Len(s) + 1}
            from(k) == CHOOSE l \in {0} \cup ends : l < k /\ \A m \in ends : m < k => m <= l
            piece(k) == Trim(SubSeq(s, from(k) + 1, k - 1))
            m1 == [k \in 1..(Len(s) + 1) |-> IF k \in ends /\ piece(k) # <<>> THEN <<piece(k)>> ELSE <<>>]
<1>1. DOMAIN s = 1..Len(s) /\ Len(s) \in Nat /\ Len(s) + 1 \in Nat /\ \A k \in 1..Len(s) : s[k] \in T
  OBVIOUS
<1>2. ends \in SUBSET (1..(Len(s) + 1))
  BY <1>1
<1>3. ASSUME NEW k \in 1..(Len(s) + 1) PROVE piece(k) \in Seq(T)
  <2>1. from(k) \in {0} \cup ends
    <3>. HIDE DEF ends
    <3>1. \E l \in {0} \cup ends : l < k /\ \A m \in ends : m < k => m <= l
      BY <1>1, <1>2, PartBegins
    <3>. QED
      BY <3>1
  <2>2. from(k) \in Nat
    <3>1. {0} \cup ends \subseteq Nat
      <4>. HIDE DEF ends
      <4>. QED
        BY <1>2
    <3>. QED
      BY <2>1, <3>1
  <2>. HIDE DEF from
  <2>3. SubSeq(s, from(k) + 1, k - 1) \in Seq(T)
    <3>1. from(k) + 1 \in Int /\ k - 1 \in Int /\ \A j \in (from(k) + 1)..(k - 1) : s[j] \in T
      BY <1>1, <2>2
    <3>. QED
      BY <3>1, SubSeqProperties
  <2>. QED
    BY <2>3, Trims
<1>. HIDE DEF piece, ends
<1>4. m1 \in Seq(Seq(Seq(T)))
  BY <1>1, <1>3
<1>. HIDE DEF m1
<1>5. FlattenSeq(m1) \in Seq(Seq(T))
  BY <1>4, FlattenType
<1>. QED
  BY <1>5 DEF Parts, m1, piece, ends

(* Tags are texts. *)
LEMMA TagsType == ASSUME NEW T, NEW s \in Seq(T) PROVE Tags(s) \in Seq(Seq(T))
BY PartsType, DistinctType DEF Tags

-----------------------------------------------------------------------------
(* what a doc is, and what a row is answered with *)
Doc == [title : {s \in Seq(Chars) : Len(s) \in 1..MaxTitle}, description : {s \in Seq(Chars) : Len(s) <= MaxDescription},
        tags : {t \in Seq(Seq(Chars)) : Len(t) <= MaxTags}, status : Statuses]
Outcome == {o \in Seq(Doc) : Len(o) <= 1}

(* The object of a row has a text in every column an import reads, ... *)
LEMMA ObjectType ==
    ASSUME Parser, rows # <<>>, NEW n \in 1..Len(rows), NEW c \in {Alias[a] : a \in DOMAIN Alias}
    PROVE  CsvRowToObject(rows[n])[c] \in Seq(Chars)
<1>. DEFINE fields == rows[n]
            at1 == {k \in DOMAIN rows[1] : /\ ColumnOf(rows[1][k]) = c
                                           /\ k <= Len(fields) /\ Trim(fields[k]) # <<>>}
            last == CHOOSE k \in at1 : \A l \in at1 : k >= l
<1>1. /\ rows \in Seq(Seq(Seq(Chars))) /\ fields \in Seq(Seq(Chars)) /\ rows[1] \in Seq(Seq(Chars))
      /\ Len(fields) \in Nat /\ DOMAIN rows[1] = 1..Len(rows[1]) /\ Len(rows[1]) \in Nat
      /\ \A k \in 1..Len(fields) : fields[k] \in Seq(Chars)
  <2>1. rows \in Seq(Seq(Seq(Chars))) /\ 1 \in 1..Len(rows)
    BY DEF Parser
  <2>2. fields \in Seq(Seq(Chars)) /\ rows[1] \in Seq(Seq(Chars))
    BY <2>1
  <2>. HIDE DEF fields
  <2>. QED
    BY <2>1, <2>2
<1>2. CsvRowToObject(rows[n])[c] = IF at1 = {} THEN <<>> ELSE Trim(fields[last])
  BY DEF CsvRowToObject
<1>. HIDE DEF fields
<1>3. CASE at1 = {}
  BY <1>2, <1>3, EmptySeq
<1>4. CASE at1 # {}
  <2>1. at1 \in SUBSET Nat /\ \A k \in at1 : k <= Len(rows[1])
    BY <1>1
  <2>2. last \in at1
    <3>. HIDE DEF at1
    <3>1. \E k \in at1 : \A l \in at1 : k >= l
      BY <1>1, <1>4, <2>1, GreatestNumber
    <3>. QED
      BY <3>1
  <2>. HIDE DEF last
  <2>3. fields[last] \in Seq(Chars)
    BY <1>1, <2>2
  <2>4. Trim(fields[last]) \in Seq(Chars)
    BY <2>3, Trims
  <2>. QED
    BY <1>2, <1>4, <2>4
<1>. QED
  BY <1>3, <1>4

(* ... so that a doc made of it fits its bounds, or there is none. *)
LEMMA OutcomeType ==
    ASSUME NEW o, \A c \in {"title", "description", "status", "tags"} : o[c] \in Seq(Chars)
    PROVE  NormalizeImportRow(o) \in Outcome
<1>. DEFINE title == o["title"]
            description == o["description"]
            status == o["status"]
            tags == Tags(o["tags"])
            bad == \/ title = <<>> \/ Len(title) > MaxTitle \/ Len(description) > MaxDescription
                   \/ status # <<>> /\ (Len(status) > 1 \/ status[1] \notin Statuses)
                   \/ Len(tags) > MaxTags
            doc == [title |-> title, description |-> description, tags |-> tags,
                    status |-> IF status = <<>> THEN "pending" ELSE status[1]]
<1>1. title \in Seq(Chars) /\ description \in Seq(Chars) /\ tags \in Seq(Seq(Chars))
  BY TagsType
<1>2. NormalizeImportRow(o) = IF bad THEN <<>> ELSE <<doc>>
  BY DEF NormalizeImportRow
<1>3. CASE bad
  <2>1. <<>> \in Seq(Doc) /\ Len(<<>>) <= 1
    BY EmptySeq
  <2>. QED
    BY <1>2, <1>3, <2>1 DEF Outcome
<1>4. CASE ~bad
  <2>1. /\ title # <<>> /\ ~(Len(title) > MaxTitle) /\ ~(Len(description) > MaxDescription) /\ ~(Len(tags) > MaxTags)
        /\ (status = <<>> \/ status[1] \in Statuses)
    BY <1>4
  <2>. HIDE DEF title, description, tags, status, bad
  <2>2. /\ Len(title) \in 1..MaxTitle /\ Len(description) <= MaxDescription /\ Len(tags) <= MaxTags
    BY <1>1, <2>1, ImportExportAssumption
  <2>3. (IF status = <<>> THEN "pending" ELSE status[1]) \in Statuses
    BY <2>1, ColumnsExist
  <2>4. doc \in Doc
    BY <1>1, <2>2, <2>3 DEF Doc
  <2>. HIDE DEF doc
  <2>5. <<doc>> \in Seq(Doc) /\ Len(<<doc>>) <= 1
    BY <2>4
  <2>. QED
    BY <1>2, <1>4, <2>5 DEF Outcome
<1>. QED
  BY <1>3, <1>4

(* The rows that are answered with an error are those without a doc. *)
Answered(o) == FlattenSeq([k \in DOMAIN o |-> IF o[k] = <<>> THEN <<k - 1>> ELSE <<>>])
UpToOne(D)  == {s \in Seq(D) : Len(s) <= 1}

(* Every row is imported or answered with an error, none is both. *)
LEMMA EachAnswered ==
    ASSUME NEW D, NEW o \in Seq(UpToOne(D))
    PROVE  /\ FlattenSeq(o) \in Seq(D) /\ Answered(o) \in Seq(Int)
           /\ Len(FlattenSeq(o)) + Len(Answered(o)) = Len(o)
<1>. DEFINE U == UpToOne(D)
            Good(r) == /\ FlattenSeq(r) \in Seq(D) /\ Answered(r) \in Seq(Int)
                       /\ Len(FlattenSeq(r)) + Len(Answered(r)) = Len(r)
            S == {r \in Seq(U) : Good(r)}
            m(r) == [k \in DOMAIN r |-> IF r[k] = <<>> THEN <<k - 1>> ELSE <<>>]
<1>1. <<>> \in S
  <2>1. FlattenSeq(<<>>) = <<>>
    BY FlattenEmpty
  <2>2. [k \in DOMAIN <<>> |-> IF <<>>[k] = <<>> THEN <<k - 1>> ELSE <<>>] = <<>>
    OBVIOUS
  <2>3. Answered(<<>>) = <<>>
    BY <2>1, <2>2, Zenon DEF Answered
  <2>4. /\ FlattenSeq(<<>>) \in Seq(D) /\ Answered(<<>>) \in Seq(Int) /\ <<>> \in Seq(U)
        /\ Len(FlattenSeq(<<>>)) = 0 /\ Len(Answered(<<>>)) = 0 /\ Len(<<>>) = 0
    <3>. HIDE DEF U
    <3>. QED
      BY <2>1, <2>3, EmptySeq
  <2>5. Good(<<>>)
    BY <2>4
  <2>. HIDE DEF Good, U
  <2>. QED
    BY <2>4, <2>5
<1>2. ASSUME NEW r \in Seq(U), NEW x \in U, r \in S PROVE Append(r, x) \in S
  <2>. DEFINE a == IF x = <<>> THEN <<Len(r)>> ELSE <<>>
  <2>0. r \in Seq(Seq(D)) /\ x \in Seq(D) /\ Len(r) \in Nat /\ Len(x) + Len(a) = 1 /\ a \in Seq(Int)
    <3>1. r \in Seq(Seq(D)) /\ x \in Seq(D) /\ Len(x) <= 1
      <4>1. U \subseteq Seq(D)
        BY DEF UpToOne
      <4>. QED
        BY <4>1 DEF UpToOne
    <3>2. CASE x = <<>>
      BY <3>1, <3>2
    <3>3. CASE x # <<>>
      <4>1. Len(x) \in Nat /\ Len(x) # 0
        BY <3>1, <3>3, EmptySeq
      <4>2. Len(x) = 1
        <5>. DEFINE y == Len(x)
        <5>1. y \in Nat /\ y # 0 /\ y <= 1
          BY <3>1, <4>1
        <5>. HIDE DEF y
        <5>2. y = 1
          BY <5>1
        <5>. QED
          BY <5>2 DEF y
      <4>3. Len(<<>>) = 0 /\ <<>> \in Seq(Int)
        BY EmptySeq
      <4>. QED
        BY <3>1, <3>3, <4>2, <4>3
    <3>. QED
      BY <3>2, <3>3
  <2>1. FlattenSeq(Append(r, x)) = FlattenSeq(r) \o x
    BY <2>0, FlattenAppend
  <2>2. m(r) \in Seq(Seq(Int))
    <3>1. DOMAIN r = 1..Len(r)
      OBVIOUS
    <3>. QED
      BY <2>0, <3>1
  <2>3. m(Append(r, x)) = Append(m(r), a)
    BY DEF UpToOne
  <2>4. Answered(Append(r, x)) = Answered(r) \o a
    <3>. HIDE DEF m, a
    <3>1. FlattenSeq(m(Append(r, x))) = FlattenSeq(m(r)) \o a
      BY <2>0, <2>2, <2>3, FlattenAppend
    <3>. QED
      BY <3>1 DEF Answered, m
  <2>. HIDE DEF a
  <2>5. FlattenSeq(r) \in Seq(D) /\ Answered(r) \in Seq(Int)
    BY <1>2
  <2>6. /\ FlattenSeq(r) \o x \in Seq(D) /\ Len(FlattenSeq(r) \o x) = Len(FlattenSeq(r)) + Len(x)
        /\ Answered(r) \o a \in Seq(Int) /\ Len(Answered(r) \o a) = Len(Answered(r)) + Len(a)
        /\ Len(FlattenSeq(r)) \in Nat /\ Len(Answered(r)) \in Nat /\ Len(x) \in Nat /\ Len(a) \in Nat
    BY <2>0, <2>5, ConcatProperties
  <2>7. Append(r, x) \in Seq(U) /\ Len(Append(r, x)) = Len(r) + 1
    BY AppendProperties
  <2>8. Len(FlattenSeq(r)) + Len(Answered(r)) = Len(r)
    BY <1>2
  <2>9. Len(FlattenSeq(r) \o x) + Len(Answered(r) \o a) = Len(r) + 1
    <3>. DEFINE b == Len(FlattenSeq(r))
                c == Len(Answered(r))
                d == Len(x)
                e == Len(a)
                n == Len(r)
    <3>1. b \in Nat /\ c \in Nat /\ d \in Nat /\ e \in Nat /\ n \in Nat /\ d + e = 1 /\ b + c = n
      BY <2>0, <2>6, <2>8
    <3>2. Len(FlattenSeq(r) \o x) = b + d /\ Len(Answered(r) \o a) = c + e
      BY <2>6
    <3>. HIDE DEF b, c, d, e, n
    <3>3. (b + d) + (c + e) = n + 1
      BY <3>1
    <3>. QED
      BY <3>2, <3>3 DEF n
  <2>. QED
    BY <2>1, <2>4, <2>6, <2>7, <2>9
<1>. HIDE DEF Good
<1>3. Seq(U) \subseteq S
  <2>. HIDE DEF S, U
  <2>. QED
    BY <1>1, <1>2, SeqSet
<1>. QED
  BY <1>3 DEF Good

-----------------------------------------------------------------------------
(* What is made of the rows once the text is parsed. *)
DocsFit ==
    /\ docs \in Seq(Doc)
    /\ pc = "done" => Len(docs) + Len(failed) = Len(rows) - 1

LEMMA OutcomesType ==
    ASSUME Parser, Len(rows) >= 2
    PROVE  [k \in 1..(Len(rows) - 1) |-> NormalizeImportRow(CsvRowToObject(rows[k + 1]))] \in Seq(UpToOne(Doc))
<1>1. Len(rows) \in Nat /\ Len(rows) - 1 \in Nat /\ rows # <<>>
  BY DEF Parser
<1>2. ASSUME NEW k \in 1..(Len(rows) - 1) PROVE NormalizeImportRow(CsvRowToObject(rows[k + 1])) \in UpToOne(Doc)
  <2>1. k + 1 \in 1..Len(rows)
    BY <1>1
  <2>2. \A c \in {"title", "description", "status", "tags"} : c \in {Alias[a] : a \in DOMAIN Alias}
    BY ColumnsExist
  <2>3. \A c \in {"title", "description", "status", "tags"} : CsvRowToObject(rows[k + 1])[c] \in Seq(Chars)
    BY <1>1, <2>1, <2>2, ObjectType
  <2>. QED
    BY <2>3, OutcomeType DEF Outcome, UpToOne
<1>. QED
  BY <1>1, <1>2

(* The last step imports docs that fit, and no other step changes them. *)
LEMMA ImportFits ==
    ASSUME Parser, DocsFit, ImportTasks \/ Refuse PROVE Parser' /\ DocsFit' /\ (NothingLost => NothingLost')
<1>1. /\ UNCHANGED <<source, text, i, inQuotes, field, row, rows>> /\ pc = "import"
      /\ pc' \in {"done", "refused"}
  BY DEF ImportTasks, Refuse
<1>2. Parser' /\ Chars' = Chars
  BY <1>1 DEF Parser, Chars
<1>3. NothingLost => NothingLost'
  BY <1>1 DEF NothingLost
<1>4. CASE Refuse
  <2>1. UNCHANGED docs /\ pc' = "refused"
    BY <1>4 DEF Refuse
  <2>2. DocsFit'
    BY <1>2, <2>1 DEF DocsFit, Doc
  <2>. QED
    BY <1>2, <1>3, <2>2
<1>5. CASE ImportTasks
  <2>. DEFINE outcome == [k \in 1..(Len(rows) - 1) |-> NormalizeImportRow(CsvRowToObject(rows[k + 1]))]
  <2>1. Len(rows) >= 2 /\ Len(rows) \in Nat /\ outcome \in Seq(UpToOne(Doc)) /\ Len(outcome) = Len(rows) - 1
    <3>1. Len(rows) >= 2 /\ Len(rows) \in Nat /\ Len(rows) - 1 \in Nat
      BY <1>5 DEF ImportTasks, Parser
    <3>. QED
      BY <3>1, OutcomesType
  <2>2. docs' = FlattenSeq(outcome) /\ failed' = Answered(outcome)
    BY <1>5 DEF ImportTasks, Answered
  <2>. HIDE DEF outcome
  <2>3. docs' \in Seq(Doc) /\ Len(docs') + Len(failed') = Len(rows) - 1
    BY <2>1, <2>2, EachAnswered
  <2>4. DocsFit'
    BY <1>1, <1>2, <2>3 DEF DocsFit, Doc
  <2>. QED
    BY <1>2, <1>3, <2>4
<1>. QED
  BY <1>4, <1>5

LEMMA TurnedFits == ASSUME Parser, DocsFit, Turned PROVE DocsFit'
<1>1. UNCHANGED <<text, docs>> /\ pc' \in {"parse", "import"}
  BY DEF Turned, Turning, Ending
<1>. QED
  BY <1>1 DEF DocsFit, Doc, Chars

(* The invariant is strong enough for the typing a run checks. *)
LEMMA TypesFollow == ASSUME Parser, DocsFit PROVE ImportTypeOK
<1>1. ASSUME NEW k \in DOMAIN rows, NEW l \in DOMAIN rows[k] PROVE rows[k][l] \in Seq(Chars)
  <2>1. rows[k] \in Seq(Seq(Chars))
    BY <1>1 DEF Parser
  <2>. QED
    BY <1>1, <2>1
<1>2. ASSUME NEW k \in DOMAIN docs
      PROVE  /\ Len(docs[k].title) \in 1..MaxTitle /\ Len(docs[k].description) <= MaxDescription
             /\ docs[k].status \in Statuses /\ Len(docs[k].tags) <= MaxTags
  <2>1. docs[k] \in Doc
    BY DEF DocsFit
  <2>. QED
    BY <2>1 DEF Doc
<1>. QED
  BY <1>1, <1>2 DEF ImportTypeOK, Parser, DocsFit, Chars

(* What Joined puts together, and what is left of it after k of them. *)
Pieces(seqs, sep)   == [k \in DOMAIN seqs |-> IF k = 1 THEN seqs[k] ELSE <<sep>> \o seqs[k]]
After(seqs, sep, k) == FlattenSeq(SubSeq(Pieces(seqs, sep), k + 1, Len(seqs)))

LEMMA PiecesType ==
    ASSUME NEW C, NEW seqs \in Seq(Seq(C)), NEW sep \in C
    PROVE  /\ Pieces(seqs, sep) \in Seq(Seq(C)) /\ Len(Pieces(seqs, sep)) = Len(seqs)
           /\ \A k \in 1..Len(seqs) : Pieces(seqs, sep)[k] = IF k = 1 THEN seqs[k] ELSE <<sep>> \o seqs[k]
<1>1. DOMAIN seqs = 1..Len(seqs) /\ Len(seqs) \in Nat /\ \A k \in 1..Len(seqs) : seqs[k] \in Seq(C)
  OBVIOUS
<1>2. \A k \in 1..Len(seqs) : (IF k = 1 THEN seqs[k] ELSE <<sep>> \o seqs[k]) \in Seq(C)
  BY <1>1
<1>3. Pieces(seqs, sep) \in [1..Len(seqs) -> Seq(C)]
  BY <1>1, <1>2 DEF Pieces
<1>. QED
  BY <1>1, <1>3 DEF Pieces

LEMMA AfterEach ==
    ASSUME NEW C, NEW seqs \in Seq(Seq(C)), NEW sep \in C
    PROVE  /\ Joined(seqs, sep) = After(seqs, sep, 0) /\ After(seqs, sep, Len(seqs)) = <<>>
           /\ Joined(seqs, sep) \in Seq(C)
           /\ \A k \in 0..Len(seqs) : After(seqs, sep, k) \in Seq(C)
           /\ \A k \in 0..(Len(seqs) - 1) :
                After(seqs, sep, k) = (IF k = 0 THEN seqs[k + 1] ELSE <<sep>> \o seqs[k + 1]) \o After(seqs, sep, k + 1)
<1>. DEFINE m == Pieces(seqs, sep)
            n == Len(seqs)
<1>1. /\ m \in Seq(Seq(C)) /\ Len(m) = n /\ n \in Nat
      /\ \A k \in 1..n : m[k] = IF k = 1 THEN seqs[k] ELSE <<sep>> \o seqs[k]
  BY PiecesType
<1>2. Joined(seqs, sep) = FlattenSeq(m) /\ \A k : After(seqs, sep, k) = FlattenSeq(SubSeq(m, k + 1, n))
  BY DEF Joined, Pieces, After
<1>. HIDE DEF m, n
<1>3. SubSeq(m, 0 + 1, n) = m
  BY <1>1, SubSeqFull
<1>4. SubSeq(m, n + 1, n) = <<>>
  BY <1>1, SubSeqEmpty
<1>5. ASSUME NEW k \in 0..n PROVE SubSeq(m, k + 1, n) \in Seq(Seq(C))
  <2>1. k + 1 \in Int /\ n \in Int /\ \A j \in (k + 1)..n : m[j] \in Seq(C)
    BY <1>1
  <2>. QED
    BY <2>1, SubSeqProperties
<1>6. ASSUME NEW k \in 0..(n - 1)
      PROVE  After(seqs, sep, k) = (IF k = 0 THEN seqs[k + 1] ELSE <<sep>> \o seqs[k + 1]) \o After(seqs, sep, k + 1)
  <2>1. k + 1 \in 1..n /\ k + 1 \in 0..n /\ n \in (k + 1)..n /\ m[k + 1] \in Seq(C)
    BY <1>1
  <2>2. SubSeq(m, k + 1, n) = <<m[k + 1]>> \o SubSeq(m, (k + 1) + 1, n)
    BY <1>1, <2>1, SubSeqRecursiveFirst
  <2>. DEFINE r == SubSeq(m, (k + 1) + 1, n)
              h == <<m[k + 1]>>
  <2>3. r \in Seq(Seq(C)) /\ h \in Seq(Seq(C))
    BY <1>5, <2>1
  <2>4. FlattenSeq(h) = m[k + 1]
    BY <2>1, FlattenOne
  <2>. HIDE DEF r, h
  <2>5. FlattenSeq(h \o r) = FlattenSeq(h) \o FlattenSeq(r)
    BY <2>3, FlattenConcat
  <2>6. k + 1 = 1 <=> k = 0
    BY <1>1
  <2>. QED
    BY <1>1, <1>2, <2>1, <2>2, <2>4, <2>5, <2>6 DEF r, h
<1>7. ASSUME NEW k \in 0..n PROVE After(seqs, sep, k) \in Seq(C)
  BY <1>2, <1>5, <1>7, FlattenType
<1>. QED
  BY <1>1, <1>2, <1>3, <1>4, <1>6, <1>7, FlattenEmpty, FlattenType DEF n

-----------------------------------------------------------------------------
(* A cell, with every quote of it twice. *)
Doubled(s) == FlattenSeq([k \in DOMAIN s |-> IF s[k] = Quote THEN <<Quote, Quote>> ELSE <<s[k]>>])
Quoted(s)  == Has(s, {Quote, Comma, LF})

(* CsvEscape doubles the quotes of a cell one by one. *)
LEMMA DoubledParts ==
    ASSUME NEW C, Quote \in C, NEW s \in Seq(C), NEW x \in C
    PROVE  /\ Doubled(s) \in Seq(C) /\ Doubled(<<>>) = <<>>
           /\ Doubled(<<x>> \o s) = (IF x = Quote THEN <<Quote, Quote>> ELSE <<x>>) \o Doubled(s)
<1>. DEFINE g == [c \in C |-> IF c = Quote THEN <<Quote, Quote>> ELSE <<c>>]
            one == <<x>>
<1>1. Replaces(g, C, C)
  <2>1. \A c \in C : (IF c = Quote THEN <<Quote, Quote>> ELSE <<c>>) \in Seq(C)
    OBVIOUS
  <2>. QED
    BY <2>1 DEF Replaces
<1>2. ASSUME NEW r \in Seq(C) PROVE Doubled(r) = Spread(g, r)
  <2>1. \A k \in DOMAIN r : g[r[k]] = IF r[k] = Quote THEN <<Quote, Quote>> ELSE <<r[k]>>
    OBVIOUS
  <2>. HIDE DEF g
  <2>. QED
    BY <2>1, Zenon DEF Doubled, Spread
<1>3. g[x] = IF x = Quote THEN <<Quote, Quote>> ELSE <<x>>
  OBVIOUS
<1>4. one \in Seq(C) /\ one \o s \in Seq(C)
  OBVIOUS
<1>. HIDE DEF g
<1>5. Spread(g, s) \in Seq(C)
  BY <1>1, SpreadType
<1>6. Spread(g, one) = g[x] /\ Spread(g, <<>>) = <<>>
  BY <1>1, SpreadOne
<1>. HIDE DEF one
<1>7. Spread(g, one \o s) = Spread(g, one) \o Spread(g, s)
  BY <1>1, <1>4, SpreadConcat
<1>8. Doubled(<<>>) = <<>>
  BY <1>2, <1>6, EmptySeq
<1>9. Doubled(one \o s) = (IF x = Quote THEN <<Quote, Quote>> ELSE <<x>>) \o Doubled(s)
  BY <1>2, <1>3, <1>4, <1>6, <1>7
<1>. QED
  BY <1>2, <1>5, <1>8, <1>9 DEF one

LEMMA EscapeType ==
    ASSUME NEW C, Quote \in C, NEW s \in Seq(C)
    PROVE  /\ CsvEscape(s) \in Seq(C)
           /\ CsvEscape(s) = IF Quoted(s) THEN <<Quote>> \o Doubled(s) \o <<Quote>> ELSE s
<1>1. CsvEscape(s) = IF Quoted(s) THEN <<Quote>> \o Doubled(s) \o <<Quote>> ELSE s
  BY Zenon DEF CsvEscape, Quoted, Doubled
<1>2. Doubled(s) \in Seq(C)
  BY DoubledParts
<1>3. <<Quote>> \o Doubled(s) \o <<Quote>> \in Seq(C)
  BY <1>2
<1>. QED
  BY <1>1, <1>3

(* the characters of an export *)
Signs(tasks) ==
    {Quote, Comma, Semi, LF, "_id", "title", "description", "status", "tags"}
    \cup UNION {{t.id, t.status} \cup ToSet(t.title) \cup ToSet(t.description) \cup UNION {ToSet(s) : s \in ToSet(t.tags)} :
                  t \in ToSet(tasks)}
Escapes(r) == [k \in DOMAIN r |-> CsvEscape(r[k])]
CsvLine(r)   == Joined(Escapes(r), Comma)
CsvLines(tasks) == [k \in DOMAIN Table(tasks) |-> CsvLine(Table(tasks)[k])]

(* An export, its lines, rows and cells, are made of the characters above. *)
LEMMA TaskType ==
    ASSUME NEW tasks \in Stored, NEW t \in ToSet(tasks)
    PROVE  /\ t.id \in Signs(tasks) /\ t.status \in Signs(tasks) /\ t.title \in Seq(Signs(tasks))
           /\ t.description \in Seq(Signs(tasks)) /\ t.tags \in Seq(Seq(Signs(tasks)))
<1>. DEFINE of(u) == {u.id, u.status} \cup ToSet(u.title) \cup ToSet(u.description) \cup UNION {ToSet(s) : s \in ToSet(u.tags)}
            C == Signs(tasks)
<1>1. of(t) \subseteq C
  <2>1. UNION {of(u) : u \in ToSet(tasks)} \subseteq C
    BY DEF Signs
  <2>. HIDE DEF of, C
  <2>. QED
    BY <2>1
<1>2. /\ {t.id, t.status} \subseteq of(t) /\ ToSet(t.title) \subseteq of(t) /\ ToSet(t.description) \subseteq of(t)
      /\ \A s \in ToSet(t.tags) : ToSet(s) \subseteq of(t)
  OBVIOUS
<1>. HIDE DEF of, C
<1>3. /\ t.title \in Seq(ToSet(t.title)) /\ t.description \in Seq(ToSet(t.description))
      /\ t.tags \in Seq(ToSet(t.tags)) /\ \A s \in ToSet(t.tags) : s \in Seq(ToSet(s))
  BY StoredAreTasks
<1>4. \A s \in ToSet(t.tags) : s \in Seq(C)
  BY <1>1, <1>2, <1>3, SeqMonotonic
<1>5. t.title \in Seq(C) /\ t.description \in Seq(C)
  BY <1>1, <1>2, <1>3, SeqMonotonic
<1>6. t.tags \in Seq(Seq(C))
  <2>1. ToSet(t.tags) \subseteq Seq(C)
    BY <1>4
  <2>. QED
    BY <1>3, <2>1, SeqMonotonic
<1>. QED
  BY <1>1, <1>2, <1>5, <1>6 DEF C

LEMMA CellsType ==
    ASSUME NEW tasks \in Stored, NEW t \in ToSet(tasks)
    PROVE  Cells(t) \in Seq(Seq(Signs(tasks))) /\ Len(Cells(t)) = 5
<1>. DEFINE C == Signs(tasks)
            tags == Joined(t.tags, Semi)
<1>1. t.id \in C /\ t.status \in C /\ t.title \in Seq(C) /\ t.description \in Seq(C) /\ t.tags \in Seq(Seq(C)) /\ Semi \in C
  BY TaskType DEF Signs
<1>. HIDE DEF C
<1>2. tags \in Seq(C)
  BY <1>1, AfterEach
<1>3. <<t.id>> \in Seq(C) /\ <<t.status>> \in Seq(C)
  BY <1>1
<1>4. Cells(t) = << <<t.id>>, t.title, t.description, <<t.status>>, tags >>
  BY DEF Cells
<1>. DEFINE id == <<t.id>>
            status == <<t.status>>
            title == t.title
            description == t.description
            S == Seq(C)
<1>5. id \in S /\ status \in S /\ title \in S /\ description \in S /\ tags \in S
  BY <1>1, <1>2, <1>3
<1>6. Cells(t) = << id, title, description, status, tags >>
  BY <1>4
<1>. HIDE DEF id, status, title, description, tags, S
<1>7. << id, title, description, status, tags >> \in Seq(S) /\ Len(<< id, title, description, status, tags >>) = 5
  BY <1>5
<1>. QED
  BY <1>6, <1>7 DEF S, C

LEMMA TableType ==
    ASSUME NEW tasks \in Stored
    PROVE  /\ Table(tasks) \in Seq(Seq(Seq(Signs(tasks)))) /\ Len(Table(tasks)) = Len(tasks) + 1 /\ Len(tasks) \in Nat
           /\ tasks \in Seq(ToSet(tasks)) /\ Table(tasks)[1] = Header
           /\ \A k \in 1..Len(tasks) : Table(tasks)[k + 1] = Cells(tasks[k])
           /\ \A k \in 1..Len(Table(tasks)) : Len(Table(tasks)[k]) = 5
<1>. DEFINE C == Signs(tasks)
            rest == [k \in DOMAIN tasks |-> Cells(tasks[k])]
            head == <<Header>>
            R == {r \in Seq(Seq(C)) : Len(r) = 5}
<1>1. tasks \in Seq(ToSet(tasks)) /\ Len(tasks) \in Nat /\ DOMAIN tasks = 1..Len(tasks)
      /\ \A k \in 1..Len(tasks) : tasks[k] \in ToSet(tasks)
  BY StoredAreTasks
<1>2. \A k \in 1..Len(tasks) : Cells(tasks[k]) \in R
  BY <1>1, CellsType
<1>3. Header \in R
  <2>. DEFINE S == Seq(C)
              a == <<"_id">>
              b == <<"title">>
              c == <<"description">>
              d == <<"status">>
              e == <<"tags">>
  <2>1. a \in S /\ b \in S /\ c \in S /\ d \in S /\ e \in S
    <3>1. {"_id", "title", "description", "status", "tags"} \subseteq C
      BY DEF Signs
    <3>. HIDE DEF C
    <3>. QED
      BY <3>1
  <2>2. Header = <<a, b, c, d, e>>
    BY DEF Header
  <2>. HIDE DEF a, b, c, d, e, S
  <2>3. <<a, b, c, d, e>> \in Seq(S) /\ Len(<<a, b, c, d, e>>) = 5
    BY <2>1
  <2>. QED
    BY <2>2, <2>3 DEF S
<1>. HIDE DEF C
<1>4. rest \in Seq(R) /\ Len(rest) = Len(tasks) /\ \A k \in 1..Len(tasks) : rest[k] = Cells(tasks[k])
  <2>. HIDE DEF R
  <2>. QED
    BY <1>1, <1>2
<1>5. head \in Seq(R) /\ Len(head) = 1 /\ head[1] = Header
  <2>. HIDE DEF R
  <2>. QED
    BY <1>3
<1>6. Table(tasks) = head \o rest
  BY DEF Table
<1>7. R \subseteq Seq(Seq(C)) /\ \A r \in R : Len(r) = 5
  OBVIOUS
<1>. HIDE DEF head, rest, R
<1>8. /\ Table(tasks) \in Seq(R) /\ Len(Table(tasks)) = 1 + Len(tasks)
      /\ \A k \in 1..(1 + Len(tasks)) : Table(tasks)[k] = IF k <= 1 THEN head[k] ELSE rest[k - 1]
  <2>1. /\ head \o rest \in Seq(R) /\ Len(head \o rest) = Len(head) + Len(rest)
        /\ \A k \in 1..(Len(head) + Len(rest)) : (head \o rest)[k] = IF k <= Len(head) THEN head[k] ELSE rest[k - Len(head)]
    BY <1>4, <1>5, ConcatProperties
  <2>2. Len(head) = 1 /\ Len(rest) = Len(tasks)
    BY <1>4, <1>5
  <2>3. \A k \in 1..(1 + Len(tasks)) : (head \o rest)[k] = IF k <= 1 THEN head[k] ELSE rest[k - 1]
    BY ONLY <2>1, <2>2, Zenon
  <2>4. Len(head \o rest) = 1 + Len(tasks)
    BY ONLY <2>1, <2>2, Zenon
  <2>5. Table(tasks) \in Seq(R) /\ Len(Table(tasks)) = 1 + Len(tasks)
    BY ONLY <1>6, <2>1, <2>4, Zenon
  <2>6. \A k \in 1..(1 + Len(tasks)) : Table(tasks)[k] = IF k <= 1 THEN head[k] ELSE rest[k - 1]
    <3>. TAKE k \in 1..(1 + Len(tasks))
    <3>1. (head \o rest)[k] = IF k <= 1 THEN head[k] ELSE rest[k - 1]
      BY <2>3
    <3>2. Table(tasks)[k] = (head \o rest)[k]
      BY <1>6, Zenon
    <3>. QED
      BY ONLY <3>1, <3>2
  <2>. QED
    BY ONLY <2>5, <2>6, Zenon
<1>9. Table(tasks) \in Seq(Seq(Seq(C)))
  BY <1>7, <1>8, SeqMonotonic
<1>10. Table(tasks)[1] = Header
  BY <1>1, <1>5, <1>8
<1>11. ASSUME NEW k \in 1..Len(tasks) PROVE Table(tasks)[k + 1] = Cells(tasks[k])
  <2>1. k + 1 \in 1..(1 + Len(tasks)) /\ ~(k + 1 <= 1) /\ (k + 1) - 1 = k
    BY <1>1
  <2>. QED
    BY <1>4, <1>8, <2>1
<1>12. \A k \in 1..Len(Table(tasks)) : Len(Table(tasks)[k]) = 5
  BY <1>7, <1>8
<1>13. Len(Table(tasks)) = Len(tasks) + 1
  BY <1>1, <1>8
<1>. QED
  BY <1>1, <1>9, <1>10, <1>11, <1>12, <1>13 DEF C

LEMMA LineType ==
    ASSUME NEW C, {Quote, Comma} \subseteq C, NEW r \in Seq(Seq(C))
    PROVE  /\ Escapes(r) \in Seq(Seq(C)) /\ Len(Escapes(r)) = Len(r)
           /\ \A k \in 1..Len(r) : Escapes(r)[k] = CsvEscape(r[k])
           /\ CsvLine(r) \in Seq(C)
<1>1. DOMAIN r = 1..Len(r) /\ Len(r) \in Nat /\ \A k \in 1..Len(r) : r[k] \in Seq(C)
  OBVIOUS
<1>2. \A k \in 1..Len(r) : CsvEscape(r[k]) \in Seq(C)
  BY <1>1, EscapeType
<1>3. Escapes(r) \in [1..Len(r) -> Seq(C)]
  BY <1>1, <1>2 DEF Escapes
<1>4. Escapes(r) \in Seq(Seq(C)) /\ Len(Escapes(r)) = Len(r)
  BY <1>1, <1>3
<1>5. Joined(Escapes(r), Comma) \in Seq(C)
  BY <1>4, AfterEach
<1>. QED
  BY <1>1, <1>4, <1>5 DEF Escapes, CsvLine

LEMMA ExportType ==
    ASSUME NEW tasks \in Stored
    PROVE  /\ CsvLines(tasks) \in Seq(Seq(Signs(tasks))) /\ Len(CsvLines(tasks)) = Len(Table(tasks))
           /\ \A k \in 1..Len(Table(tasks)) : CsvLines(tasks)[k] = CsvLine(Table(tasks)[k])
           /\ ExportTasks(tasks) = Joined(CsvLines(tasks), LF) /\ ExportTasks(tasks) \in Seq(Signs(tasks))
<1>. DEFINE C == Signs(tasks)
            table == Table(tasks)
<1>0. {Quote, Comma, LF} \subseteq C
  BY DEF Signs
<1>1. table \in Seq(Seq(Seq(C))) /\ DOMAIN table = 1..Len(table) /\ Len(table) \in Nat
      /\ \A k \in 1..Len(table) : table[k] \in Seq(Seq(C))
  BY TableType
<1>2. CsvLines(tasks) = [k \in 1..Len(table) |-> CsvLine(table[k])]
  BY <1>1 DEF CsvLines
<1>3. ExportTasks(tasks) = Joined(CsvLines(tasks), LF)
  BY Zenon DEF ExportTasks, CsvLines, CsvLine, Escapes
<1>. HIDE DEF C, table
<1>4. \A k \in 1..Len(table) : CsvLine(table[k]) \in Seq(C)
  BY <1>0, <1>1, LineType
<1>5. CsvLines(tasks) \in [1..Len(table) -> Seq(C)]
  BY <1>2, <1>4
<1>6. CsvLines(tasks) \in Seq(Seq(C)) /\ Len(CsvLines(tasks)) = Len(table) /\ \A k \in 1..Len(table) : CsvLines(tasks)[k] = CsvLine(table[k])
  <2>. DEFINE n == Len(table)
              l == CsvLines(tasks)
  <2>1. n \in Nat /\ l \in [1..n -> Seq(C)]
    BY <1>1, <1>5
  <2>. HIDE DEF n, l
  <2>2. l \in Seq(Seq(C)) /\ Len(l) = n
    BY <2>1
  <2>3. \A k \in 1..Len(table) : CsvLines(tasks)[k] = CsvLine(table[k])
    BY <1>2
  <2>. QED
    BY <2>2, <2>3 DEF n, l
<1>7. Joined(CsvLines(tasks), LF) \in Seq(C)
  BY <1>0, <1>6, AfterEach
<1>. QED
  BY <1>3, <1>6, <1>7 DEF C, table

(* A text in three parts. *)
LEMMA ThreeParts ==
    ASSUME NEW T, NEW a \in Seq(T), NEW b \in Seq(T), NEW c \in Seq(T)
    PROVE  (a \o b) \o c = a \o (b \o c)
BY ConcatAssociative

(* What is left of a row after some of its cells, and of the lines. *)
LEMMA CellsAfter ==
    ASSUME NEW C, {Quote, Comma} \subseteq C, NEW r \in Seq(Seq(C)), Len(r) = 5
    PROVE  /\ \A d \in 1..5 : After(Escapes(r), Comma, d) \in Seq(C) /\ CsvEscape(r[d]) \in Seq(C)
           /\ After(Escapes(r), Comma, 5) = <<>>
           /\ CsvLine(r) = CsvEscape(r[1]) \o After(Escapes(r), Comma, 1)
           /\ \A d \in 1..4 : After(Escapes(r), Comma, d) = (<<Comma>> \o CsvEscape(r[d + 1])) \o After(Escapes(r), Comma, d + 1)
<1>. DEFINE e == Escapes(r)
            A(d) == After(e, Comma, d)
<1>1. e \in Seq(Seq(C)) /\ Len(e) = 5 /\ CsvLine(r) = Joined(e, Comma)
  BY LineType DEF CsvLine
<1>2. \A d \in 1..5 : e[d] = CsvEscape(r[d])
  BY LineType
<1>. HIDE DEF e
<1>3. \A d \in 1..5 : e[d] \in Seq(C)
  <2>. DEFINE S == Seq(C)
  <2>1. e \in Seq(S) /\ Len(e) = 5
    BY <1>1
  <2>. HIDE DEF S
  <2>2. \A d \in 1..5 : e[d] \in S
    BY <2>1, ElementOfSeq
  <2>. QED
    BY <2>2 DEF S
<1>4. /\ Joined(e, Comma) = A(0) /\ A(Len(e)) = <<>>
      /\ \A d \in 0..Len(e) : A(d) \in Seq(C)
      /\ \A d \in 0..(Len(e) - 1) : A(d) = (IF d = 0 THEN e[d + 1] ELSE <<Comma>> \o e[d + 1]) \o A(d + 1)
  BY <1>1, AfterEach
<1>. HIDE DEF A
<1>5. Joined(e, Comma) = e[1] \o A(1)
  <2>1. 0 \in 0..(Len(e) - 1) /\ 0 + 1 = 1
    BY <1>1
  <2>. QED
    BY <1>4, <2>1
<1>6. ASSUME NEW d \in 1..4 PROVE A(d) = (<<Comma>> \o e[d + 1]) \o A(d + 1)
  <2>1. d \in 0..(Len(e) - 1) /\ d # 0
    BY <1>1
  <2>. QED
    BY <1>4, <2>1
<1>7. A(5) = <<>> /\ \A d \in 1..5 : A(d) \in Seq(C)
  <2>1. Len(e) = 5 /\ \A d \in 1..5 : d \in 0..Len(e)
    BY <1>1
  <2>. QED
    BY <1>4, <2>1
<1>8. \A d \in 1..4 : d + 1 \in 1..5
  OBVIOUS
<1>9. \A d \in 1..4 : A(d) = (<<Comma>> \o CsvEscape(r[d + 1])) \o A(d + 1)
  BY <1>2, <1>6, <1>8
<1>10. CsvLine(r) = CsvEscape(r[1]) \o A(1)
  BY <1>1, <1>2, <1>5
<1>11. \A d \in 1..5 : A(d) \in Seq(C) /\ CsvEscape(r[d]) \in Seq(C)
  BY <1>2, <1>3, <1>7
<1>. QED
  BY <1>7, <1>9, <1>10, <1>11 DEF A, e

(* An export is its first line and what is after it. *)
LEMMA LinesAfter ==
    ASSUME NEW tasks \in Stored
    PROVE  /\ \A j \in 0..Len(Table(tasks)) : After(CsvLines(tasks), LF, j) \in Seq(Signs(tasks))
           /\ After(CsvLines(tasks), LF, Len(Table(tasks))) = <<>>
           /\ ExportTasks(tasks) = CsvLine(Table(tasks)[1]) \o After(CsvLines(tasks), LF, 1)
           /\ \A j \in 1..(Len(Table(tasks)) - 1) :
                After(CsvLines(tasks), LF, j) = (<<LF>> \o CsvLine(Table(tasks)[j + 1])) \o After(CsvLines(tasks), LF, j + 1)
<1>. DEFINE C == Signs(tasks)
            t == Table(tasks)
            n == Len(t)
            l == CsvLines(tasks)
            A(d) == After(l, LF, d)
<1>1. l \in Seq(Seq(C)) /\ Len(l) = n /\ LF \in C /\ n \in Nat \ {0} /\ ExportTasks(tasks) = Joined(l, LF)
  <2>1. LF \in C
    BY DEF Signs
  <2>2. n \in Nat \ {0}
    BY TableType
  <2>. QED
    BY <2>1, <2>2, ExportType
<1>2. \A j \in 1..n : l[j] = CsvLine(t[j])
  BY ExportType
<1>. HIDE DEF C, t, n, l
<1>4. /\ Joined(l, LF) = A(0) /\ A(n) = <<>>
      /\ \A d \in 0..n : A(d) \in Seq(C)
      /\ \A d \in 0..(n - 1) : A(d) = (IF d = 0 THEN l[d + 1] ELSE <<LF>> \o l[d + 1]) \o A(d + 1)
  BY <1>1, AfterEach
<1>. HIDE DEF A
<1>5. Joined(l, LF) = l[1] \o A(1)
  <2>1. 0 \in 0..(n - 1) /\ 0 + 1 = 1
    BY <1>1
  <2>. QED
    BY <1>4, <2>1
<1>6. ASSUME NEW d \in 1..(n - 1) PROVE A(d) = (<<LF>> \o CsvLine(t[d + 1])) \o A(d + 1)
  <2>1. d \in 0..(n - 1) /\ d # 0 /\ d + 1 \in 1..n
    BY <1>1
  <2>. QED
    BY <1>2, <1>4, <2>1
<1>7. ExportTasks(tasks) = CsvLine(t[1]) \o A(1)
  <2>1. l[1] = CsvLine(t[1])
    BY <1>1, <1>2
  <2>. QED
    BY <1>1, <1>5, <2>1
<1>. QED
  BY <1>4, <1>6, <1>7 DEF A, l, n, t, C

(* What of an export stands behind cell c of row k. *)
Behind(tasks, k, c) == After(Escapes(Table(tasks)[k]), Comma, c) \o After(CsvLines(tasks), LF, k)

(* Each row of an export has five cells. *)
LEMMA RowType ==
    ASSUME NEW tasks \in Stored, NEW k \in 1..Len(Table(tasks))
    PROVE  /\ Table(tasks)[k] \in Seq(Seq(Signs(tasks))) /\ Len(Table(tasks)[k]) = 5
           /\ \A c \in 1..5 : Table(tasks)[k][c] \in Seq(Signs(tasks))
           /\ {Quote, Comma, LF} \subseteq Signs(tasks)
<1>. DEFINE C == Signs(tasks)
            t == Table(tasks)
<1>1. t \in Seq(Seq(Seq(C))) /\ Len(t[k]) = 5
  BY TableType
<1>2. {Quote, Comma, LF} \subseteq C
  BY DEF Signs
<1>. HIDE DEF C
<1>3. t[k] \in Seq(Seq(C))
  <2>. HIDE DEF t
  <2>. QED
    BY <1>1 DEF t
<1>. DEFINE r == t[k]
<1>4. r \in Seq(Seq(C)) /\ Len(r) = 5
  BY <1>1, <1>3
<1>. HIDE DEF r
<1>5. \A c \in 1..5 : r[c] \in Seq(C)
  <2>. DEFINE S == Seq(C)
  <2>1. r \in Seq(S) /\ Len(r) = 5
    BY <1>4
  <2>. HIDE DEF S
  <2>2. \A c \in 1..5 : r[c] \in S
    BY <2>1, ElementOfSeq
  <2>. QED
    BY <2>2 DEF S
<1>. QED
  BY <1>2, <1>4, <1>5 DEF r, C

(* Behind a cell stand a comma and the next one, ... *)
LEMMA BehindNextCell ==
    ASSUME NEW tasks \in Stored, NEW k \in 1..Len(Table(tasks)), NEW c \in 1..5
    PROVE  /\ Behind(tasks, k, c) \in Seq(Signs(tasks)) /\ CsvEscape(Table(tasks)[k][c]) \in Seq(Signs(tasks))
           /\ c < 5 => Behind(tasks, k, c) = <<Comma>> \o (CsvEscape(Table(tasks)[k][c + 1]) \o Behind(tasks, k, c + 1))
<1>. DEFINE C == Signs(tasks)
            r == Table(tasks)[k]
            e == CsvEscape(r[c + 1])
            a == After(Escapes(r), Comma, c)
            b == After(Escapes(r), Comma, c + 1)
            l == After(CsvLines(tasks), LF, k)
            s == <<Comma>>
<1>1. r \in Seq(Seq(C)) /\ Len(r) = 5 /\ {Quote, Comma} \subseteq C
  BY RowType
<1>2. l \in Seq(C)
  BY LinesAfter
<1>3. Behind(tasks, k, c) = a \o l /\ Behind(tasks, k, c + 1) = b \o l
  BY DEF Behind
<1>. HIDE DEF C, r
<1>4. a \in Seq(C) /\ CsvEscape(r[c]) \in Seq(C)
  BY <1>1, CellsAfter
<1>5. a \o l \in Seq(C)
  <2>. HIDE DEF a, l
  <2>. QED
    BY <1>2, <1>4, ConcatProperties
<1>6. ASSUME c < 5 PROVE a \o l = s \o (e \o (b \o l))
  <2>1. c \in 1..4 /\ c + 1 \in 1..5
    BY <1>6
  <2>2. e \in Seq(C) /\ b \in Seq(C) /\ a = (s \o e) \o b
    BY <1>1, <2>1, CellsAfter
  <2>3. s \in Seq(C)
    BY <1>1
  <2>. HIDE DEF a, b, e, l, s
  <2>4. ((s \o e) \o b) \o l = s \o (e \o (b \o l))
    <3>1. s \in Seq(C) /\ e \in Seq(C) /\ b \in Seq(C) /\ l \in Seq(C)
      BY <1>2, <2>2, <2>3
    <3>2. s \o e \in Seq(C) /\ b \o l \in Seq(C)
      BY <3>1, ConcatProperties
    <3>3. ((s \o e) \o b) \o l = (s \o e) \o (b \o l)
      BY <3>1, <3>2, ThreeParts
    <3>. DEFINE x == b \o l
    <3>4. x \in Seq(C)
      BY <3>2
    <3>. HIDE DEF x
    <3>5. (s \o e) \o x = s \o (e \o x)
      BY ONLY <3>1, <3>4, ThreeParts, SMTT(30)
    <3>. QED
      BY <3>3, <3>5 DEF x
  <2>. QED
    BY <2>2, <2>4
<1>. QED
  BY <1>3, <1>4, <1>5, <1>6 DEF C, r

(* ... behind a row a line feed and the next one, behind the last nothing. *)
LEMMA BehindNextRow ==
    ASSUME NEW tasks \in Stored, NEW k \in 1..Len(Table(tasks))
    PROVE  /\ k < Len(Table(tasks)) =>
                Behind(tasks, k, 5) = <<LF>> \o (CsvEscape(Table(tasks)[k + 1][1]) \o Behind(tasks, k + 1, 1))
           /\ k = Len(Table(tasks)) => Behind(tasks, k, 5) = <<>>
           /\ ExportTasks(tasks) = CsvEscape(Table(tasks)[1][1]) \o Behind(tasks, 1, 1)
<1>. DEFINE C == Signs(tasks)
            n == Len(Table(tasks))
            L(j) == After(CsvLines(tasks), LF, j)
            first(j) == CsvEscape(Table(tasks)[j][1])
            others(j) == After(Escapes(Table(tasks)[j]), Comma, 1)
<1>0. n \in Nat /\ 1 \in 1..n
  <2>1. n \in Nat /\ k \in 1..n
    BY TableType
  <2>. HIDE DEF n
  <2>. QED
    BY <2>1
<1>1. LF \in C
  BY RowType
<1>2. /\ \A j \in 0..n : L(j) \in Seq(C)
      /\ L(n) = <<>> /\ ExportTasks(tasks) = CsvLine(Table(tasks)[1]) \o L(1)
      /\ \A j \in 1..(n - 1) : L(j) = (<<LF>> \o CsvLine(Table(tasks)[j + 1])) \o L(j + 1)
  BY LinesAfter
<1>3. ASSUME NEW j \in 1..n
      PROVE  /\ first(j) \in Seq(C) /\ others(j) \in Seq(C) /\ CsvLine(Table(tasks)[j]) = first(j) \o others(j)
             /\ After(Escapes(Table(tasks)[j]), Comma, 5) = <<>> /\ L(j) \in Seq(C) /\ Behind(tasks, j, 1) = others(j) \o L(j)
  <2>. DEFINE r == Table(tasks)[j]
  <2>1. r \in Seq(Seq(C)) /\ Len(r) = 5 /\ {Quote, Comma} \subseteq C
    BY RowType
  <2>2. L(j) \in Seq(C)
    <3>1. j \in 0..n
      BY <1>0
    <3>. QED
      BY <1>2, <3>1
  <2>. HIDE DEF r, C, n
  <2>3. CsvEscape(r[1]) \in Seq(C) /\ After(Escapes(r), Comma, 1) \in Seq(C)
    BY <2>1, CellsAfter
  <2>4. CsvLine(r) = CsvEscape(r[1]) \o After(Escapes(r), Comma, 1) /\ After(Escapes(r), Comma, 5) = <<>>
    BY <2>1, CellsAfter
  <2>. QED
    BY <2>2, <2>3, <2>4 DEF Behind, r
<1>4. Behind(tasks, k, 5) = L(k)
  <2>1. Behind(tasks, k, 5) = <<>> \o L(k)
    BY <1>3 DEF Behind
  <2>2. L(k) \in Seq(C)
    BY <1>3
  <2>. HIDE DEF L
  <2>. QED
    BY <2>1, <2>2, ConcatEmptySeq
<1>. HIDE DEF C, n, L, first, others
<1>5. ASSUME NEW j \in 1..n PROVE CsvLine(Table(tasks)[j]) \o L(j) = first(j) \o Behind(tasks, j, 1)
  <2>1. first(j) \in Seq(C) /\ others(j) \in Seq(C) /\ L(j) \in Seq(C)
    BY <1>3
  <2>2. (first(j) \o others(j)) \o L(j) = first(j) \o (others(j) \o L(j))
    BY <2>1, ThreeParts
  <2>. QED
    BY <1>3, <2>2
<1>6. ASSUME k < n PROVE Behind(tasks, k, 5) = <<LF>> \o (first(k + 1) \o Behind(tasks, k + 1, 1))
  <2>1. k \in 1..(n - 1) /\ k + 1 \in 1..n
    BY <1>0, <1>6 DEF n
  <2>. DEFINE l == CsvLine(Table(tasks)[k + 1])
              s == <<LF>>
  <2>2. s \in Seq(C) /\ L(k) = (s \o l) \o L(k + 1)
    BY <1>1, <1>2, <2>1
  <2>3. l \in Seq(C) /\ L(k + 1) \in Seq(C)
    <3>1. l = first(k + 1) \o others(k + 1) /\ first(k + 1) \in Seq(C) /\ others(k + 1) \in Seq(C) /\ L(k + 1) \in Seq(C)
      BY <1>3, <2>1
    <3>. QED
      BY <3>1, ConcatProperties
  <2>4. l \o L(k + 1) = first(k + 1) \o Behind(tasks, k + 1, 1)
    BY <1>5, <2>1
  <2>. HIDE DEF l, s
  <2>5. (s \o l) \o L(k + 1) = s \o (l \o L(k + 1))
    BY <2>2, <2>3, ThreeParts
  <2>. QED
    BY <1>4, <2>2, <2>4, <2>5 DEF s
<1>7. ExportTasks(tasks) = first(1) \o Behind(tasks, 1, 1)
  BY <1>0, <1>2, <1>5
<1>8. k = n => Behind(tasks, k, 5) = <<>>
  BY <1>2, <1>4
<1>. QED
  BY <1>6, <1>7, <1>8 DEF first, n

(* A text from a character on, taken apart. *)
LEMMA TailOf ==
    ASSUME NEW U, NEW s \in Seq(U), NEW j \in 1..(Len(s) + 1), NEW T, NEW x \in T, NEW r \in Seq(T),
           SubSeq(s, j, Len(s)) = <<x>> \o r
    PROVE  j <= Len(s) /\ s[j] = x /\ SubSeq(s, j + 1, Len(s)) = r /\ j + 1 \in 1..(Len(s) + 1)
<1>. DEFINE n == Len(s)
            V == U \cup T
            rest == SubSeq(s, j + 1, n)
            one == <<s[j]>>
            first == <<x>>
<1>1. n \in Nat /\ j \in Int /\ s \in Seq(V) /\ x \in V /\ r \in Seq(V)
  BY SeqMonotonic
<1>2. first \in Seq(V) /\ Len(first) = 1 /\ first[1] = x
  BY <1>1
<1>. HIDE DEF n, V, first
<1>3. j <= n
  <2>. SUFFICES ASSUME n < j PROVE FALSE
    BY <1>1
  <2>1. SubSeq(s, j, n) = <<>>
    BY <1>1, SubSeqEmpty
  <2>2. Len(first \o r) = 1 + Len(r) /\ Len(r) \in Nat
    <3>1. first \in Seq(V) /\ r \in Seq(V)
      BY <1>1, <1>2
    <3>2. Len(first \o r) = Len(first) + Len(r)
      BY ONLY <3>1, ConcatProperties
    <3>3. Len(r) \in Nat
      BY <3>1
    <3>. QED
      BY <1>2, <3>2, <3>3
  <2>3. Len(<<>>) = 0 /\ first \o r = <<>>
    BY <2>1 DEF first, n
  <2>. QED
    BY <2>2, <2>3
<1>4. SubSeq(s, j, n) = one \o rest
  <2>1. j \in 1..Len(s) /\ n \in j..Len(s)
    BY <1>1, <1>3 DEF n
  <2>. QED
    BY <1>1, <2>1, SubSeqRecursiveFirst
<1>5. s[j] \in V
  <2>1. j \in 1..Len(s)
    BY <1>1, <1>3 DEF n
  <2>. QED
    BY <1>1, <2>1, ElementOfSeq
<1>6. one \in Seq(V) /\ Len(one) = 1 /\ one[1] = s[j]
  BY <1>5
<1>7. rest \in Seq(V)
  <2>1. \A k \in (j + 1)..n : k \in 1..Len(s)
    BY <1>1 DEF n
  <2>2. \A k \in (j + 1)..n : s[k] \in V
    BY <1>1, <2>1, ElementOfSeq
  <2>3. j + 1 \in Int /\ n \in Int
    BY <1>1
  <2>. QED
    BY <2>2, <2>3, SubSeqProperties
<1>. HIDE DEF one, rest
<1>8. one \o rest = first \o r
  BY <1>4 DEF n, first
<1>9. s[j] = x
  <2>1. (one \o rest)[1] = one[1]
    <3>1. 1 \in 1..(Len(one) + Len(rest)) /\ 1 <= Len(one)
      BY <1>6, <1>7
    <3>. QED
      BY <1>6, <1>7, <3>1, ConcatProperties
  <2>2. (first \o r)[1] = first[1]
    <3>1. 1 \in 1..(Len(first) + Len(r)) /\ 1 <= Len(first)
      BY <1>1, <1>2
    <3>. QED
      BY <1>1, <1>2, <3>1, ConcatProperties
  <2>. QED
    BY <1>2, <1>6, <1>8, <2>1, <2>2
<1>10. one = first
  BY <1>9 DEF one, first
<1>11. rest = r
  <2>1. \A a, b, c \in Seq(V) : a \o b = a \o c => b = c
    BY ConcatSimplifications
  <2>. QED
    BY <1>1, <1>6, <1>7, <1>8, <1>10, <2>1
<1>. QED
  BY <1>1, <1>3, <1>9, <1>11 DEF n, rest

Rest == SubSeq(text, i, Len(text))

(* What the parser sees, by how the rest of its text begins. *)
LEMMA RestBegins ==
    ASSUME Parser, NEW T, NEW x \in T, NEW r \in Seq(T), Rest = <<x>> \o r
    PROVE  /\ i <= Len(text) /\ text[i] = x
           /\ r = <<>> => Peek = Absent
           /\ UNCHANGED text /\ i' = i + 1 => Rest' = r
<1>1. text \in Seq(Chars) /\ i \in 1..(Len(text) + 1) /\ Len(text) \in Nat
  BY DEF Parser
<1>2. i <= Len(text) /\ text[i] = x /\ SubSeq(text, i + 1, Len(text)) = r
  BY <1>1, TailOf DEF Rest
<1>3. r = <<>> => Peek = Absent
  <2>. SUFFICES ASSUME r = <<>>, i < Len(text) PROVE FALSE
    BY DEF Peek
  <2>1. i + 1 \in 1..Len(text) /\ Len(text) \in (i + 1)..Len(text)
    BY <1>1
  <2>2. SubSeq(text, i + 1, Len(text)) = <<text[i + 1]>> \o SubSeq(text, i + 1 + 1, Len(text))
    BY <1>1, <2>1, SubSeqRecursiveFirst
  <2>3. SubSeq(text, i + 1, Len(text)) = <<>>
    BY <1>2
  <2>4. Len(SubSeq(text, i + 1, Len(text))) = Len(text) - (i + 1) + 1
    <3>1. \A k \in (i + 1)..Len(text) : text[k] \in Chars
      BY <1>1
    <3>2. i + 1 \in Int /\ Len(text) \in Int /\ i + 1 <= Len(text)
      BY <1>1
    <3>. QED
      BY <3>1, <3>2, SubSeqProperties
  <2>5. Len(<<>>) = 0 /\ Len(text) - (i + 1) + 1 # 0
    BY <1>1
  <2>. QED
    BY ONLY <2>3, <2>4, <2>5
<1>4. UNCHANGED text /\ i' = i + 1 => Rest' = r
  BY <1>2 DEF Rest
<1>. QED
  BY <1>2, <1>3, <1>4

LEMMA RestBeginsTwice ==
    ASSUME Parser, NEW T, NEW x \in T, NEW y \in T, NEW r \in Seq(T), Rest = <<x>> \o (<<y>> \o r)
    PROVE  /\ i <= Len(text) /\ text[i] = x /\ Peek = y
           /\ UNCHANGED text /\ i' = i + 1 => Rest' = <<y>> \o r
           /\ UNCHANGED text /\ i' = i + 2 => Rest' = r
<1>. DEFINE q == <<y>> \o r
<1>1. text \in Seq(Chars) /\ i \in 1..(Len(text) + 1) /\ Len(text) \in Nat
  BY DEF Parser
<1>2. q \in Seq(T)
  OBVIOUS
<1>3. Rest = <<x>> \o q
  OBVIOUS
<1>. HIDE DEF q
<1>4. i <= Len(text) /\ text[i] = x /\ SubSeq(text, i + 1, Len(text)) = q /\ i + 1 \in 1..(Len(text) + 1)
  BY <1>1, <1>2, <1>3, TailOf DEF Rest
<1>5. i + 1 <= Len(text) /\ text[i + 1] = y /\ SubSeq(text, (i + 1) + 1, Len(text)) = r
  BY <1>1, <1>4, TailOf DEF q
<1>6. Peek = y
  BY <1>1, <1>5 DEF Peek
<1>7. UNCHANGED text /\ i' = i + 1 => Rest' = q
  BY <1>4 DEF Rest
<1>8. UNCHANGED text /\ i' = i + 2 => Rest' = r
  <2>1. (i + 1) + 1 = i + 2
    BY <1>1
  <2>. QED
    BY <1>5, <2>1 DEF Rest
<1>. QED
  BY <1>4, <1>6, <1>7, <1>8 DEF q

LEMMA RestIsEmpty == ASSUME Parser, Rest = <<>> PROVE i > Len(text)
<1>1. text \in Seq(Chars) /\ i \in 1..(Len(text) + 1) /\ Len(text) \in Nat
  BY DEF Parser
<1>. SUFFICES ASSUME i <= Len(text) PROVE FALSE
  BY <1>1
<1>2. Len(SubSeq(text, i, Len(text))) = Len(text) - i + 1
  <2>1. \A k \in i..Len(text) : text[k] \in Chars
    BY <1>1
  <2>2. i \in Int /\ Len(text) \in Int
    BY <1>1
  <2>. QED
    BY <2>1, <2>2, SubSeqProperties
<1>. QED
  BY <1>1, <1>2 DEF Rest

(* What a turn does, by the character it is at. *)
ParserTurn == Escaped \/ Unquote \/ OpenQuote \/ Plain \/ EndField \/ EndRow \/ EndText
Stays == UNCHANGED <<source, text, docs, failed>>

LEMMA TurnByCharacter ==
    ASSUME ParserTurn, i <= Len(text), i \in Nat, Len(text) \in Nat
    PROVE  /\ Stays /\ pc = "parse" /\ pc' = "parse"
           /\ ~inQuotes /\ text[i] = Quote => inQuotes' /\ i' = i + 1 /\ UNCHANGED <<field, row, rows>>
           /\ inQuotes /\ text[i] = Quote /\ Peek = Quote =>
                i' = i + 2 /\ field' = Append(field, Quote) /\ UNCHANGED <<inQuotes, row, rows>>
           /\ inQuotes /\ text[i] = Quote /\ Peek # Quote => ~inQuotes' /\ i' = i + 1 /\ UNCHANGED <<field, row, rows>>
           /\ (IF inQuotes THEN text[i] # Quote ELSE text[i] \notin {Quote, Comma, LF, CR}) =>
                i' = i + 1 /\ field' = Append(field, text[i]) /\ UNCHANGED <<inQuotes, row, rows>>
           /\ ~inQuotes /\ text[i] = Comma =>
                i' = i + 1 /\ row' = Append(row, field) /\ field' = <<>> /\ UNCHANGED <<inQuotes, rows>>
           /\ ~inQuotes /\ text[i] = LF =>
                i' = i + 1 /\ Keep(Append(row, field)) /\ row' = <<>> /\ field' = <<>> /\ UNCHANGED inQuotes
<1>0. Quote # Comma /\ Quote # LF /\ Quote # CR /\ Comma # LF /\ Comma # CR /\ LF # CR
  BY DEF Quote, Comma, LF, CR
<1>1. CASE Escaped
  BY <1>0, <1>1 DEF Escaped, Char, Skip, Stays
<1>2. CASE Unquote
  BY <1>0, <1>2 DEF Unquote, Char, Skip, Stays
<1>3. CASE OpenQuote
  BY <1>0, <1>3 DEF OpenQuote, Char, Skip, Stays
<1>4. CASE Plain
  BY <1>0, <1>4 DEF Plain, Char, Skip, Stays
<1>5. CASE EndField
  BY <1>0, <1>5 DEF EndField, Char, Skip, Stays
<1>6. CASE EndRow
  BY <1>0, <1>6 DEF EndRow, Char, Skip, Stays
<1>7. CASE EndText
  BY <1>7 DEF EndText
<1>. QED
  BY <1>1, <1>2, <1>3, <1>4, <1>5, <1>6, <1>7 DEF ParserTurn

(* What a text that is not empty begins with, and a letter in one. *)
LEMMA FirstOf ==
    ASSUME NEW T, NEW s \in Seq(T), s # <<>> PROVE \E x \in T, r \in Seq(T) : s = <<x>> \o r
<1>1. Head(s) \in T /\ Tail(s) \in Seq(T) /\ Len(Tail(s)) = Len(s) - 1 /\ \A k \in 1..Len(Tail(s)) : Tail(s)[k] = s[k + 1]
  BY HeadTailProperties
<1>2. Len(s) \in Nat \ {0} /\ Head(s) = s[1]
  <2>1. Len(s) \in Nat /\ (Len(s) = 0 => s = <<>>)
    OBVIOUS
  <2>. QED
    BY <2>1
<1>. DEFINE x == Head(s)
            r == Tail(s)
            h == <<x>>
<1>3. h \in Seq(T) /\ Len(h) = 1 /\ h[1] = s[1]
  BY <1>1, <1>2
<1>4. r \in Seq(T) /\ Len(r) = Len(s) - 1 /\ \A k \in 1..Len(r) : r[k] = s[k + 1]
  BY <1>1
<1>. HIDE DEF h, r, x
<1>5. h \o r \in Seq(T) /\ Len(h \o r) = Len(h) + Len(r)
  BY <1>3, <1>4, ConcatProperties
<1>6. Len(h \o r) = Len(s)
  BY <1>2, <1>3, <1>4, <1>5
<1>7. ASSUME NEW k \in 1..Len(s) PROVE (h \o r)[k] = s[k]
  <2>1. k \in 1..(Len(h) + Len(r))
    BY <1>5, <1>6
  <2>2. (h \o r)[k] = IF k <= Len(h) THEN h[k] ELSE r[k - Len(h)]
    BY <1>3, <1>4, <2>1, ConcatProperties
  <2>3. CASE k = 1
    BY <1>3, <2>2, <2>3
  <2>4. CASE k # 1
    <3>1. k - 1 \in 1..Len(r) /\ (k - 1) + 1 = k /\ ~(k <= 1)
      BY <1>2, <1>4, <2>4
    <3>2. r[k - 1] = s[k]
      BY <1>4, <3>1
    <3>. QED
      BY <1>3, <2>2, <3>1, <3>2
  <2>. QED
    BY <2>3, <2>4
<1>8. h \o r = s
  BY <1>5, <1>6, <1>7, SeqEqual
<1>. QED
  BY <1>1, <1>4, <1>8 DEF h, x

LEMMA InTheMiddle ==
    ASSUME NEW T, NEW a \in Seq(T), NEW x \in T, NEW b \in Seq(T), NEW all, all = a \o (<<x>> \o b)
    PROVE  /\ \E j \in 1..Len(all) : all[j] = x
           /\ all = Append(a, x) \o b /\ Append(a, x) \in Seq(T)
<1>. DEFINE h == <<x>>
            s == h \o b
            j == Len(a) + 1
<1>1. h \in Seq(T) /\ Len(h) = 1 /\ h[1] = x /\ a \o h = Append(a, x) /\ Append(a, x) \in Seq(T)
  OBVIOUS
<1>. HIDE DEF h
<1>2. s \in Seq(T) /\ Len(s) = Len(h) + Len(b) /\ \A k \in 1..(Len(h) + Len(b)) : s[k] = IF k <= Len(h) THEN h[k] ELSE b[k - Len(h)]
  BY <1>1, ConcatProperties
<1>3. a \o s = (a \o h) \o b
  <2>1. a \in Seq(T) /\ h \in Seq(T) /\ b \in Seq(T)
    BY <1>1
  <2>. QED
    BY ONLY <2>1, ThreeParts
<1>4. Len(a) \in Nat /\ Len(b) \in Nat
  OBVIOUS
<1>5. s[1] = x /\ Len(s) = 1 + Len(b)
  <2>1. 1 \in 1..(Len(h) + Len(b)) /\ 1 <= Len(h)
    BY <1>1, <1>4
  <2>. QED
    BY <1>1, <1>2, <2>1
<1>. HIDE DEF s
<1>6. Len(a \o s) = Len(a) + Len(s) /\ \A k \in 1..(Len(a) + Len(s)) : (a \o s)[k] = IF k <= Len(a) THEN a[k] ELSE s[k - Len(a)]
  <2>1. a \in Seq(T) /\ s \in Seq(T)
    BY <1>2
  <2>. QED
    BY ONLY <2>1, ConcatProperties
<1>7. j \in 1..(Len(a) + Len(s)) /\ ~(j <= Len(a)) /\ j - Len(a) = 1
  BY <1>4, <1>5
<1>8. (a \o s)[j] = x /\ j \in 1..Len(a \o s)
  BY <1>5, <1>6, <1>7
<1>. HIDE DEF j
<1>. QED
  BY <1>1, <1>3, <1>8 DEF h, s

LEMMA PrefixGrows ==
    ASSUME NEW T, NEW s \in Seq(T), NEW k \in 1..Len(s)
    PROVE  /\ SubSeq(s, 1, k - 1) \in Seq(T) /\ Len(SubSeq(s, 1, k - 1)) = k - 1
           /\ Append(SubSeq(s, 1, k - 1), s[k]) = SubSeq(s, 1, k)
<1>0. Len(s) \in Nat /\ k \in Nat /\ k >= 1
  OBVIOUS
<1>1. \A j \in 1..(k - 1) : s[j] \in T
  BY <1>0, ElementOfSeq
<1>2. 1 \in Int /\ k - 1 \in Int /\ (k - 1) - 1 + 1 = k - 1
  BY <1>0
<1>3. SubSeq(s, 1, k - 1) \in Seq(T) /\ Len(SubSeq(s, 1, k - 1)) = IF 1 <= k - 1 THEN (k - 1) - 1 + 1 ELSE 0
  BY <1>1, <1>2, SubSeqProperties
<1>4. Len(SubSeq(s, 1, k - 1)) = k - 1
  BY <1>0, <1>2, <1>3
<1>5. s[k] \in T
  BY ElementOfSeq
<1>6. SubSeq(s, 1, k) = SubSeq(s, 1, k - 1) \o <<s[k]>>
  <2>1. 1 \in 1..Len(s) /\ k \in 1..Len(s)
    BY <1>0
  <2>. QED
    BY <2>1, SubSeqRecursiveSecond
<1>. DEFINE p == SubSeq(s, 1, k - 1)
            x == s[k]
<1>7. p \in Seq(T) /\ x \in T
  BY <1>3, <1>5
<1>. HIDE DEF p, x
<1>8. Append(p, x) = p \o <<x>>
  BY <1>7
<1>. QED
  BY <1>3, <1>4, <1>6, <1>8 DEF p, x

(* Of an export without an unprotected return, a cell that is not in quotes has none. *)
LEMMA NoBareReturn ==
    ASSUME NEW tasks \in Stored, ~Unprotected(tasks), NEW k \in 1..Len(Table(tasks)), NEW c \in 1..5,
           ~Quoted(Table(tasks)[k][c]), NEW j \in DOMAIN Table(tasks)[k][c]
    PROVE  Table(tasks)[k][c][j] \notin {Quote, Comma, LF, CR}
<1>. DEFINE cell == Table(tasks)[k][c]
<1>1. cell[j] \notin {Quote, Comma, LF}
  BY DEF Quoted, Has
<1>2. CASE k = 1
  <2>1. Table(tasks)[1] = Header
    BY TableType
  <2>2. cell = Header[c]
    BY <1>2, <2>1
  <2>3. cell[j] \in {"_id", "title", "description", "status", "tags"}
    <3>1. cell \in {<<"_id">>, <<"title">>, <<"description">>, <<"status">>, <<"tags">>}
      BY <2>2 DEF Header
    <3>. HIDE DEF cell
    <3>2. j \in DOMAIN cell
      BY DEF cell
    <3>3. j = 1
      BY <3>1, <3>2
    <3>. QED
      BY <3>1, <3>3
  <2>4. CR \notin {"_id", "title", "description", "status", "tags"}
    BY DEF CR
  <2>. QED
    BY <1>1, <2>3, <2>4
<1>3. CASE k # 1
  <2>1. k - 1 \in 1..Len(tasks) /\ Table(tasks)[(k - 1) + 1] = Cells(tasks[k - 1]) /\ (k - 1) + 1 = k
    <3>1. Len(Table(tasks)) = Len(tasks) + 1 /\ Len(tasks) \in Nat
      BY TableType
    <3>2. k - 1 \in 1..Len(tasks) /\ (k - 1) + 1 = k
      BY <1>3, <3>1
    <3>. QED
      BY <3>2, TableType
  <2>2. k - 1 \in DOMAIN tasks
    <3>1. DOMAIN tasks = 1..Len(tasks)
      BY TableType
    <3>. QED
      BY <2>1, <3>1
  <2>3. c \in DOMAIN Header
    BY DEF Header
  <2>4. cell = Cells(tasks[k - 1])[c]
    BY <2>1
  <2>. HIDE DEF cell
  <2>5. ~(Has(cell, {CR}) /\ ~Quoted(cell))
    BY <2>2, <2>3, <2>4 DEF Unprotected, Quoted
  <2>6. cell[j] # CR
    BY <2>5 DEF Has, cell
  <2>. QED
    BY <1>1, <2>6 DEF cell
<1>. QED
  BY <1>2, <1>3

(* Where the parser is in the text of an export: in cell c of row k, of      *)
(* which it has read a and has b before it; in quotes or not.                *)
Place(k, c, a, b) ==
    /\ a \in Seq(Signs(source)) /\ b \in Seq(Signs(source)) /\ Table(source)[k][c] = a \o b
    /\ field = a /\ rows = SubSeq(Table(source), 1, k - 1) /\ row = SubSeq(Table(source)[k], 1, c - 1)
Bare(k, c, b) ==
    /\ ~inQuotes /\ (Quoted(Table(source)[k][c]) => b = <<>>)
    /\ Rest = b \o Behind(source, k, c)
Outside(k, c, a, b) ==
    /\ ~inQuotes /\ Quoted(Table(source)[k][c]) /\ a = <<>>
    /\ Rest = <<Quote>> \o (Doubled(b) \o (<<Quote>> \o Behind(source, k, c)))
Inside(k, c, b) ==
    /\ inQuotes /\ Quoted(Table(source)[k][c])
    /\ Rest = Doubled(b) \o (<<Quote>> \o Behind(source, k, c))

Reading ==
    \E k \in 1..Len(Table(source)), c \in 1..5 : \E a, b \in Seq(Signs(source)) :
        Place(k, c, a, b) /\ (Bare(k, c, b) \/ Outside(k, c, a, b) \/ Inside(k, c, b))

(* A cell begins with a quote, or with its own letters. *)
LEMMA CellBegins ==
    ASSUME NEW tasks \in Stored, NEW k \in 1..Len(Table(tasks)), NEW c \in 1..5
    PROVE  CsvEscape(Table(tasks)[k][c]) \o Behind(tasks, k, c) =
             IF Quoted(Table(tasks)[k][c])
             THEN <<Quote>> \o (Doubled(Table(tasks)[k][c]) \o (<<Quote>> \o Behind(tasks, k, c)))
             ELSE Table(tasks)[k][c] \o Behind(tasks, k, c)
<1>. DEFINE C == Signs(tasks)
            cell == Table(tasks)[k][c]
            d == Doubled(cell)
            z == Behind(tasks, k, c)
            q == <<Quote>>
<1>1. cell \in Seq(C) /\ Quote \in C
  BY RowType
<1>2. z \in Seq(C)
  BY BehindNextCell
<1>. HIDE DEF C, cell, z
<1>3. d \in Seq(C) /\ CsvEscape(cell) = IF Quoted(cell) THEN q \o d \o q ELSE cell
  BY <1>1, DoubledParts, EscapeType
<1>4. q \in Seq(C)
  BY <1>1
<1>. HIDE DEF d, q
<1>5. ((q \o d) \o q) \o z = q \o (d \o (q \o z))
  <2>1. q \in Seq(C) /\ d \in Seq(C) /\ z \in Seq(C)
    BY <1>2, <1>3, <1>4
  <2>2. q \o d \in Seq(C) /\ q \o z \in Seq(C)
    BY <2>1, ConcatProperties
  <2>3. ((q \o d) \o q) \o z = (q \o d) \o (q \o z)
    BY ONLY <2>1, <2>2, ThreeParts
  <2>. DEFINE y == q \o z
  <2>4. y \in Seq(C)
    BY <2>2
  <2>. HIDE DEF y
  <2>5. (q \o d) \o y = q \o (d \o y)
    BY ONLY <2>1, <2>4, ThreeParts, SMTT(30)
  <2>. QED
    BY <2>3, <2>5 DEF y
<1>. QED
  BY <1>3, <1>5 DEF d, q, cell, z

(* At the beginning of a cell, with nothing of it read yet. *)
Beginning ==
    /\ source \in Stored /\ ~inQuotes /\ field = <<>>
    /\ \E k \in 1..Len(Table(source)), c \in 1..5 :
          /\ rows = SubSeq(Table(source), 1, k - 1) /\ row = SubSeq(Table(source)[k], 1, c - 1)
          /\ Rest = CsvEscape(Table(source)[k][c]) \o Behind(source, k, c)

(* Who is at the beginning of a cell is in the middle of an export. *)
LEMMA BeginsReading == Beginning => Reading
<1>. SUFFICES ASSUME Beginning PROVE Reading
  OBVIOUS
<1>0. source \in Stored /\ ~inQuotes /\ field = <<>>
  BY DEF Beginning
<1>1. PICK k \in 1..Len(Table(source)), c \in 1..5 :
        /\ rows = SubSeq(Table(source), 1, k - 1) /\ row = SubSeq(Table(source)[k], 1, c - 1)
        /\ Rest = CsvEscape(Table(source)[k][c]) \o Behind(source, k, c)
  BY DEF Beginning
<1>. DEFINE cell == Table(source)[k][c]
<1>2. cell \in Seq(Signs(source)) /\ <<>> \in Seq(Signs(source)) /\ <<>> \o cell = cell
  <2>1. cell \in Seq(Signs(source))
    BY <1>0, RowType
  <2>. HIDE DEF cell
  <2>. QED
    BY <2>1, EmptySeq, ConcatEmptySeq
<1>3. Place(k, c, <<>>, cell)
  BY <1>0, <1>1, <1>2 DEF Place
<1>4. Bare(k, c, cell) \/ Outside(k, c, <<>>, cell)
  <2>1. CASE Quoted(cell)
    BY <1>0, <1>1, <2>1, CellBegins DEF Outside
  <2>2. CASE ~Quoted(cell)
    BY <1>0, <1>1, <2>2, CellBegins DEF Bare
  <2>. QED
    BY <2>1, <2>2
<1>. HIDE DEF cell
<1>. QED
  BY <1>2, <1>3, <1>4 DEF Reading

(* A letter of a cell that is not in quotes. *)
LEMMA BareLetter ==
    ASSUME Parser, ParserTurn, source \in Stored, ~Unprotected(source), NEW k \in 1..Len(Table(source)), NEW c \in 1..5,
           NEW a, NEW b, Place(k, c, a, b), Bare(k, c, b), b # <<>>
    PROVE  pc' = "parse" /\ Reading'
<1>. DEFINE C == Signs(source)
            cell == Table(source)[k][c]
            z == Behind(source, k, c)
<1>0. i \in Nat /\ Len(text) \in Nat
  BY DEF Parser
<1>1. a \in Seq(C) /\ b \in Seq(C) /\ cell = a \o b /\ field = a /\ ~inQuotes /\ ~Quoted(cell) /\ Rest = b \o z /\ cell \in Seq(C)
  <2>1. cell \in Seq(C)
    BY RowType
  <2>. QED
    BY <2>1 DEF Place, Bare
<1>2. z \in Seq(C)
  BY BehindNextCell
<1>n. \A j \in DOMAIN cell : cell[j] \notin {Quote, Comma, LF, CR}
  <2>. HIDE DEF C, z
  <2>. QED
    BY <1>1, NoBareReturn
<1>. HIDE DEF C, cell, z
<1>3. PICK x \in C, r \in Seq(C) : b = <<x>> \o r
  BY <1>1, FirstOf
<1>. DEFINE h == <<x>>
<1>4. Rest = h \o (r \o z) /\ r \o z \in Seq(C)
  <2>1. h \in Seq(C) /\ r \in Seq(C) /\ z \in Seq(C) /\ b = h \o r
    BY <1>2, <1>3
  <2>. HIDE DEF h
  <2>2. (h \o r) \o z = h \o (r \o z)
    BY ONLY <2>1, ThreeParts
  <2>3. r \o z \in Seq(C)
    BY <2>1, ConcatProperties
  <2>. QED
    BY <1>1, <2>1, <2>2, <2>3
<1>5. x \notin {Quote, Comma, LF, CR} /\ cell = Append(a, x) \o r /\ Append(a, x) \in Seq(C)
  <2>1. cell = a \o (<<x>> \o r)
    BY <1>1, <1>3
  <2>2. /\ \E j \in 1..Len(cell) : cell[j] = x
        /\ cell = Append(a, x) \o r /\ Append(a, x) \in Seq(C)
    <3>1. a \in Seq(C)
      BY <1>1
    <3>. QED
      BY ONLY <2>1, <3>1, x \in C, r \in Seq(C), InTheMiddle
  <2>3. DOMAIN cell = 1..Len(cell)
    BY <1>1
  <2>. QED
    BY <1>n, <2>2, <2>3
<1>6. i <= Len(text) /\ text[i] = x /\ (UNCHANGED text /\ i' = i + 1 => Rest' = r \o z)
  <2>. DEFINE w == r \o z
  <2>1. w \in Seq(C) /\ Rest = <<x>> \o w
    BY <1>4
  <2>. HIDE DEF w
  <2>2. i <= Len(text) /\ text[i] = x /\ (UNCHANGED text /\ i' = i + 1 => Rest' = w)
    BY <2>1, RestBegins
  <2>. QED
    BY <2>2 DEF w
<1>7. Stays /\ pc' = "parse" /\ i' = i + 1 /\ field' = Append(field, x) /\ UNCHANGED <<inQuotes, row, rows>>
  BY <1>0, <1>1, <1>5, <1>6, TurnByCharacter
<1>8. Rest' = r \o z
  BY <1>6, <1>7 DEF Stays
<1>9. Place(k, c, Append(a, x), r)' /\ Bare(k, c, r)'
  <2>1. source' = source
    BY <1>7 DEF Stays
  <2>2. Place(k, c, Append(a, x), r)'
    BY <1>1, <1>5, <1>7, <2>1 DEF Place, C, cell
  <2>3. Bare(k, c, r)'
    BY <1>1, <1>7, <1>8, <2>1 DEF Bare, cell, z
  <2>. QED
    BY <2>2, <2>3
<1>10. Reading'
  <2>1. source' = source
    BY <1>7 DEF Stays
  <2>2. Append(a, x) \in Seq(Signs(source)) /\ r \in Seq(Signs(source))
    BY <1>5 DEF C
  <2>. QED
    BY <1>9, <2>1, <2>2 DEF Reading
<1>. QED
  BY <1>7, <1>10

(* The end of a cell: the parser goes on with the next of the row, ... *)
LEMMA NextCell ==
    ASSUME Parser, ParserTurn, source \in Stored, NEW k \in 1..Len(Table(source)), NEW c \in 1..4,
           NEW a, Place(k, c, a, <<>>), Bare(k, c, <<>>)
    PROVE  pc' = "parse" /\ Reading'
<1>. DEFINE C == Signs(source)
            t == Table(source)
            r == t[k]
            z == Behind(source, k, c)
            e == CsvEscape(t[k][c + 1])
            y == Behind(source, k, c + 1)
            w == e \o y
<1>0. i \in Nat /\ Len(text) \in Nat /\ c \in 1..5 /\ c + 1 \in 1..5 /\ c < 5 /\ (c + 1) - 1 = c
  BY DEF Parser
<1>1. z \in Seq(C) /\ z = <<Comma>> \o w
  BY <1>0, BehindNextCell
<1>2. w \in Seq(C)
  <2>1. e \in Seq(C) /\ y \in Seq(C)
    BY <1>0, BehindNextCell
  <2>. HIDE DEF e, y
  <2>. QED
    BY <2>1, ConcatProperties
<1>3. r \in Seq(Seq(C)) /\ Len(r) = 5 /\ Comma \in C
  BY RowType
<1>4. ~inQuotes /\ Rest = <<>> \o z /\ field = a /\ a \in Seq(C) /\ r[c] = a \o <<>> /\ row = SubSeq(r, 1, c - 1)
      /\ rows = SubSeq(t, 1, k - 1)
  BY DEF Place, Bare
<1>. HIDE DEF C, z, w, r
<1>5. Rest = <<Comma>> \o w /\ r[c] = a
  BY <1>1, <1>4, ConcatEmptySeq
<1>6. i <= Len(text) /\ text[i] = Comma /\ (UNCHANGED text /\ i' = i + 1 => Rest' = w)
  BY <1>2, <1>3, <1>5, RestBegins
<1>7. /\ Stays /\ pc' = "parse" /\ i' = i + 1 /\ row' = Append(row, a) /\ field' = <<>>
      /\ UNCHANGED <<inQuotes, rows>>
  BY <1>0, <1>4, <1>6, TurnByCharacter
<1>8. row' = SubSeq(r, 1, c)
  <2>1. c \in 1..Len(r)
    BY <1>0, <1>3
  <2>2. Append(SubSeq(r, 1, c - 1), r[c]) = SubSeq(r, 1, c)
    BY <1>3, <2>1, PrefixGrows
  <2>. QED
    BY <1>4, <1>5, <1>7, <2>2
<1>9. source' = source /\ Rest' = w
  BY <1>6, <1>7 DEF Stays
<1>10. /\ source' \in Stored /\ k \in 1..Len(Table(source')) /\ c + 1 \in 1..5 /\ ~inQuotes' /\ field' = <<>>
       /\ rows' = SubSeq(Table(source'), 1, k - 1) /\ row' = SubSeq(Table(source')[k], 1, (c + 1) - 1)
       /\ Rest' = CsvEscape(Table(source')[k][c + 1]) \o Behind(source', k, c + 1)
  BY <1>0, <1>4, <1>7, <1>8, <1>9 DEF w, r
<1>11. Beginning'
  BY <1>10 DEF Beginning
<1>12. Reading'
  BY <1>11, BeginsReading, PTL
<1>. QED
  BY <1>7, <1>12

(* ... with the next row, ... *)
LEMMA WholeRow ==
    ASSUME source \in Stored, NEW k \in 1..Len(Table(source)),
           NEW a, Place(k, 5, a, <<>>), Keep(Append(row, field))
    PROVE  rows' = SubSeq(Table(source), 1, k) /\ row # <<>>
<1>. DEFINE C == Signs(source)
            S == Seq(C)
            t == Table(source)
            r == t[k]
<1>1. r \in Seq(S) /\ Len(r) = 5 /\ 5 \in 1..Len(r) /\ 5 - 1 = 4
  BY RowType
<1>2. t \in Seq(Seq(S))
  BY TableType
<1>3. field = a /\ a \in S /\ r[5] = a \o <<>> /\ row = SubSeq(r, 1, 5 - 1) /\ rows = SubSeq(t, 1, k - 1)
  BY DEF Place
<1>4. r[5] = a
  <2>. HIDE DEF C
  <2>. QED
    BY <1>3, ConcatEmptySeq
<1>. HIDE DEF S, r
<1>5. row \in Seq(S) /\ Len(row) = 4 /\ Append(row, field) = SubSeq(r, 1, 5)
  BY <1>1, <1>3, <1>4, PrefixGrows
<1>6. SubSeq(r, 1, 5) = r
  BY <1>1, SubSeqFull
<1>7. rows' = Append(rows, r)
  <2>1. Len(r) > 1
    BY <1>1
  <2>. QED
    BY <1>5, <1>6, <2>1 DEF Keep
<1>8. row # <<>>
  <2>1. Len(<<>>) = 0
    OBVIOUS
  <2>. QED
    BY ONLY <1>5, <2>1
<1>9. Append(SubSeq(t, 1, k - 1), t[k]) = SubSeq(t, 1, k)
  <2>. DEFINE T == Seq(S)
  <2>1. t \in Seq(T) /\ k \in 1..Len(t)
    BY <1>2
  <2>. HIDE DEF t, T
  <2>. QED
    BY <2>1, PrefixGrows
<1>. QED
  BY <1>3, <1>7, <1>8, <1>9 DEF r

LEMMA NextRow ==
    ASSUME Parser, ParserTurn, source \in Stored, NEW k \in 1..Len(Table(source)), k < Len(Table(source)),
           NEW a, Place(k, 5, a, <<>>), Bare(k, 5, <<>>)
    PROVE  pc' = "parse" /\ Reading'
<1>. DEFINE C == Signs(source)
            t == Table(source)
            z == Behind(source, k, 5)
            e == CsvEscape(t[k + 1][1])
            y == Behind(source, k + 1, 1)
            w == e \o y
<1>0. i \in Nat /\ Len(text) \in Nat /\ k + 1 \in 1..Len(t) /\ (k + 1) - 1 = k /\ 1 \in 1..5 /\ 5 \in 1..5
  <2>1. Len(t) \in Nat
    BY TableType
  <2>. QED
    BY <2>1 DEF Parser
<1>1. z \in Seq(C) /\ z = <<LF>> \o w
  BY <1>0, BehindNextCell, BehindNextRow
<1>2. w \in Seq(C)
  <2>1. e \in Seq(C) /\ y \in Seq(C)
    BY <1>0, BehindNextCell
  <2>. HIDE DEF e, y
  <2>. QED
    BY <2>1, ConcatProperties
<1>3. LF \in C
  BY RowType
<1>4. ~inQuotes /\ Rest = <<>> \o z
  BY DEF Bare
<1>. HIDE DEF C, z, w
<1>5. Rest = <<LF>> \o w
  BY <1>1, <1>4, ConcatEmptySeq
<1>6. i <= Len(text) /\ text[i] = LF /\ (UNCHANGED text /\ i' = i + 1 => Rest' = w)
  BY <1>2, <1>3, <1>5, RestBegins
<1>7. /\ Stays /\ pc' = "parse" /\ i' = i + 1 /\ Keep(Append(row, field)) /\ row' = <<>> /\ field' = <<>>
      /\ UNCHANGED inQuotes
  BY <1>0, <1>4, <1>6, TurnByCharacter
<1>8. rows' = SubSeq(t, 1, k)
  BY <1>7, WholeRow
<1>9. source' = source /\ Rest' = w
  BY <1>6, <1>7 DEF Stays
<1>s. SubSeq(t[k + 1], 1, 1 - 1) = <<>>
  BY SubSeqEmpty
<1>10. /\ source' \in Stored /\ k + 1 \in 1..Len(Table(source')) /\ 1 \in 1..5 /\ ~inQuotes' /\ field' = <<>>
       /\ rows' = SubSeq(Table(source'), 1, (k + 1) - 1) /\ row' = SubSeq(Table(source')[k + 1], 1, 1 - 1)
       /\ Rest' = CsvEscape(Table(source')[k + 1][1]) \o Behind(source', k + 1, 1)
  BY <1>0, <1>4, <1>7, <1>8, <1>9, <1>s DEF w
<1>11. Beginning'
  BY <1>10 DEF Beginning
<1>12. Reading'
  BY <1>11, BeginsReading, PTL
<1>. QED
  BY <1>7, <1>12

(* ... or it is done, with all rows. *)
LEMMA LastRow ==
    ASSUME Parser, ParserTurn, source \in Stored, NEW k \in 1..Len(Table(source)), k = Len(Table(source)),
           NEW a, Place(k, 5, a, <<>>), Bare(k, 5, <<>>)
    PROVE  pc' = "import" /\ rows' = Table(source) /\ source' = source
<1>1. Rest = <<>>
  <2>1. Behind(source, k, 5) = <<>> /\ <<>> \o <<>> = <<>>
    BY BehindNextRow
  <2>. QED
    BY <2>1 DEF Bare
<1>2. i > Len(text)
  BY <1>1, RestIsEmpty
<1>3. EndText
  <2>1. ~(i <= Len(text))
    BY <1>2 DEF Parser
  <2>. QED
    BY <2>1 DEF ParserTurn, Escaped, Unquote, OpenQuote, Plain, EndField, EndRow, Char
<1>4. row # <<>>
  <2>1. Table(source)[k] \in Seq(Seq(Signs(source))) /\ Len(Table(source)[k]) = 5
    BY RowType
  <2>2. row = SubSeq(Table(source)[k], 1, 4)
    BY DEF Place
  <2>. DEFINE S == Seq(Signs(source))
              r == Table(source)[k]
  <2>3. r \in Seq(S) /\ 5 \in 1..Len(r) /\ 5 - 1 = 4
    BY <2>1
  <2>. HIDE DEF S, r
  <2>4. Len(SubSeq(r, 1, 5 - 1)) = 5 - 1
    BY <2>3, PrefixGrows
  <2>5. Len(SubSeq(r, 1, 4)) = 4 /\ Len(<<>>) = 0
    BY <2>3, <2>4
  <2>6. row = SubSeq(r, 1, 4)
    BY <2>2 DEF r
  <2>. SUFFICES ASSUME row = <<>> PROVE FALSE
    OBVIOUS
  <2>7. Len(row) = 4 /\ Len(row) = 0
    BY ONLY <2>5, <2>6, row = <<>>, Zenon
  <2>. QED
    BY <2>7
<1>5. pc' = "import" /\ Keep(Append(row, field)) /\ source' = source
  BY <1>3, <1>4 DEF EndText
<1>6. rows' = SubSeq(Table(source), 1, k)
  BY <1>5, WholeRow
<1>7. SubSeq(Table(source), 1, Len(Table(source))) = Table(source)
  <2>. DEFINE t == Table(source)
              T == Seq(Seq(Signs(source)))
  <2>1. t \in Seq(T)
    BY TableType
  <2>. HIDE DEF t, T
  <2>. QED
    BY <2>1, SubSeqFull DEF t
<1>. QED
  BY <1>5, <1>6, <1>7

(* The quote before a quoted cell, ... *)
LEMMA QuoteOpens ==
    ASSUME Parser, ParserTurn, source \in Stored, NEW k \in 1..Len(Table(source)), NEW c \in 1..5,
           NEW a, NEW b, Place(k, c, a, b), Outside(k, c, a, b)
    PROVE  pc' = "parse" /\ Reading'
<1>. DEFINE C == Signs(source)
            w == Doubled(b) \o (<<Quote>> \o Behind(source, k, c))
<1>0. i \in Nat /\ Len(text) \in Nat
  BY DEF Parser
<1>1. w \in Seq(C) /\ Quote \in C /\ a \in Seq(C) /\ b \in Seq(C)
  <2>1. b \in Seq(C) /\ a \in Seq(C) /\ Quote \in C /\ Behind(source, k, c) \in Seq(C)
    BY RowType, BehindNextCell DEF Place
  <2>. DEFINE d == Doubled(b)
              z == Behind(source, k, c)
              q == <<Quote>>
  <2>. HIDE DEF C
  <2>d. d \in Seq(C)
    BY <2>1, DoubledParts
  <2>z. z \in Seq(C)
    BY <2>1
  <2>q. q \in Seq(C)
    BY <2>1
  <2>2. d \in Seq(C) /\ q \in Seq(C) /\ z \in Seq(C)
    BY <2>d, <2>z, <2>q
  <2>. HIDE DEF d, z, q
  <2>3. d \o (q \o z) \in Seq(C)
    BY <2>2, ConcatProperties
  <2>. QED
    BY <2>1, <2>3 DEF d, q, z
<1>2. ~inQuotes /\ a = <<>> /\ Rest = <<Quote>> \o w /\ Quoted(Table(source)[k][c])
  BY DEF Outside
<1>. HIDE DEF C, w
<1>3. i <= Len(text) /\ text[i] = Quote /\ (UNCHANGED text /\ i' = i + 1 => Rest' = w)
  BY <1>1, <1>2, RestBegins
<1>4. Stays /\ pc' = "parse" /\ i' = i + 1 /\ inQuotes' /\ UNCHANGED <<field, row, rows>>
  BY <1>0, <1>2, <1>3, TurnByCharacter
<1>5. source' = source /\ Rest' = w
  BY <1>3, <1>4 DEF Stays
<1>6. Place(k, c, a, b)'
  BY <1>4, <1>5 DEF Place
<1>7. Inside(k, c, b)'
  BY <1>2, <1>4, <1>5 DEF Inside, w
<1>8. Reading'
  BY <1>1, <1>5, <1>6, <1>7 DEF Reading, C
<1>. QED
  BY <1>4, <1>8

(* ... the one behind it, ... *)
LEMMA QuoteCloses ==
    ASSUME Parser, ParserTurn, source \in Stored, NEW k \in 1..Len(Table(source)), NEW c \in 1..5,
           NEW a, Place(k, c, a, <<>>), Inside(k, c, <<>>)
    PROVE  pc' = "parse" /\ Reading'
<1>. DEFINE C == Signs(source)
            z == Behind(source, k, c)
<1>0. i \in Nat /\ Len(text) \in Nat
  BY DEF Parser
<1>1. z \in Seq(C) /\ {Quote, Comma, LF} \subseteq C /\ a \in Seq(C)
  BY RowType, BehindNextCell DEF Place
<1>2. inQuotes /\ Quoted(Table(source)[k][c]) /\ Rest = <<Quote>> \o z
  <2>1. Doubled(<<>>) = <<>>
    <3>. HIDE DEF C
    <3>. QED
      BY <1>1, DoubledParts
  <2>2. inQuotes /\ Quoted(Table(source)[k][c]) /\ Rest = <<>> \o (<<Quote>> \o z)
    BY <2>1 DEF Inside
  <2>. DEFINE s == <<Quote>> \o z
  <2>3. s \in Seq(C)
    <3>. HIDE DEF C, z
    <3>. QED
      BY <1>1
  <2>. HIDE DEF s
  <2>4. <<>> \o s = s
    BY <2>3, ConcatEmptySeq
  <2>. QED
    BY <2>2, <2>4 DEF s
<1>3. z = <<>> \/ \E y \in {Comma, LF}, r \in Seq(C) : z = <<y>> \o r
  <2>1. CASE c < 5
    <3>. DEFINE e == CsvEscape(Table(source)[k][c + 1])
                y == Behind(source, k, c + 1)
    <3>1. e \in Seq(C) /\ y \in Seq(C) /\ z = <<Comma>> \o (e \o y)
      <4>1. c + 1 \in 1..5
        BY <2>1
      <4>. QED
        BY <2>1, <4>1, BehindNextCell
    <3>. HIDE DEF e, y, z, C
    <3>2. e \o y \in Seq(C)
      BY <3>1, ConcatProperties
    <3>. QED
      BY <3>1, <3>2
  <2>2. CASE c = 5 /\ k < Len(Table(source))
    <3>. DEFINE e == CsvEscape(Table(source)[k + 1][1])
                y == Behind(source, k + 1, 1)
    <3>1. e \in Seq(C) /\ y \in Seq(C) /\ z = <<LF>> \o (e \o y)
      <4>1. k + 1 \in 1..Len(Table(source)) /\ 1 \in 1..5
        <5>1. Len(Table(source)) \in Nat
          BY TableType
        <5>. QED
          BY <2>2, <5>1
      <4>2. e \in Seq(C) /\ y \in Seq(C)
        BY <4>1, BehindNextCell
      <4>. QED
        BY <2>2, <4>2, BehindNextRow
    <3>. HIDE DEF e, y, z, C
    <3>2. e \o y \in Seq(C)
      BY <3>1, ConcatProperties
    <3>. QED
      BY <3>1, <3>2
  <2>3. CASE c = 5 /\ k = Len(Table(source))
    BY <2>3, BehindNextRow
  <2>4. \/ c < 5 \/ (c = 5 /\ k < Len(Table(source))) \/ (c = 5 /\ k = Len(Table(source)))
    <3>. DEFINE n == Len(Table(source))
    <3>1. n \in Nat
      BY TableType
    <3>. HIDE DEF n
    <3>2. c < 5 \/ (c = 5 /\ k < n) \/ (c = 5 /\ k = n)
      BY <3>1 DEF n
    <3>. QED
      BY <3>2 DEF n
  <2>. HIDE DEF C, z
  <2>. QED
    BY <2>1, <2>2, <2>3, <2>4
<1>. HIDE DEF C, z
<1>4. i <= Len(text) /\ text[i] = Quote /\ (UNCHANGED text /\ i' = i + 1 => Rest' = z)
  BY <1>1, <1>2, RestBegins
<1>5. Peek # Quote
  <2>1. CASE z = <<>>
    <3>1. Peek = Absent
      BY <1>1, <1>2, <2>1, RestBegins
    <3>. QED
      BY <3>1, ColumnsExist
  <2>2. ASSUME NEW y \in {Comma, LF}, NEW r \in Seq(C), z = <<y>> \o r PROVE Peek # Quote
    <3>1. y \in C /\ Quote \in C /\ Rest = <<Quote>> \o (<<y>> \o r)
      BY <1>1, <1>2, <2>2
    <3>2. Peek = y
      BY <3>1, RestBeginsTwice
    <3>. QED
      BY <3>2 DEF Quote, Comma, LF
  <2>. QED
    BY <1>3, <2>1, <2>2
<1>6. Stays /\ pc' = "parse" /\ i' = i + 1 /\ ~inQuotes' /\ UNCHANGED <<field, row, rows>>
  BY <1>0, <1>2, <1>4, <1>5, TurnByCharacter
<1>7. source' = source /\ Rest' = z
  BY <1>4, <1>6 DEF Stays
<1>8. Place(k, c, a, <<>>)'
  BY <1>6, <1>7 DEF Place
<1>9. Bare(k, c, <<>>)'
  <2>1. <<>> \o z = z
    BY <1>1, ConcatEmptySeq
  <2>. QED
    BY <1>6, <1>7, <2>1 DEF Bare, z
<1>10. Reading'
  BY <1>1, <1>7, <1>8, <1>9, EmptySeq DEF Reading, C
<1>. QED
  BY <1>6, <1>10

(* ... and a letter between them, which is a quote if there are two. *)
LEMMA QuotedLetter ==
    ASSUME Parser, ParserTurn, source \in Stored, NEW k \in 1..Len(Table(source)), NEW c \in 1..5,
           NEW a, NEW b, Place(k, c, a, b), Inside(k, c, b), b # <<>>
    PROVE  pc' = "parse" /\ Reading'
<1>. DEFINE C == Signs(source)
            cell == Table(source)[k][c]
            z == <<Quote>> \o Behind(source, k, c)
<1>0. i \in Nat /\ Len(text) \in Nat
  BY DEF Parser
<1>1. a \in Seq(C) /\ b \in Seq(C) /\ cell = a \o b /\ field = a /\ inQuotes /\ Quoted(cell) /\ Rest = Doubled(b) \o z
  BY DEF Place, Inside
<1>2. z \in Seq(C) /\ Quote \in C
  <2>1. Behind(source, k, c) \in Seq(C) /\ Quote \in C
    BY RowType, BehindNextCell
  <2>. DEFINE y == Behind(source, k, c)
  <2>. HIDE DEF C, y
  <2>2. y \in Seq(C) /\ Quote \in C
    BY <2>1 DEF y
  <2>3. <<Quote>> \o y \in Seq(C)
    BY ONLY <2>2
  <2>. QED
    BY <2>2, <2>3 DEF y
<1>. HIDE DEF C, cell, z
<1>3. PICK x \in C, r \in Seq(C) : b = <<x>> \o r
  BY <1>1, FirstOf
<1>. DEFINE d == Doubled(r)
            w == d \o z
<1>4. d \in Seq(C) /\ Doubled(b) = (IF x = Quote THEN <<Quote, Quote>> ELSE <<x>>) \o d
  <2>1. Doubled(r) \in Seq(C) /\ Doubled(<<x>> \o r) = (IF x = Quote THEN <<Quote, Quote>> ELSE <<x>>) \o Doubled(r)
    BY <1>2, DoubledParts
  <2>. QED
    BY <1>3, <2>1
<1>5. cell = Append(a, x) \o r /\ Append(a, x) \in Seq(C)
  <2>1. a \in Seq(C) /\ cell = a \o (<<x>> \o r)
    BY <1>1, <1>3
  <2>. QED
    BY ONLY <2>1, x \in C, r \in Seq(C), InTheMiddle
<1>. HIDE DEF d
<1>6. w \in Seq(C)
  BY <1>2, <1>4, ConcatProperties
<1>7. Stays /\ pc' = "parse" /\ field' = Append(field, x) /\ UNCHANGED <<inQuotes, row, rows>> /\ Rest' = w
  <2>1. CASE x = Quote
    <3>1. Rest = <<Quote>> \o (<<Quote>> \o w)
      <4>. DEFINE q == <<Quote>>
                  s == <<Quote, Quote>>
      <4>1. q \in Seq(C) /\ s \in Seq(C) /\ s = q \o q
        BY <1>2
      <4>2. Rest = (s \o d) \o z
        BY <1>1, <1>4, <2>1
      <4>. HIDE DEF q, s
      <4>5. s \in Seq(C) /\ d \in Seq(C) /\ z \in Seq(C)
        BY <1>2, <1>4, <4>1
      <4>6. (s \o d) \o z = s \o (d \o z)
        BY ONLY <4>5, ThreeParts, SMTT(30)
      <4>3. (s \o d) \o z = s \o w
        BY <4>6
      <4>. HIDE DEF w
      <4>4. (q \o q) \o w = q \o (q \o w)
        BY ONLY <1>6, <4>1, ThreeParts
      <4>. QED
        BY <4>1, <4>2, <4>3, <4>4 DEF q
    <3>. HIDE DEF w
    <3>2. i <= Len(text) /\ text[i] = Quote /\ Peek = Quote /\ (UNCHANGED text /\ i' = i + 2 => Rest' = w)
      BY <1>2, <1>6, <3>1, RestBeginsTwice
    <3>3. Stays /\ pc' = "parse" /\ i' = i + 2 /\ field' = Append(field, Quote) /\ UNCHANGED <<inQuotes, row, rows>>
      BY <1>0, <1>1, <3>2, TurnByCharacter
    <3>. QED
      BY <2>1, <3>2, <3>3 DEF Stays
  <2>2. CASE x # Quote
    <3>1. Rest = <<x>> \o w
      <4>. DEFINE q == <<x>>
      <4>1. q \in Seq(C)
        OBVIOUS
      <4>2. Rest = (q \o d) \o z
        BY <1>1, <1>4, <2>2
      <4>. HIDE DEF q
      <4>5. q \in Seq(C) /\ d \in Seq(C) /\ z \in Seq(C)
        BY <1>2, <1>4, <4>1
      <4>6. (q \o d) \o z = q \o (d \o z)
        BY ONLY <4>5, ThreeParts, SMTT(30)
      <4>3. (q \o d) \o z = q \o w
        BY <4>6
      <4>. HIDE DEF w
      <4>. QED
        BY <4>2, <4>3 DEF q
    <3>. HIDE DEF w
    <3>2. i <= Len(text) /\ text[i] = x /\ (UNCHANGED text /\ i' = i + 1 => Rest' = w)
      BY <1>6, <3>1, RestBegins
    <3>3. Stays /\ pc' = "parse" /\ i' = i + 1 /\ field' = Append(field, x) /\ UNCHANGED <<inQuotes, row, rows>>
      BY <1>0, <1>1, <2>2, <3>2, TurnByCharacter
    <3>. QED
      BY <3>2, <3>3 DEF Stays
  <2>. QED
    BY <2>1, <2>2
<1>8. source' = source
  BY <1>7 DEF Stays
<1>9. Place(k, c, Append(a, x), r)'
  BY <1>1, <1>5, <1>7, <1>8 DEF Place, C, cell
<1>10. Inside(k, c, r)'
  BY <1>1, <1>7, <1>8 DEF Inside, cell, z, d
<1>11. Reading'
  BY <1>5, <1>8, <1>9, <1>10 DEF Reading, C
<1>. QED
  BY <1>7, <1>11

(* What is read of an export: all that is before the place of the parser. *)
ReadSoFar ==
    /\ source \in Stored \cup {Absent}
    /\ source # Absent /\ ~Unprotected(source) /\ pc # "off" =>
          IF pc = "parse" THEN Reading ELSE rows = Table(source)

(* So every turn goes on reading, or has read all rows. *)
LEMMA TurnReads ==
    ASSUME Parser, ParserTurn, source \in Stored, ~Unprotected(source), Reading
    PROVE  (pc' = "parse" /\ Reading') \/ (pc' = "import" /\ rows' = Table(source))
<1>1. PICK k \in 1..Len(Table(source)), c \in 1..5 : \E a, b \in Seq(Signs(source)) :
        Place(k, c, a, b) /\ (Bare(k, c, b) \/ Outside(k, c, a, b) \/ Inside(k, c, b))
  BY DEF Reading
<1>2. PICK a, b \in Seq(Signs(source)) :
        Place(k, c, a, b) /\ (Bare(k, c, b) \/ Outside(k, c, a, b) \/ Inside(k, c, b))
  BY <1>1
<1>3. CASE Outside(k, c, a, b)
  BY <1>2, <1>3, QuoteOpens
<1>4. CASE Inside(k, c, b) /\ b = <<>>
  BY <1>2, <1>4, QuoteCloses
<1>5. CASE Inside(k, c, b) /\ b # <<>>
  BY <1>2, <1>5, QuotedLetter
<1>6. CASE Bare(k, c, b) /\ b # <<>>
  BY <1>2, <1>6, BareLetter
<1>7. CASE Bare(k, c, b) /\ b = <<>>
  <2>1. Len(Table(source)) \in Nat
    BY TableType
  <2>2. CASE c # 5
    <3>1. c \in 1..4
      BY <2>2
    <3>. QED
      BY <1>2, <1>7, <3>1, NextCell
  <2>3. CASE c = 5 /\ k # Len(Table(source))
    <3>1. k < Len(Table(source))
      <4>. DEFINE n == Len(Table(source))
      <4>1. n \in Nat /\ k \in 1..n /\ k # n
        BY <2>1, <2>3
      <4>. HIDE DEF n
      <4>2. k < n
        BY <4>1
      <4>. QED
        BY <4>2 DEF n
    <3>. QED
      BY <1>2, <1>7, <2>3, <3>1, NextRow
  <2>4. CASE c = 5 /\ k = Len(Table(source))
    BY <1>2, <1>7, <2>4, LastRow
  <2>. QED
    BY <2>2, <2>3, <2>4
<1>. QED
  BY <1>2, <1>3, <1>4, <1>5, <1>6, <1>7

(* Each step of the import keeps that. *)
LEMMA ImportReads ==
    ASSUME Parser, ReadSoFar, ImportNext PROVE ReadSoFar'
<1>1. source' = source
  BY DEF ImportNext, Escaped, Unquote, OpenQuote, Plain, EndField, EndRow, EndText, ImportTasks, Refuse
<1>2. SUFFICES ASSUME source # Absent, ~Unprotected(source) PROVE IF pc' = "parse" THEN Reading' ELSE rows' = Table(source)
  BY <1>1 DEF ReadSoFar
<1>3. source \in Stored
  BY <1>2 DEF ReadSoFar
<1>4. CASE ParserTurn
  <2>1. pc = "parse"
    BY <1>4 DEF ParserTurn, Escaped, Unquote, OpenQuote, Plain, EndField, EndRow, EndText, Char
  <2>2. Reading
    BY <1>2, <2>1 DEF ReadSoFar
  <2>. QED
    BY <1>2, <1>3, <1>4, <2>2, TurnReads
<1>5. CASE ImportTasks \/ Refuse
  <2>1. pc = "import" /\ pc' \in {"done", "refused"} /\ rows' = rows
    BY <1>5 DEF ImportTasks, Refuse
  <2>. QED
    BY <1>2, <2>1 DEF ReadSoFar
<1>. QED
  BY <1>4, <1>5 DEF ImportNext, ParserTurn

(* An export has no byte order mark: it begins with its first cell. *)
LEMMA ExportBegins ==
    ASSUME NEW tasks \in Stored
    PROVE  /\ ExportTasks(tasks) \in Seq(Signs(tasks)) /\ ExportTasks(tasks) # <<>> /\ ExportTasks(tasks)[1] # Bom
           /\ SubSeq(ExportTasks(tasks), 1, Len(ExportTasks(tasks))) = CsvEscape(Table(tasks)[1][1]) \o Behind(tasks, 1, 1)
<1>. DEFINE C == Signs(tasks)
            all == ExportTasks(tasks)
            h == <<"_id">>
            z == Behind(tasks, 1, 1)
<1>1. 1 \in 1..Len(Table(tasks)) /\ Table(tasks)[1] = Header
  <2>1. Len(Table(tasks)) = Len(tasks) + 1 /\ Len(tasks) \in Nat /\ Table(tasks)[1] = Header
    BY TableType
  <2>. HIDE DEF C
  <2>. QED
    BY <2>1
<1>2. Table(tasks)[1][1] = h
  BY <1>1 DEF Header
<1>3. CsvEscape(h) = h
  <2>1. ~Has(h, {Quote, Comma, LF})
    <3>1. DOMAIN h = {1} /\ h[1] = "_id"
      OBVIOUS
    <3>2. "_id" \notin {Quote, Comma, LF}
      BY DEF Quote, Comma, LF
    <3>. HIDE DEF h
    <3>. QED
      BY <3>1, <3>2 DEF Has
  <2>. QED
    BY <2>1 DEF CsvEscape
<1>4. all \in Seq(C) /\ z \in Seq(C)
  BY <1>1, ExportType, BehindNextCell
<1>5. all = h \o z
  BY <1>1, <1>2, <1>3, BehindNextRow
<1>6. h \in Seq(C) /\ Len(h) = 1 /\ h[1] = "_id"
  BY DEF Signs
<1>. HIDE DEF C, all, h, z
<1>7. all # <<>> /\ all[1] = "_id"
  <2>1. Len(all) = 1 + Len(z) /\ Len(z) \in Nat /\ 1 \in 1..(Len(h) + Len(z))
    <3>2. h \in Seq(C) /\ z \in Seq(C)
      BY <1>4, <1>6
    <3>3. Len(z) \in Nat
      BY ONLY <3>2
    <3>4. Len(h \o z) = Len(h) + Len(z)
      BY ONLY <3>2, ConcatProperties
    <3>1. Len(h \o z) = Len(h) + Len(z) /\ Len(z) \in Nat
      BY <3>3, <3>4
    <3>. QED
      BY <1>5, <1>6, <3>1
  <2>2. all[1] = h[1]
    <3>1. 1 \in 1..(Len(h) + Len(z)) /\ (h \o z)[1] = IF 1 <= Len(h) THEN h[1] ELSE z[1 - Len(h)]
      BY <1>4, <1>6, <2>1, ConcatProperties
    <3>. QED
      BY <1>5, <1>6, <3>1
  <2>3. Len(<<>>) = 0
    OBVIOUS
  <2>. QED
    BY <1>6, <2>1, <2>2, <2>3
<1>8. SubSeq(all, 1, Len(all)) = all
  BY <1>4, SubSeqFull
<1>. QED
  BY <1>2, <1>3, <1>4, <1>5, <1>7, <1>8 DEF all, C, z, Bom

(* All of it holds when an import begins. *)
LEMMA ImportBegins ==
    ASSUME ImportOff \/ ImportInit PROVE Parser /\ DocsFit /\ NothingLost /\ ReadSoFar
<1>1. /\ text \in Seq(Chars) /\ i \in 1..(Len(text) + 1) /\ (i = 1 \/ (i = 2 /\ text # <<>> /\ text[1] = Bom))
  <2>1. CASE ImportOff
    BY <2>1, EmptySeq DEF ImportOff
  <2>2. CASE ImportInit
    <3>1. text \in Seq(Chars)
      <4>1. CASE source = Absent
        <5>1. text \in Texts /\ Chars = ToSet(text)
          BY <2>2, <4>1 DEF ImportInit, Chars, ToSet
        <5>. QED
          BY <5>1, ImportExportAssumption
      <4>2. CASE source # Absent
        <5>1. text \in Seq(Signs(source))
          BY <2>2, <4>2, ExportBegins DEF ImportInit
        <5>2. \A n \in 1..Len(text) : text[n] \in Chars
          BY <5>1 DEF Chars
        <5>3. text = [n \in 1..Len(text) |-> text[n]] /\ Len(text) \in Nat
          BY <5>1
        <5>. QED
          BY <5>2, <5>3
      <4>. QED
        BY <4>1, <4>2
    <3>2. i = IF text # <<>> /\ text[1] = Bom THEN 2 ELSE 1
      BY <2>2 DEF ImportInit
    <3>3. text # <<>> => Len(text) \in Nat \ {0}
      BY <3>1
    <3>. QED
      BY <3>1, <3>2, <3>3
  <2>. QED
    BY <2>1, <2>2
<1>2. /\ inQuotes = FALSE /\ field = <<>> /\ row = <<>> /\ rows = <<>> /\ docs = <<>> /\ failed = <<>>
      /\ pc \in {"off", "parse"}
  BY DEF ImportOff, ImportInit
<1>3. Parser
  BY <1>1, <1>2, EmptySeq DEF Parser
<1>4. DocsFit
  BY <1>2, EmptySeq DEF DocsFit
<1>5. NothingLost
  <2>1. Content(Gone) = <<>>
    <3>1. CASE i = 1
      <4>1. Gone = <<>>
        BY <3>1, SubSeqEmpty DEF Gone
      <4>. QED
        BY <1>1, <4>1, ContentConcat
    <3>2. CASE i = 2 /\ text # <<>> /\ text[1] = Bom
      <4>1. Len(text) \in Nat /\ 1 \in 1..Len(text)
        BY <1>1, <3>2
      <4>2. SubSeq(text, 1, 1) \in Seq(Chars) /\ Len(SubSeq(text, 1, 1)) = 1 /\ SubSeq(text, 1, 1)[1] = text[1]
        <5>1. \A n \in 1..1 : text[n] \in Chars
          BY <1>1, <4>1
        <5>. QED
          BY <4>1, <5>1, SubSeqProperties
      <4>3. Gone = SubSeq(text, 1, 1)
        BY <3>2 DEF Gone
      <4>4. Gone \in Seq(Chars) /\ \A n \in 1..Len(Gone) : Gone[n] \in Marks
        <5>1. Gone \in Seq(Chars) /\ Len(Gone) = 1 /\ Gone[1] = text[1]
          BY <4>2, <4>3
        <5>2. text[1] \in Marks
          BY <3>2 DEF Marks, White
        <5>. QED
          BY <5>1, <5>2
      <4>. QED
        BY <4>4, ContentNothing
    <3>. QED
      BY <1>1, <3>1, <3>2
  <2>2. Content(Held) = <<>>
    <3>1. [k \in DOMAIN <<>> |-> FlattenSeq(<<>>[k])] = <<>>
      OBVIOUS
    <3>2. InRows = <<>> /\ FlattenSeq(row) = <<>>
      BY <1>2, <3>1, FlattenEmpty DEF InRows
    <3>3. Held = <<>>
      BY <1>2, <3>2 DEF Held
    <3>. QED
      BY <1>1, <3>3, ContentConcat
  <2>. QED
    BY <2>1, <2>2 DEF NothingLost, Gone, Held, InRows
<1>6. ReadSoFar
  <2>1. source \in Stored \cup {Absent}
    BY DEF ImportOff, ImportInit
  <2>2. ASSUME source # Absent PROVE pc = "parse" /\ Reading
    <3>1. ImportInit /\ source \in Stored /\ text = ExportTasks(source) /\ pc = "parse"
      BY <2>2 DEF ImportOff, ImportInit
    <3>2. i = 1 /\ Rest = CsvEscape(Table(source)[1][1]) \o Behind(source, 1, 1)
      BY <3>1, ExportBegins DEF ImportInit, Rest
    <3>3. 1 \in 1..Len(Table(source)) /\ 1 \in 1..5
      <4>1. Len(Table(source)) = Len(source) + 1 /\ Len(source) \in Nat
        BY <3>1, TableType
      <4>. QED
        BY <4>1
    <3>4. SubSeq(Table(source), 1, 1 - 1) = <<>> /\ SubSeq(Table(source)[1], 1, 1 - 1) = <<>>
      BY SubSeqEmpty
    <3>5. Beginning
      BY <1>2, <3>1, <3>2, <3>3, <3>4 DEF Beginning
    <3>. QED
      BY <3>1, <3>5, BeginsReading
  <2>. QED
    BY <2>1, <2>2 DEF ReadSoFar
<1>. QED
  BY <1>3, <1>4, <1>5, <1>6

(* What the import keeps. *)
Imports == Parser /\ DocsFit /\ NothingLost /\ ReadSoFar

(* The inductive step: of the import, and of those that leave it alone. *)
LEMMA ImportKeeps == ASSUME Imports, ImportNext PROVE Imports'
<1>1. Parser /\ DocsFit /\ NothingLost /\ ReadSoFar
  BY DEF Imports
<1>2. ReadSoFar'
  BY <1>1, ImportReads
<1>3. CASE ParserTurn
  <2>1. Turned
    BY <1>1, <1>3, ParserTurns DEF ParserTurn
  <2>2. Parser' /\ DocsFit' /\ NothingLost'
    BY <1>1, <2>1, TurnedKeepsParser, TurnedFits, TurnedLosesNothing
  <2>. QED
    BY <1>2, <2>2 DEF Imports
<1>4. CASE ImportTasks \/ Refuse
  BY <1>1, <1>2, <1>4, ImportFits DEF Imports
<1>. QED
  BY <1>3, <1>4 DEF ImportNext, ParserTurn

LEMMA ImportRests == ASSUME Imports, UNCHANGED importVars PROVE Imports'
<1>1. /\ source' = source /\ text' = text /\ i' = i /\ inQuotes' = inQuotes /\ field' = field /\ row' = row
      /\ rows' = rows /\ pc' = pc /\ docs' = docs /\ failed' = failed
  BY DEF importVars
<1>2. Parser' /\ DocsFit' /\ NothingLost'
  BY <1>1 DEF Imports, Parser, DocsFit, NothingLost, Chars, Doc
<1>3. Reading => Reading'
  <2>1. Rest' = Rest
    BY <1>1 DEF Rest
  <2>2. ASSUME NEW k, NEW c, NEW a, NEW b
        PROVE  /\ Place(k, c, a, b) => Place(k, c, a, b)'
               /\ (Bare(k, c, b) \/ Outside(k, c, a, b) \/ Inside(k, c, b))
                    => (Bare(k, c, b) \/ Outside(k, c, a, b) \/ Inside(k, c, b))'
    BY <1>1, <2>1 DEF Place, Bare, Outside, Inside
  <2>. SUFFICES ASSUME Reading PROVE Reading'
    OBVIOUS
  <2>3. PICK k \in 1..Len(Table(source)), c \in 1..5 : \E a, b \in Seq(Signs(source)) :
          Place(k, c, a, b) /\ (Bare(k, c, b) \/ Outside(k, c, a, b) \/ Inside(k, c, b))
    BY DEF Reading
  <2>4. PICK a, b \in Seq(Signs(source)) :
          Place(k, c, a, b) /\ (Bare(k, c, b) \/ Outside(k, c, a, b) \/ Inside(k, c, b))
    BY <2>3
  <2>5. Place(k, c, a, b)' /\ (Bare(k, c, b) \/ Outside(k, c, a, b) \/ Inside(k, c, b))'
    BY <2>2, <2>4
  <2>. QED
    BY <1>1, <2>5 DEF Reading
<1>4. ReadSoFar'
  BY <1>1, <1>3 DEF Imports, ReadSoFar
<1>. QED
  BY <1>2, <1>4 DEF Imports

(* It says that an export is read back when it is parsed. *)
LEMMA ReadBack == Imports => ExportIsReadBack
BY DEF Imports, ReadSoFar, ExportIsReadBack

(* A text without blanks at its ends, which Trim leaves as it is. *)
Solid(s) == s = <<>> \/ (s[1] \notin White /\ s[Len(s)] \notin White)

(* A text is its own Trim exactly if it is solid. *)
LEMMA SolidTrims ==
    ASSUME NEW T, NEW s \in Seq(T) PROVE Trim(s) = s <=> Solid(s)
<1>. DEFINE inner == {k \in DOMAIN s : s[k] \notin White}
            least == CHOOSE k \in inner : \A l \in inner : k <= l
            most  == CHOOSE k \in inner : \A l \in inner : k >= l
            n == Len(s)
<1>0. DOMAIN s = 1..n /\ n \in Nat /\ (\A k \in 1..n : s[k] \in T) /\ (s = <<>> <=> n = 0)
  OBVIOUS
<1>1. CASE inner = {}
  <2>1. Trim(s) = <<>>
    BY <1>1 DEF Trim
  <2>2. s # <<>> => s[1] \in White
    <3>1. s # <<>> => 1 \in DOMAIN s
      BY <1>0
    <3>. QED
      BY <1>1, <3>1
  <2>. QED
    BY <2>1, <2>2 DEF Solid
<1>2. CASE inner # {}
  <2>0. Trim(s) = SubSeq(s, least, most)
    BY <1>2 DEF Trim
  <2>1. inner \in SUBSET Nat /\ \A k \in inner : k \in 1..n
    BY <1>0
  <2>2. \A k \in 1..n : k \in inner <=> s[k] \notin White
    BY <1>0
  <2>3. least \in inner /\ \A l \in inner : least <= l
    <3>. HIDE DEF inner
    <3>. QED
      BY <1>2, <2>1, LeastNumber
  <2>4. most \in inner /\ \A l \in inner : most >= l
    <3>1. n \in Nat /\ \A k \in inner : k <= n
      BY <1>0, <2>1
    <3>. HIDE DEF inner, n
    <3>. QED
      BY <1>2, <2>1, <3>1, GreatestNumber
  <2>. HIDE DEF least, most, inner, n
  <2>5. least \in 1..n /\ most \in 1..n /\ least <= most /\ s[least] \notin White /\ s[most] \notin White
    BY <1>0, <2>1, <2>2, <2>3, <2>4
  <2>6. Len(SubSeq(s, least, most)) = most - least + 1
    <3>1. (\A k \in least..most : s[k] \in T) /\ least \in Int /\ most \in Int
      BY <1>0, <2>5
    <3>. QED
      BY <2>5, <3>1, SubSeqProperties
  <2>7. ASSUME Trim(s) = s PROVE Solid(s)
    <3>1. n = most - least + 1
      BY <2>0, <2>6, <2>7 DEF n
    <3>2. least = 1 /\ most = n
      BY <1>0, <2>5, <3>1
    <3>. QED
      BY <2>5, <3>2 DEF Solid, n
  <2>8. ASSUME Solid(s) PROVE Trim(s) = s
    <3>1. s # <<>>
      BY <1>0, <2>5
    <3>2. s[1] \notin White /\ s[n] \notin White /\ 1 \in 1..n /\ n \in 1..n
      BY <1>0, <2>5, <2>8, <3>1 DEF Solid, n
    <3>3. 1 \in inner /\ n \in inner
      BY <2>2, <3>2
    <3>4. least <= 1 /\ most >= n
      BY <2>3, <2>4, <3>3
    <3>5. least = 1 /\ most = n
      BY <1>0, <2>5, <3>4
    <3>. QED
      BY <2>0, <3>5, SubSeqFull DEF n
  <2>. QED
    BY <2>7, <2>8
<1>. QED
  BY <1>1, <1>2

LEMMA SignTrims == ASSUME NEW x, x \notin White PROVE Trim(<<x>>) = <<x>> /\ <<x>> # <<>>
<1>. DEFINE s == <<x>>
<1>1. s \in Seq({x}) /\ s # <<>> /\ Len(s) = 1 /\ s[1] = x
  OBVIOUS
<1>. HIDE DEF s
<1>2. Solid(s)
  BY <1>1 DEF Solid
<1>3. Trim(s) = s /\ s # <<>>
  BY <1>1, <1>2, SolidTrims
<1>. QED
  BY <1>3 DEF s

(* Solid texts make a solid one. *)
LEMMA ConcatSolid ==
    ASSUME NEW T, NEW a \in Seq(T), NEW sep \in T, NEW b \in Seq(T), Solid(a), a # <<>>, Solid(b), b # <<>>
    PROVE  Solid(a \o (<<sep>> \o b)) /\ a \o (<<sep>> \o b) \in Seq(T) /\ a \o (<<sep>> \o b) # <<>>
<1>. DEFINE h == <<sep>>
            r == h \o b
            s == a \o r
<1>1. h \in Seq(T) /\ Len(h) = 1
  OBVIOUS
<1>2. Len(a) \in Nat /\ Len(b) \in Nat /\ Len(a) # 0 /\ Len(b) # 0
  OBVIOUS
<1>3. a[1] \notin White /\ b[Len(b)] \notin White
  BY DEF Solid
<1>. HIDE DEF h
<1>4. r \in Seq(T) /\ Len(r) = 1 + Len(b) /\ r[1 + Len(b)] = b[Len(b)]
  <2>1. r \in Seq(T) /\ Len(r) = Len(h) + Len(b)
    BY <1>1, ConcatProperties
  <2>2. 1 + Len(b) \in 1..(Len(h) + Len(b)) /\ ~(1 + Len(b) <= Len(h)) /\ (1 + Len(b)) - Len(h) = Len(b)
    BY <1>1, <1>2
  <2>3. (h \o b)[1 + Len(b)] = IF 1 + Len(b) <= Len(h) THEN h[1 + Len(b)] ELSE b[(1 + Len(b)) - Len(h)]
    BY <1>1, <2>2, ConcatProperties
  <2>. QED
    BY <1>1, <2>1, <2>2, <2>3
<1>. HIDE DEF r
<1>5. s \in Seq(T) /\ Len(s) = Len(a) + Len(r)
  BY <1>4, ConcatProperties
<1>6. s[1] = a[1] /\ s[Len(s)] = r[Len(r)]
  <2>1. 1 \in 1..(Len(a) + Len(r)) /\ 1 <= Len(a) /\ Len(a) + Len(r) \in 1..(Len(a) + Len(r))
        /\ ~(Len(a) + Len(r) <= Len(a)) /\ (Len(a) + Len(r)) - Len(a) = Len(r)
    BY <1>2, <1>4
  <2>2. \A k \in 1..(Len(a) + Len(r)) : (a \o r)[k] = IF k <= Len(a) THEN a[k] ELSE r[k - Len(a)]
    BY <1>4, ConcatProperties
  <2>3. (a \o r)[1] = a[1] /\ (a \o r)[Len(a) + Len(r)] = r[Len(r)]
    BY <2>1, <2>2
  <2>. QED
    BY <1>5, <2>3
<1>7. s # <<>>
  <2>1. Len(s) # 0 /\ Len(<<>>) = 0
    BY <1>2, <1>4, <1>5
  <2>. QED
    BY <2>1
<1>8. Solid(s)
  BY <1>3, <1>4, <1>6 DEF Solid
<1>. QED
  BY <1>5, <1>7, <1>8 DEF r, h

-----------------------------------------------------------------------------
(* Nothing at the end of what is put together, and one of each. *)
LEMMA FlattenSkips ==
    ASSUME NEW T, NEW m \in Seq(Seq(T)), NEW p \in 0..Len(m), \A k \in (p + 1)..Len(m) : m[k] = <<>>
    PROVE  FlattenSeq(m) = FlattenSeq(SubSeq(m, 1, p))
<1>. DEFINE U == Seq(T)
            Skips(r) == (p <= Len(r) /\ \A k \in (p + 1)..Len(r) : r[k] = <<>>) => FlattenSeq(r) = FlattenSeq(SubSeq(r, 1, p))
            S == {r \in Seq(U) : Skips(r)}
<1>0. p \in Nat
  OBVIOUS
<1>a. ASSUME NEW r \in Seq(U), p = Len(r) PROVE FlattenSeq(r) = FlattenSeq(SubSeq(r, 1, p))
  <2>. HIDE DEF U
  <2>1. SubSeq(r, 1, Len(r)) = r
    BY SubSeqFull
  <2>. QED
    BY <1>a, <2>1
<1>1. <<>> \in S
  <2>1. <<>> \in Seq(U) /\ Len(<<>>) = 0
    BY EmptySeq
  <2>2. Skips(<<>>)
    <3>. HIDE DEF U
    <3>1. p <= Len(<<>>) => p = Len(<<>>)
      BY <1>0, <2>1
    <3>. QED
      BY <1>a, <2>1, <3>1
  <2>. HIDE DEF Skips, U
  <2>. QED
    BY <2>1, <2>2
<1>2. ASSUME NEW r \in Seq(U), NEW x \in U, r \in S PROVE Append(r, x) \in S
  <2>. DEFINE q == Append(r, x)
  <2>1. /\ q \in Seq(U) /\ Len(q) = Len(r) + 1 /\ Len(r) \in Nat /\ q[Len(r) + 1] = x
        /\ \A k \in 1..Len(r) : q[k] = r[k]
    <3>. HIDE DEF U
    <3>. QED
      BY AppendProperties
  <2>2. ASSUME p <= Len(q), \A k \in (p + 1)..Len(q) : q[k] = <<>> PROVE FlattenSeq(q) = FlattenSeq(SubSeq(q, 1, p))
    <3>1. CASE p = Len(q)
      BY <1>a, <2>1, <3>1
    <3>2. CASE p # Len(q)
      <4>1. p <= Len(r) /\ Len(r) + 1 \in (p + 1)..Len(q)
        BY <1>0, <2>1, <2>2, <3>2
      <4>2. x = <<>>
        BY <2>1, <2>2, <4>1
      <4>3. ASSUME NEW k \in (p + 1)..Len(r) PROVE r[k] = <<>>
        <5>1. k \in 1..Len(r) /\ k \in (p + 1)..Len(q)
          BY <1>0, <2>1, <4>3
        <5>. QED
          BY <2>1, <2>2, <5>1
      <4>4. FlattenSeq(r) = FlattenSeq(SubSeq(r, 1, p))
        BY <1>2, <4>1, <4>3
      <4>5. FlattenSeq(q) = FlattenSeq(r)
        <5>1. FlattenSeq(q) = FlattenSeq(r) \o x
          BY <1>2, FlattenAppend
        <5>2. FlattenSeq(r) \in Seq(T)
          BY <1>2, FlattenType
        <5>. QED
          BY <4>2, <5>1, <5>2, ConcatEmptySeq
      <4>6. SubSeq(q, 1, p) = SubSeq(r, 1, p)
        <5>. HIDE DEF U
        <5>1. \A k \in 1..p : q[k] = r[k] /\ r[k] \in U
          BY <1>0, <2>1, <4>1
        <5>. HIDE DEF q
        <5>2. p \in Int /\ 1 \in Int
          BY <1>0
        <5>3. /\ SubSeq(r, 1, p) \in Seq(U) /\ Len(SubSeq(r, 1, p)) = IF 1 <= p THEN p - 1 + 1 ELSE 0
              /\ \A k \in 1..(p - 1 + 1) : SubSeq(r, 1, p)[k] = r[1 + k - 1]
          BY <5>1, <5>2, SubSeqProperties
        <5>8. \A k \in 1..p : q[k] \in U
          BY <5>1
        <5>4. /\ SubSeq(q, 1, p) \in Seq(U) /\ Len(SubSeq(q, 1, p)) = IF 1 <= p THEN p - 1 + 1 ELSE 0
              /\ \A k \in 1..(p - 1 + 1) : SubSeq(q, 1, p)[k] = q[1 + k - 1]
          BY ONLY <5>8, <5>2, SubSeqProperties
        <5>5. \A k \in 1..p : k \in 1..(p - 1 + 1) /\ 1 + k - 1 = k
          BY <1>0
        <5>6. \A k \in 1..p : SubSeq(r, 1, p)[k] = SubSeq(q, 1, p)[k]
          BY <5>1, <5>3, <5>4, <5>5
        <5>7. Len(SubSeq(r, 1, p)) = p /\ Len(SubSeq(q, 1, p)) = p
          BY <1>0, <5>3, <5>4
        <5>. QED
          BY <5>3, <5>4, <5>6, <5>7, SeqEqual
      <4>. QED
        BY <4>4, <4>5, <4>6
    <3>. QED
      BY <3>1, <3>2
  <2>. QED
    BY <2>1, <2>2
<1>. HIDE DEF Skips, U
<1>3. Seq(U) \subseteq S
  <2>. HIDE DEF S
  <2>. QED
    BY <1>1, <1>2, SeqSet
<1>4. m \in S
  BY <1>3 DEF U
<1>. QED
  BY <1>4 DEF Skips

LEMMA FlattenNothing ==
    ASSUME NEW T, NEW m \in Seq(Seq(T)), \A k \in 1..Len(m) : m[k] = <<>> PROVE FlattenSeq(m) = <<>>
<1>1. 0 \in 0..Len(m) /\ \A k \in (0 + 1)..Len(m) : m[k] = <<>>
  OBVIOUS
<1>2. FlattenSeq(m) = FlattenSeq(SubSeq(m, 1, 0))
  BY <1>1, FlattenSkips
<1>3. SubSeq(m, 1, 0) = <<>>
  BY SubSeqEmpty
<1>. QED
  BY <1>2, <1>3, FlattenEmpty

LEMMA FlattenOnes ==
    ASSUME NEW T, NEW s \in Seq(T) PROVE FlattenSeq([k \in DOMAIN s |-> <<s[k]>>]) = s
<1>. DEFINE g == [x \in T |-> <<x>>]
            S == {r \in Seq(T) : Spread(g, r) = r}
<1>1. Replaces(g, T, T)
  BY DEF Replaces
<1>2. \A x \in T : g[x] = <<x>>
  OBVIOUS
<1>. HIDE DEF g
<1>3. <<>> \in S
  <2>1. [k \in DOMAIN <<>> |-> g[<<>>[k]]] = <<>>
    OBVIOUS
  <2>2. Spread(g, <<>>) = <<>>
    BY <2>1, FlattenEmpty DEF Spread
  <2>. QED
    BY <2>2, EmptySeq
<1>4. ASSUME NEW r \in Seq(T), NEW x \in T, r \in S PROVE Append(r, x) \in S
  <2>. DEFINE h == <<x>>
  <2>1. h \in Seq(T) /\ Append(r, x) = r \o h /\ Append(r, x) \in Seq(T)
    BY AppendConcat
  <2>2. Spread(g, h) = h
    BY <1>1, <1>2, SpreadOne
  <2>. HIDE DEF h
  <2>3. Spread(g, r \o h) = Spread(g, r) \o Spread(g, h)
    BY <1>1, <2>1, SpreadConcat
  <2>. QED
    BY <1>4, <2>1, <2>2, <2>3
<1>. HIDE DEF S
<1>5. Seq(T) \subseteq S
  BY <1>3, <1>4, SeqSet
<1>6. Spread(g, s) = s
  BY <1>5 DEF S
<1>7. [k \in DOMAIN s |-> <<s[k]>>] = [k \in DOMAIN s |-> g[s[k]]]
  <2>1. \A k \in DOMAIN s : s[k] \in T
    OBVIOUS
  <2>. QED
    BY <1>2, <2>1
<1>. QED
  BY <1>6, <1>7 DEF Spread

(* Where the parts of a text end, where each begins, and what it is. *)
Separators == {Semi, Comma}
EndsOf(s) == {k \in DOMAIN s : s[k] \in Separators} \cup {Len(s) + 1}
BeginOf(s, k) == CHOOSE l \in {0} \cup EndsOf(s) : l < k /\ \A m \in EndsOf(s) : m < k => m <= l
PartOf(s, k) == Trim(SubSeq(s, BeginOf(s, k) + 1, k - 1))
PartAt(s, k) == IF k \in EndsOf(s) /\ PartOf(s, k) # <<>> THEN <<PartOf(s, k)>> ELSE <<>>

(* What a text in two parts has at each place, and equal pieces of two texts. *)
LEMMA ConcatAt ==
    ASSUME NEW T, NEW a \in Seq(T), NEW b \in Seq(T), NEW s, s = a \o b, NEW n, n = Len(a), NEW m, m = Len(b)
    PROVE  /\ s \in Seq(T) /\ Len(s) = n + m
           /\ (\A k \in 1..n : s[k] = a[k]) /\ \A k \in 1..m : s[n + k] = b[k]
<1>1. n \in Nat /\ m \in Nat
  OBVIOUS
<1>2. s \in Seq(T) /\ Len(s) = n + m /\ \A k \in 1..(n + m) : s[k] = IF k <= n THEN a[k] ELSE b[k - n]
  BY ONLY a \in Seq(T), b \in Seq(T), s = a \o b, n = Len(a), m = Len(b), ConcatProperties
<1>3. \A k \in 1..n : k \in 1..(n + m) /\ k <= n
  BY ONLY <1>1
<1>4. \A k \in 1..m : n + k \in 1..(n + m) /\ ~(n + k <= n) /\ (n + k) - n = k
  BY ONLY <1>1
<1>5. \A k \in 1..n : s[k] = a[k]
  BY ONLY <1>2, <1>3
<1>6. \A k \in 1..m : s[n + k] = b[k]
  BY ONLY <1>2, <1>4
<1>. QED
  BY <1>2, <1>5, <1>6

LEMMA SubSeqAgree ==
    ASSUME NEW T, NEW m \in Int, NEW n \in Int, NEW s, NEW t,
           \A k \in m..n : s[k] \in T /\ t[k] = s[k]
    PROVE  SubSeq(s, m, n) = SubSeq(t, m, n)
<1>. DEFINE a == SubSeq(s, m, n)
            b == SubSeq(t, m, n)
            c == n - m + 1
<1>1. a \in Seq(T) /\ Len(a) = (IF m <= n THEN c ELSE 0) /\ \A k \in 1..c : a[k] = s[m + k - 1]
  <2>1. \A k \in m..n : s[k] \in T
    OBVIOUS
  <2>. QED
    BY ONLY <2>1, m \in Int, n \in Int, SubSeqProperties
<1>2. b \in Seq(T) /\ Len(b) = (IF m <= n THEN c ELSE 0) /\ \A k \in 1..c : b[k] = t[m + k - 1]
  <2>1. \A k \in m..n : t[k] \in T
    OBVIOUS
  <2>. QED
    BY ONLY <2>1, m \in Int, n \in Int, SubSeqProperties
<1>. HIDE DEF a, b
<1>3. \A k \in 1..c : m + k - 1 \in m..n
  OBVIOUS
<1>4. \A k \in 1..c : a[k] = b[k]
  BY <1>1, <1>2, <1>3
<1>5. \A k \in 1..Len(a) : k \in 1..c
  BY <1>1
<1>6. a = b
  BY <1>1, <1>2, <1>4, <1>5, SeqEqual
<1>. QED
  BY <1>6 DEF a, b

(* Parts, with the names above. *)
LEMMA PartsAre == ASSUME NEW s PROVE Parts(s, Separators) = FlattenSeq([k \in 1..(Len(s) + 1) |-> PartAt(s, k)])
BY DEF Parts, PartAt, PartOf, BeginOf, EndsOf

LEMMA BeginIs ==
    ASSUME NEW T, NEW s \in Seq(T), NEW k \in 1..(Len(s) + 1)
    PROVE  /\ EndsOf(s) \in SUBSET (1..(Len(s) + 1))
           /\ BeginOf(s, k) \in {0} \cup EndsOf(s) /\ BeginOf(s, k) < k /\ BeginOf(s, k) \in Nat
           /\ \A m \in EndsOf(s) : m < k => m <= BeginOf(s, k)
           /\ \A l \in {0} \cup EndsOf(s) : l < k /\ (\A m \in EndsOf(s) : m < k => m <= l) => BeginOf(s, k) = l
<1>. DEFINE n == Len(s) + 1
            ends == EndsOf(s)
            b == BeginOf(s, k)
<1>1. n \in Nat /\ ends \in SUBSET (1..n) /\ k \in 1..n
  <2>1. DOMAIN s = 1..Len(s) /\ Len(s) \in Nat
    OBVIOUS
  <2>. QED
    BY <2>1 DEF EndsOf
<1>. HIDE DEF n, ends
<1>2. \E l \in {0} \cup ends : l < k /\ \A m \in ends : m < k => m <= l
  BY <1>1, PartBegins
<1>3. b = CHOOSE l \in {0} \cup ends : l < k /\ \A m \in ends : m < k => m <= l
  BY DEF BeginOf, ends
<1>. HIDE DEF b
<1>4. b \in {0} \cup ends /\ b < k /\ \A m \in ends : m < k => m <= b
  BY <1>2, <1>3
<1>5. {0} \cup ends \subseteq Nat
  BY <1>1
<1>6. ASSUME NEW l \in {0} \cup ends, l < k, \A m \in ends : m < k => m <= l PROVE b = l
  <2>1. l \in Nat /\ b \in Nat
    BY <1>4, <1>5, <1>6
  <2>2. l = 0 \/ l <= b
    BY <1>4, <1>6
  <2>3. b = 0 \/ b <= l
    BY <1>4, <1>6
  <2>. QED
    BY <2>1, <2>2, <2>3
<1>7. b \in Nat
  BY <1>4, <1>5
<1>. QED
  BY <1>1, <1>4, <1>6, <1>7 DEF b, ends, n

LEMMA PartAtType ==
    ASSUME NEW T, NEW s \in Seq(T), NEW k \in 1..(Len(s) + 1) PROVE PartAt(s, k) \in Seq(Seq(T))
<1>. DEFINE b == BeginOf(s, k)
            p == PartOf(s, k)
<1>1. b \in Nat /\ Len(s) \in Nat
  BY BeginIs
<1>. HIDE DEF b
<1>2. SubSeq(s, b + 1, k - 1) \in Seq(T)
  <2>1. b + 1 \in Int /\ k - 1 \in Int /\ \A j \in (b + 1)..(k - 1) : s[j] \in T
    BY <1>1
  <2>. QED
    BY <2>1, SubSeqProperties
<1>3. p \in Seq(T)
  BY <1>2, Trims DEF PartOf, b
<1>. HIDE DEF p
<1>4. <<p>> \in Seq(Seq(T)) /\ <<>> \in Seq(Seq(T))
  BY <1>3, EmptySeq
<1>. QED
  BY <1>4 DEF PartAt, p

(* The last part of a text, and the parts before it. *)
LEMMA PartsEnd ==
    ASSUME NEW T, NEW u \in Seq(T), NEW p \in 0..Len(u), p \in {0} \cup EndsOf(u),
           \A k \in (p + 1)..Len(u) : u[k] \notin Separators,
           NEW t, t = SubSeq(u, p + 1, Len(u)), t # <<>>, Trim(t) = t
    PROVE  Parts(u, Separators) = Append(FlattenSeq([k \in 1..p |-> PartAt(u, k)]), t)
<1>. DEFINE n == Len(u)
            S == Seq(Seq(T))
            given == [k \in 1..n |-> PartAt(u, k)]
            one == <<t>>
<1>1. n \in Nat /\ p \in Nat /\ p <= n /\ n + 1 \in 1..(n + 1) /\ DOMAIN u = 1..n
  OBVIOUS
<1>2. EndsOf(u) \subseteq 1..(n + 1) /\ n + 1 \in EndsOf(u)
  BY <1>1, BeginIs DEF EndsOf
<1>3. BeginOf(u, n + 1) = p
  <2>1. ASSUME NEW m \in EndsOf(u), m < n + 1 PROVE m <= p
    <3>1. m \in 1..n /\ u[m] \in Separators
      BY <1>1, <2>1 DEF EndsOf
    <3>2. m \notin (p + 1)..n
      BY <3>1
    <3>. QED
      BY <1>1, <3>1, <3>2
  <2>2. p < n + 1
    BY <1>1
  <2>. QED
    BY <1>1, <2>1, <2>2, BeginIs
<1>4. PartAt(u, n + 1) = one
  <2>1. (n + 1) - 1 = n
    BY <1>1
  <2>2. PartOf(u, n + 1) = t
    BY <1>3, <2>1 DEF PartOf
  <2>. QED
    BY <1>2, <2>2 DEF PartAt
<1>5. ASSUME NEW k \in (p + 1)..n PROVE PartAt(u, k) = <<>>
  <2>1. k \notin EndsOf(u)
    BY <1>1, <1>5 DEF EndsOf
  <2>. QED
    BY <2>1 DEF PartAt
<1>6. ASSUME NEW k \in 1..(n + 1) PROVE PartAt(u, k) \in S
  BY <1>6, PartAtType
<1>7. one \in S
  BY <1>1, <1>4, <1>6
<1>8. given \in Seq(S) /\ Len(given) = n
  <2>1. \A k \in 1..n : PartAt(u, k) \in S
    BY <1>1, <1>6
  <2>. HIDE DEF S, n
  <2>. QED
    BY <1>1, <2>1
<1>9. [k \in 1..(n + 1) |-> PartAt(u, k)] = Append(given, one)
  <2>. DEFINE all == [k \in 1..(n + 1) |-> PartAt(u, k)]
  <2>1. all \in Seq(S) /\ Len(all) = n + 1
    <3>. HIDE DEF S, n
    <3>. QED
      BY <1>1, <1>6
  <2>2. Append(given, one) \in Seq(S) /\ Len(Append(given, one)) = n + 1
        /\ (\A k \in 1..n : Append(given, one)[k] = given[k]) /\ Append(given, one)[n + 1] = one
    <3>. HIDE DEF S, given, one
    <3>1. Len(given) + 1 = n + 1
      BY <1>8
    <3>. QED
      BY <1>7, <1>8, <3>1, AppendProperties
  <2>3. ASSUME NEW k \in 1..(n + 1) PROVE all[k] = Append(given, one)[k]
    <3>1. CASE k = n + 1
      BY <1>4, <2>2, <3>1
    <3>2. CASE k # n + 1
      <4>1. k \in 1..n
        BY <1>1, <3>2
      <4>2. given[k] = PartAt(u, k) /\ all[k] = PartAt(u, k)
        BY <4>1
      <4>. QED
        BY <2>2, <4>1, <4>2
    <3>. QED
      BY <3>1, <3>2
  <2>. HIDE DEF all, given, one, S
  <2>4. all = Append(given, one)
    BY <2>1, <2>2, <2>3, SeqEqual
  <2>. QED
    BY <2>4 DEF all
<1>10. FlattenSeq(given) = FlattenSeq(SubSeq(given, 1, p))
  <2>1. p \in 0..Len(given) /\ \A k \in (p + 1)..Len(given) : given[k] = <<>>
    <3>1. \A k \in (p + 1)..n : k \in 1..n
      BY <1>1
    <3>. QED
      BY <1>1, <1>5, <1>8, <3>1
  <2>. HIDE DEF given
  <2>. QED
    BY <1>8, <2>1, FlattenSkips
<1>11. SubSeq(given, 1, p) = [k \in 1..p |-> PartAt(u, k)]
  <2>1. \A k \in 1..p : k \in 1..n /\ given[k] = PartAt(u, k)
    BY <1>1
  <2>. HIDE DEF given
  <2>2. SubSeq(given, 1, p) = [k \in 1..p |-> given[k]]
    BY <1>1
  <2>. QED
    BY <2>1, <2>2
<1>12. FlattenSeq(Append(given, one)) = FlattenSeq(given) \o one
  <2>. HIDE DEF given, one
  <2>. QED
    BY <1>7, <1>8, FlattenAppend
<1>13. FlattenSeq(given) \o one = Append(FlattenSeq(given), t)
  <2>1. FlattenSeq(given) \in Seq(Seq(T)) /\ t \in Seq(T)
    <3>1. FlattenSeq(given) \in Seq(Seq(T))
      <4>. HIDE DEF given
      <4>. QED
        BY <1>8, FlattenType
    <3>2. one[1] \in Seq(T)
      BY <1>7
    <3>. QED
      BY <3>1, <3>2
  <2>. DEFINE f == FlattenSeq(given)
  <2>. HIDE DEF f
  <2>. QED
    BY <2>1, AppendConcat DEF f
<1>. QED
  <2>. DEFINE m == [k \in 1..(n + 1) |-> PartAt(u, k)]
              e == [k \in 1..p |-> PartAt(u, k)]
  <2>1. Parts(u, Separators) = FlattenSeq(m)
    BY PartsAre
  <2>2. m = Append(given, one) /\ SubSeq(given, 1, p) = e
    BY <1>9, <1>11
  <2>. HIDE DEF m, e, given, one
  <2>3. Parts(u, Separators) = Append(FlattenSeq(e), t)
    BY <1>10, <1>12, <1>13, <2>1, <2>2
  <2>. QED
    BY <2>3 DEF e

(* A text goes on behind a separator: its parts are the same until then. *)
GoesOn(s, t, u) ==
    /\ Len(u) = Len(s) + 1 + Len(t) /\ Len(s) + 1 \in EndsOf(u)
    /\ SubSeq(u, Len(s) + 2, Len(u)) = t /\ \A k \in 1..Len(t) : u[Len(s) + 1 + k] = t[k]
    /\ \A k \in 1..(Len(s) + 1) : PartAt(u, k) = PartAt(s, k)

LEMMA EarlierPart ==
    ASSUME NEW T, Semi \in T, NEW s \in Seq(T), NEW t \in Seq(T), NEW u, u = s \o (<<Semi>> \o t)
    PROVE  u \in Seq(T) /\ GoesOn(s, t, u)
<1>. DEFINE n == Len(s)
            l == Len(t)
            h == <<Semi>>
            r == h \o t
<1>1. n \in Nat /\ l \in Nat /\ h \in Seq(T) /\ Len(h) = 1 /\ h[1] = Semi /\ DOMAIN s = 1..n
  OBVIOUS
<1>2. r \in Seq(T) /\ Len(r) = 1 + l /\ r[1] = Semi /\ \A k \in 1..l : r[1 + k] = t[k]
  <2>. HIDE DEF h
  <2>1. h \in Seq(T) /\ t \in Seq(T) /\ 1 = Len(h)
    BY <1>1
  <2>2. l = Len(t)
    OBVIOUS
  <2>5. r = h \o t
    OBVIOUS
  <2>. DEFINE one == 1
  <2>6. one = Len(h)
    BY <2>1
  <2>. HIDE DEF l, r, one
  <2>3. /\ r \in Seq(T) /\ Len(r) = one + l
        /\ (\A k \in 1..one : r[k] = h[k]) /\ \A k \in 1..l : r[one + k] = t[k]
    BY ONLY <2>1, <2>2, <2>5, <2>6, ConcatAt
  <2>4. r[1] = h[1]
    BY <2>3 DEF one
  <2>. QED
    BY <1>1, <2>3, <2>4 DEF one
<1>. HIDE DEF r, h, n, l
<1>3. /\ u \in Seq(T) /\ Len(u) = n + (1 + l) /\ \A k \in 1..n : u[k] = s[k]
      /\ \A k \in 1..(1 + l) : u[n + k] = r[k]
  <2>1. u = s \o r
    BY DEF r, h
  <2>. DEFINE w == 1 + l
  <2>2. n = Len(s) /\ w = Len(r) /\ s \in Seq(T) /\ r \in Seq(T)
    BY <1>2 DEF n
  <2>. HIDE DEF w
  <2>3. u \in Seq(T) /\ Len(u) = n + w /\ (\A k \in 1..n : u[k] = s[k]) /\ \A k \in 1..w : u[n + k] = r[k]
    BY ONLY <2>1, <2>2, ConcatAt
  <2>. QED
    BY <2>3 DEF w
<1>4. u[n + 1] = Semi /\ (\A k \in 1..l : u[n + 1 + k] = t[k]) /\ DOMAIN u = 1..(n + (1 + l))
  <2>1. 1 \in 1..(1 + l) /\ \A k \in 1..l : 1 + k \in 1..(1 + l) /\ n + (1 + k) = n + 1 + k
    BY <1>1
  <2>2. u[n + 1] = Semi
    BY <1>2, <1>3, <2>1
  <2>3. \A k \in 1..l : u[n + 1 + k] = t[k]
    BY <1>2, <1>3, <2>1
  <2>4. DOMAIN u = 1..(n + (1 + l))
    BY <1>3
  <2>. QED
    BY <2>2, <2>3, <2>4
<1>5. n + 1 \in EndsOf(u)
  <2>1. n + 1 \in 1..(n + (1 + l))
    BY <1>1
  <2>. QED
    BY <1>4, <2>1 DEF EndsOf, Separators
<1>6. SubSeq(u, n + 2, Len(u)) = t
  <2>. DEFINE v == SubSeq(u, n + 2, Len(u))
  <2>1. n + 2 \in Int /\ Len(u) \in Int /\ \A j \in (n + 2)..Len(u) : u[j] \in T
    <3>1. \A j \in (n + 2)..Len(u) : j \in 1..Len(u)
      BY <1>1, <1>3
    <3>. QED
      BY <1>1, <1>3, <3>1
  <2>2. /\ v \in Seq(T) /\ Len(v) = IF n + 2 <= Len(u) THEN Len(u) - (n + 2) + 1 ELSE 0
        /\ \A k \in 1..(Len(u) - (n + 2) + 1) : v[k] = u[(n + 2) + k - 1]
    BY ONLY <2>1, SubSeqProperties
  <2>. HIDE DEF v
  <2>3. Len(v) = l /\ Len(u) - (n + 2) + 1 = l
    BY <1>1, <1>3, <2>2
  <2>4. \A k \in 1..l : (n + 2) + k - 1 = n + 1 + k
    BY <1>1
  <2>5. \A k \in 1..l : v[k] = t[k]
    BY <1>4, <2>2, <2>3, <2>4
  <2>6. v = t
    BY <2>2, <2>3, <2>5, SeqEqual DEF l
  <2>. QED
    BY <2>6 DEF v
<1>7. ASSUME NEW k \in 1..(n + 1) PROVE k \in EndsOf(u) <=> k \in EndsOf(s)
  <2>1. CASE k = n + 1
    BY <1>5, <2>1 DEF EndsOf, n
  <2>2. CASE k # n + 1
    <3>1. k \in 1..n /\ k \in 1..(n + (1 + l)) /\ k # n + (1 + l) + 1
      BY <1>1, <2>2
    <3>. QED
      BY <1>1, <1>3, <1>4, <2>2, <3>1 DEF EndsOf, n
  <2>. QED
    BY <2>1, <2>2
<1>8. ASSUME NEW k \in 1..(n + 1) PROVE PartAt(u, k) = PartAt(s, k)
  <2>. DEFINE b == BeginOf(s, k)
  <2>0. k \in 1..(Len(s) + 1) /\ k \in 1..(Len(u) + 1)
    BY <1>1, <1>3 DEF n
  <2>1. b \in {0} \cup EndsOf(s) /\ b < k /\ b \in Nat /\ \A m \in EndsOf(s) : m < k => m <= b
    BY <2>0, BeginIs
  <2>2. EndsOf(s) \subseteq 1..(n + 1) /\ EndsOf(u) \subseteq 1..(Len(u) + 1)
    BY <1>3, <2>0, BeginIs DEF n
  <2>. HIDE DEF b
  <2>3. b \in {0} \cup EndsOf(u)
    BY <1>7, <2>1, <2>2
  <2>4. ASSUME NEW m \in EndsOf(u), m < k PROVE m <= b
    <3>1. m \in 1..(n + 1)
      BY <1>1, <1>3, <2>2, <2>4
    <3>. QED
      BY <1>7, <2>1, <2>4, <3>1
  <2>5. BeginOf(u, k) = b
    BY <1>3, <2>0, <2>1, <2>3, <2>4, BeginIs
  <2>6. SubSeq(u, b + 1, k - 1) = SubSeq(s, b + 1, k - 1)
    <3>1. \A j \in (b + 1)..(k - 1) : j \in 1..n
      BY <1>1, <2>1
    <3>2. \A j \in (b + 1)..(k - 1) : u[j] = s[j] /\ u[j] \in T /\ s[j] \in T
      BY <1>1, <1>3, <3>1
    <3>. DEFINE first == b + 1
                last == k - 1
    <3>3. first \in Int /\ last \in Int
      BY <1>1, <2>1
    <3>4. \A j \in first..last : s[j] \in T /\ u[j] = s[j]
      BY <3>2
    <3>. HIDE DEF first, last
    <3>5. SubSeq(s, first, last) = SubSeq(u, first, last)
      BY ONLY <3>3, <3>4, SubSeqAgree
    <3>. QED
      BY <3>5 DEF first, last
  <2>7. PartOf(u, k) = PartOf(s, k)
    BY <2>5, <2>6 DEF PartOf, b
  <2>. QED
    BY <1>7, <2>7 DEF PartAt
<1>. QED
  <2>1. n + (1 + l) = n + 1 + l
    BY <1>1
  <2>. QED
    BY <1>3, <1>4, <1>5, <1>6, <1>8, <2>1 DEF n, l, GoesOn

(* What can be written as a tag of a list of tags. *)
Apart(C) == {t \in Seq(C) : t # <<>> /\ Solid(t) /\ \A k \in 1..Len(t) : t[k] \notin Separators}

(* The parts of no text, of one tag, and of one tag more. *)
LEMMA NothingHasNoParts == Parts(<<>>, Separators) = <<>>
<1>. DEFINE C == {}
<1>. DEFINE s == <<>>
            b == BeginOf(s, 1)
<1>1. s \in Seq(C) /\ Len(s) = 0 /\ 1 \in 1..(Len(s) + 1)
  OBVIOUS
<1>2. b \in Nat
  BY ONLY <1>1, BeginIs
<1>. HIDE DEF b
<1>3. SubSeq(s, b + 1, 1 - 1) = <<>>
  BY <1>2, SubSeqEmpty
<1>4. Solid(<<>>) /\ Trim(<<>>) = <<>>
  BY <1>1, SolidTrims DEF Solid
<1>5. PartAt(s, 1) = <<>>
  BY <1>3, <1>4 DEF PartAt, PartOf, b
<1>. DEFINE m == [k \in 1..(Len(s) + 1) |-> PartAt(s, k)]
<1>6. Parts(s, Separators) = FlattenSeq(m)
  BY PartsAre
<1>7. m \in Seq(Seq(Seq(C))) /\ \A k \in 1..Len(m) : m[k] = <<>>
  <2>1. <<>> \in Seq(Seq(C))
    BY EmptySeq
  <2>2. m = [k \in 1..1 |-> <<>>]
    BY <1>1, <1>5
  <2>. HIDE DEF m
  <2>. QED
    BY <2>1, <2>2
<1>. HIDE DEF m, s
<1>8. FlattenSeq(m) = <<>>
  BY <1>7, FlattenNothing
<1>. QED
  BY <1>6, <1>8 DEF s

LEMMA PartsOne ==
    ASSUME NEW C, NEW t \in Apart(C) PROVE Parts(t, Separators) = <<t>>
<1>1. t \in Seq(C) /\ t # <<>> /\ Trim(t) = t /\ \A k \in 1..Len(t) : t[k] \notin Separators
  BY SolidTrims DEF Apart
<1>2. SubSeq(t, 1, Len(t)) = t /\ Len(t) \in Nat
  BY <1>1, SubSeqFull
<1>3. Parts(t, Separators) = <<t>>
  <2>. DEFINE e == [k \in 1..0 |-> PartAt(t, k)]
              p == 0
  <2>1. p \in 0..Len(t) /\ p \in {0} \cup EndsOf(t) /\ t = SubSeq(t, p + 1, Len(t))
        /\ \A k \in (p + 1)..Len(t) : t[k] \notin Separators
    BY <1>1, <1>2
  <2>2. e = <<>>
    OBVIOUS
  <2>3. Parts(t, Separators) = Append(FlattenSeq([k \in 1..p |-> PartAt(t, k)]), t)
    <3>. HIDE DEF p, e
    <3>. QED
      BY <1>1, <2>1, PartsEnd
  <2>4. Parts(t, Separators) = Append(FlattenSeq(e), t)
    BY <2>3
  <2>5. FlattenSeq(e) = <<>> /\ Append(<<>>, t) = <<t>>
    BY <2>2, FlattenEmpty
  <2>. QED
    BY <2>4, <2>5
<1>. QED
  BY <1>3

LEMMA PartsGrow ==
    ASSUME NEW C, Semi \in C, NEW s \in Seq(C), NEW t \in Apart(C)
    PROVE  Parts(s \o (<<Semi>> \o t), Separators) = Append(Parts(s, Separators), t)
<1>. DEFINE u == s \o (<<Semi>> \o t)
            p == Len(s) + 1
<1>1. t \in Seq(C) /\ t # <<>> /\ Trim(t) = t /\ \A k \in 1..Len(t) : t[k] \notin Separators
  BY SolidTrims DEF Apart
<1>2. Len(s) \in Nat /\ Len(t) \in Nat /\ u = s \o (<<Semi>> \o t)
  BY <1>1
<1>. HIDE DEF u
<1>g. u \in Seq(C) /\ GoesOn(s, t, u)
  <2>1. s \in Seq(C) /\ t \in Seq(C) /\ Semi \in C
    BY <1>1
  <2>. QED
    BY <1>2, <2>1, EarlierPart, Zenon
<1>3. /\ u \in Seq(C) /\ Len(u) = Len(s) + 1 + Len(t) /\ Len(s) + 1 \in EndsOf(u)
      /\ SubSeq(u, Len(s) + 2, Len(u)) = t /\ \A k \in 1..Len(t) : u[Len(s) + 1 + k] = t[k]
      /\ \A k \in 1..(Len(s) + 1) : PartAt(u, k) = PartAt(s, k)
  BY <1>g DEF GoesOn
<1>4. p \in 0..Len(u) /\ p \in {0} \cup EndsOf(u) /\ t = SubSeq(u, p + 1, Len(u))
  <2>1. p + 1 = Len(s) + 2
    BY <1>2
  <2>. QED
    BY <1>2, <1>3, <2>1
<1>5. ASSUME NEW k \in (p + 1)..Len(u) PROVE u[k] \notin Separators
  <2>1. k - (Len(s) + 1) \in 1..Len(t) /\ k = Len(s) + 1 + (k - (Len(s) + 1))
    BY <1>2, <1>3
  <2>. QED
    BY <1>1, <1>3, <2>1
<1>6. Parts(u, Separators) = Append(FlattenSeq([k \in 1..p |-> PartAt(u, k)]), t)
  <2>. HIDE DEF p
  <2>. QED
    BY <1>1, <1>3, <1>4, <1>5, PartsEnd
<1>7. [k \in 1..p |-> PartAt(u, k)] = [k \in 1..(Len(s) + 1) |-> PartAt(s, k)]
  BY <1>3
<1>8. Parts(u, Separators) = Append(Parts(s, Separators), t)
  BY <1>6, <1>7, PartsAre
<1>. QED
  BY <1>8 DEF u

(* What Joined makes of one text more, of one, and of none. *)
LEMMA JoinedGrows ==
    ASSUME NEW C, NEW ts \in Seq(Seq(C)), NEW t \in Seq(C), NEW sep \in C
    PROVE  ts # <<>> => Joined(Append(ts, t), sep) = Joined(ts, sep) \o (<<sep>> \o t)
<1>. DEFINE n == Len(ts)
            piece(k, x) == IF k = 1 THEN x ELSE <<sep>> \o x
            q == Append(ts, t)
            m == Pieces(ts, sep)
            mq == Pieces(q, sep)
            x == piece(n + 1, t)
<1>1. n \in Nat /\ q \in Seq(Seq(C)) /\ Len(q) = n + 1 /\ q[n + 1] = t /\ \A k \in 1..n : q[k] = ts[k]
  BY AppendProperties
<1>2. m \in Seq(Seq(C)) /\ Len(m) = n /\ \A k \in 1..n : m[k] = piece(k, ts[k])
  BY PiecesType
<1>3. mq \in Seq(Seq(C)) /\ Len(mq) = n + 1 /\ \A k \in 1..(n + 1) : mq[k] = piece(k, q[k])
  <2>1. q \in Seq(Seq(C)) /\ sep \in C /\ Len(q) = n + 1
    BY <1>1
  <2>. HIDE DEF q, n
  <2>2. /\ mq \in Seq(Seq(C)) /\ Len(mq) = Len(q)
        /\ \A k \in 1..Len(q) : mq[k] = IF k = 1 THEN q[k] ELSE <<sep>> \o q[k]
    BY ONLY <2>1, PiecesType
  <2>. QED
    BY <2>1, <2>2
<1>4. x \in Seq(C)
  OBVIOUS
<1>5. mq = Append(m, x)
  <2>. DEFINE a == Append(m, x)
  <2>. HIDE DEF m, mq, x, piece, q
  <2>1. a \in Seq(Seq(C)) /\ Len(a) = n + 1 /\ (\A k \in 1..n : a[k] = m[k]) /\ a[n + 1] = x
    <3>. HIDE DEF n
    <3>. QED
      BY <1>1, <1>2, <1>4, AppendProperties
  <2>2. ASSUME NEW k \in 1..(n + 1) PROVE a[k] = mq[k]
    <3>. HIDE DEF a
    <3>1. CASE k = n + 1
      BY <1>1, <1>3, <2>1, <3>1 DEF x
    <3>2. CASE k # n + 1
      <4>. HIDE DEF n
      <4>1. k \in 1..n
        BY <1>1, <3>2
      <4>. QED
        BY <1>1, <1>2, <1>3, <2>1, <4>1
    <3>. QED
      BY <3>1, <3>2
  <2>. HIDE DEF a, n
  <2>3. mq = a
    BY <1>3, <2>1, <2>2, SeqEqual
  <2>. QED
    BY <2>3 DEF a
<1>6. FlattenSeq(mq) = FlattenSeq(m) \o x
  <2>. HIDE DEF m, mq, x
  <2>. QED
    BY <1>2, <1>4, <1>5, FlattenAppend
<1>7. Joined(q, sep) = FlattenSeq(mq) /\ Joined(ts, sep) = FlattenSeq(m)
  BY DEF Joined, Pieces
<1>8. ASSUME ts # <<>> PROVE x = <<sep>> \o t
  <2>1. n + 1 # 1
    BY <1>1, <1>8
  <2>. QED
    BY <2>1
<1>. HIDE DEF x, m, mq
<1>. QED
  BY <1>6, <1>7, <1>8

LEMMA JoinedOne == ASSUME NEW C, NEW t \in Seq(C), NEW sep PROVE Joined(<<t>>, sep) = t
<1>1. [k \in DOMAIN <<t>> |-> IF k = 1 THEN <<t>>[k] ELSE <<sep>> \o <<t>>[k]] = <<t>>
  OBVIOUS
<1>. QED
  BY <1>1, FlattenOne DEF Joined

LEMMA JoinedNone == ASSUME NEW sep PROVE Joined(<<>>, sep) = <<>>
<1>1. [k \in DOMAIN <<>> |-> IF k = 1 THEN <<>>[k] ELSE <<sep>> \o <<>>[k]] = <<>>
  OBVIOUS
<1>. QED
  BY <1>1, FlattenEmpty DEF Joined

(* The list of tags of an export is the tags again once it is split. *)
LEMMA TagsReadBack ==
    ASSUME NEW C, Semi \in C, NEW tags \in Seq(Apart(C))
    PROVE  /\ Joined(tags, Semi) \in Seq(C) /\ Trim(Joined(tags, Semi)) = Joined(tags, Semi)
           /\ Parts(Joined(tags, Semi), Separators) = tags
<1>. DEFINE Good(ts) == LET s == Joined(ts, Semi) IN
               s \in Seq(C) /\ Solid(s) /\ (ts # <<>> => s # <<>>) /\ Parts(s, Separators) = ts
            A == Apart(C)
            S == {ts \in Seq(A) : Good(ts)}
<1>0. \A t \in A : t \in Seq(C) /\ Solid(t) /\ t # <<>>
  BY DEF Apart
<1>a. ASSUME NEW ts \in Seq(A) PROVE ts \in Seq(Seq(C))
  <2>. HIDE DEF A
  <2>. QED
    BY <1>0
<1>1. <<>> \in S
  <2>1. Joined(<<>>, Semi) = <<>>
    BY JoinedNone
  <2>2. Parts(<<>>, Separators) = <<>>
    BY NothingHasNoParts
  <2>3. Good(<<>>)
    BY <2>1, <2>2, EmptySeq DEF Solid
  <2>. HIDE DEF Good, A
  <2>. QED
    BY <2>3, EmptySeq
<1>2. ASSUME NEW ts \in Seq(A), NEW t \in A, ts \in S PROVE Append(ts, t) \in S
  <2>. DEFINE s == Joined(ts, Semi)
              q == Append(ts, t)
              j == Joined(q, Semi)
  <2>1. s \in Seq(C) /\ Solid(s) /\ (ts # <<>> => s # <<>>) /\ Parts(s, Separators) = ts
    BY <1>2
  <2>2. t \in Seq(C) /\ Solid(t) /\ t # <<>>
    BY <1>0
  <2>. HIDE DEF s, j
  <2>3. ASSUME ts = <<>> PROVE j \in Seq(C) /\ Solid(j) /\ j # <<>> /\ Parts(j, Separators) = q
    <3>1. q = <<t>>
      BY <2>3
    <3>2. Parts(t, Separators) = <<t>>
      BY PartsOne
    <3>3. j = t
      BY <2>2, <3>1, JoinedOne DEF j
    <3>. QED
      BY <2>2, <3>1, <3>2, <3>3
  <2>4. ASSUME ts # <<>> PROVE j \in Seq(C) /\ Solid(j) /\ j # <<>> /\ Parts(j, Separators) = q
    <3>1. Solid(s \o (<<Semi>> \o t)) /\ s \o (<<Semi>> \o t) \in Seq(C) /\ s \o (<<Semi>> \o t) # <<>>
      BY ONLY <2>1, <2>2, <2>4, Semi \in C, ConcatSolid
    <3>2. Parts(s \o (<<Semi>> \o t), Separators) = Append(Parts(s, Separators), t)
      BY ONLY <2>1, t \in A, Semi \in C, PartsGrow DEF A
    <3>3. ts \in Seq(Seq(C))
      BY <1>a
    <3>4. Joined(Append(ts, t), Semi) = Joined(ts, Semi) \o (<<Semi>> \o t)
      BY <2>2, <2>4, <3>3, JoinedGrows, Zenon
    <3>5. j = s \o (<<Semi>> \o t)
      BY <3>4 DEF j, s
    <3>. HIDE DEF q
    <3>6. Append(Parts(s, Separators), t) = q
      BY <2>1, <2>4 DEF q
    <3>. QED
      BY <3>1, <3>2, <3>5, <3>6
  <2>5. j \in Seq(C) /\ Solid(j) /\ j # <<>> /\ Parts(j, Separators) = q
    BY <2>3, <2>4
  <2>6. q \in Seq(A)
    <3>. HIDE DEF A
    <3>. QED
      BY AppendConcat
  <2>. QED
    BY <2>5, <2>6 DEF j
<1>. HIDE DEF S, A
<1>3. Seq(A) \subseteq S
  BY <1>1, <1>2, SeqSet
<1>4. tags \in S
  BY <1>3 DEF A
<1>5. Good(tags)
  BY <1>4 DEF S
<1>. QED
  BY <1>5, SolidTrims

(* Distinct makes nothing longer. *)
LEMMA DistinctShort == ASSUME NEW T, NEW s \in Seq(T) PROVE Len(Distinct(s)) <= Len(s)
<1>. DEFINE m == [k \in DOMAIN s |-> IF \E l \in 1..(k - 1) : s[l] = s[k] THEN <<>> ELSE <<s[k]>>]
            U == UpToOne(T)
<1>1. DOMAIN s = 1..Len(s) /\ Len(s) \in Nat /\ \A k \in 1..Len(s) : s[k] \in T
  OBVIOUS
<1>2. <<>> \in U /\ \A x \in T : <<x>> \in U
  BY EmptySeq DEF UpToOne
<1>3. m \in Seq(U) /\ Len(m) = Len(s)
  <2>. HIDE DEF U
  <2>. QED
    BY <1>1, <1>2
<1>. HIDE DEF m
<1>4. /\ FlattenSeq(m) \in Seq(T) /\ Answered(m) \in Seq(Int)
      /\ Len(FlattenSeq(m)) + Len(Answered(m)) = Len(m)
  BY <1>3, EachAnswered
<1>5. Len(FlattenSeq(m)) \in Nat /\ Len(Answered(m)) \in Nat
  BY <1>4, LenProperties
<1>6. Len(FlattenSeq(m)) <= Len(m)
  <2>. DEFINE a == Len(FlattenSeq(m))
              b == Len(Answered(m))
  <2>1. a \in Nat /\ b \in Nat /\ a + b = Len(m)
    BY <1>4, <1>5
  <2>. HIDE DEF a, b
  <2>2. a <= Len(m)
    BY <2>1
  <2>. QED
    BY <2>2 DEF a
<1>. QED
  BY <1>3, <1>6 DEF Distinct, m

(* The columns of an export, by their place in its first row. *)
Name(j) == Header[j][1]

(* The names of the columns, and which of them an import takes for which. *)
LEMMA ColumnNames ==
    /\ Name(1) = "_id" /\ Name(2) = "title" /\ Name(3) = "description" /\ Name(4) = "status" /\ Name(5) = "tags"
    /\ Len(Header) = 5 /\ DOMAIN Header = 1..5 /\ \A j \in 1..5 : Header[j] = <<Name(j)>>
BY DEF Name, Header

LEMMA ColumnsOf ==
    ASSUME NEW j \in 2..5, NEW k \in 1..5
    PROVE  (ColumnOf(Header[k]) = Name(j) <=> k = j) /\ Name(j) \in {Alias[a] : a \in DOMAIN Alias}
<1>1. ASSUME NEW x \in {"_id", "title", "description", "status", "tags"}
      PROVE  ColumnOf(<<x>>) = IF x \in DOMAIN Alias THEN Alias[x] ELSE Absent
  <2>1. x \notin White
    BY DEF White, LF, CR, Bom
  <2>2. Trim(<<x>>) = <<x>>
    BY <2>1, SignTrims
  <2>3. Len(<<x>>) = 1 /\ <<x>>[1] = x
    OBVIOUS
  <2>. QED
    BY <2>2, <2>3 DEF ColumnOf
<1>2. /\ ColumnOf(<<"_id">>) = Absent /\ ColumnOf(<<"title">>) = "title" /\ ColumnOf(<<"description">>) = "description"
      /\ ColumnOf(<<"status">>) = "status" /\ ColumnOf(<<"tags">>) = "tags"
  <2>1. ColumnOf(<<"_id">>) = Absent
    BY <1>1, ColumnsExist
  <2>2. ASSUME NEW x \in {"title", "description", "status", "tags"} PROVE ColumnOf(<<x>>) = x
    <3>1. x \in DOMAIN Alias /\ Alias[x] = x /\ x \in {"_id", "title", "description", "status", "tags"}
      BY ColumnsExist
    <3>. QED
      BY <1>1, <3>1
  <2>. QED
    BY <2>1, <2>2
<1>3. \A x \in {"title", "description", "status", "tags"} : x # Absent /\ x \in {Alias[a] : a \in DOMAIN Alias}
  BY ColumnsExist
<1>4. Name(j) \in {"title", "description", "status", "tags"}
  BY ColumnNames
<1>5. ColumnOf(Header[k]) = IF k = 1 THEN Absent ELSE Name(k)
  <2>1. k = 1 \/ k = 2 \/ k = 3 \/ k = 4 \/ k = 5
    OBVIOUS
  <2>2. Header[k] = <<Name(k)>>
    BY ColumnNames
  <2>. QED
    BY <1>2, <2>1, <2>2, ColumnNames
<1>6. k # 1 /\ Name(k) = Name(j) => k = j
  BY ColumnNames
<1>. QED
  BY <1>3, <1>4, <1>5, <1>6

(* A cell under its own column is what the import finds there. *)
LEMMA CellRead ==
    ASSUME rows[1] = Header, NEW fields, Len(fields) = 5, NEW j \in 2..5
    PROVE  CsvRowToObject(fields)[Name(j)] = Trim(fields[j])
<1>. DEFINE given == {k \in DOMAIN rows[1] : /\ ColumnOf(rows[1][k]) = Name(j)
                                             /\ k <= Len(fields) /\ Trim(fields[k]) # <<>>}
            last == CHOOSE k \in given : \A l \in given : k >= l
<1>1. CsvRowToObject(fields)[Name(j)] = IF given = {} THEN <<>> ELSE Trim(fields[last])
  <2>1. Name(j) \in {Alias[a] : a \in DOMAIN Alias}
    BY ColumnsOf
  <2>. QED
    BY <2>1 DEF CsvRowToObject
<1>2. \A k : k \in given <=> k = j /\ Trim(fields[j]) # <<>>
  <2>1. DOMAIN rows[1] = 1..5 /\ j \in 1..5
    BY ColumnNames
  <2>2. \A k \in 1..5 : ColumnOf(rows[1][k]) = Name(j) <=> k = j
    BY ColumnsOf
  <2>3. \A k \in 1..5 : k <= Len(fields)
    OBVIOUS
  <2>. QED
    BY <2>1, <2>2, <2>3
<1>. HIDE DEF given
<1>3. CASE Trim(fields[j]) = <<>>
  BY <1>1, <1>2, <1>3
<1>4. CASE Trim(fields[j]) # <<>>
  <2>1. given = {j}
    BY <1>2, <1>4
  <2>2. last = j
    BY <2>1
  <2>. QED
    BY <1>1, <2>1, <2>2
<1>. QED
  BY <1>3, <1>4

(* What an exported task becomes, if its tags hold no separators. *)
Again(t) == [title |-> t.title, description |-> t.description, tags |-> Distinct(t.tags), status |-> t.status]

LEMMA TagsRead ==
    ASSUME NEW tasks \in Stored, NEW t \in ToSet(tasks), \A n \in DOMAIN t.tags : ~Has(t.tags[n], {Semi, Comma})
    PROVE  Tags(Trim(Joined(t.tags, Semi))) = Distinct(t.tags) /\ Len(Distinct(t.tags)) <= MaxTags
<1>. DEFINE C == Signs(tasks)
<1>1. /\ t.tags \in Seq(Seq(C)) /\ Semi \in C
      /\ Len(t.tags) <= MaxTags /\ <<>> \notin ToSet(t.tags) /\ \A s \in ToSet(t.tags) : Trim(s) = s
  BY TaskType, StoredAreTasks DEF Signs
<1>. HIDE DEF C
<1>2. t.tags \in Seq(Apart(C))
  <2>1. DOMAIN t.tags = 1..Len(t.tags) /\ Len(t.tags) \in Nat /\ \A n \in 1..Len(t.tags) : t.tags[n] \in Seq(C)
    BY <1>1
  <2>2. ASSUME NEW n \in 1..Len(t.tags) PROVE t.tags[n] \in Apart(C)
    <3>. DEFINE s == t.tags[n]
    <3>1. s \in ToSet(t.tags) /\ s \in Seq(C)
      BY <2>1 DEF ToSet
    <3>2. s # <<>> /\ Trim(s) = s
      BY <1>1, <3>1
    <3>3. ~Has(s, {Semi, Comma}) /\ DOMAIN s = 1..Len(s)
      <4>1. n \in DOMAIN t.tags
        BY <2>1
      <4>2. ~Has(s, {Semi, Comma})
        BY <4>1, Zenon
      <4>. HIDE DEF s
      <4>3. DOMAIN s = 1..Len(s)
        BY <3>1
      <4>. QED
        BY <4>2, <4>3
    <3>. HIDE DEF s
    <3>4. Solid(s)
      BY <3>1, <3>2, SolidTrims
    <3>5. \A k \in 1..Len(s) : s[k] \notin Separators
      BY <3>3 DEF Has, Separators
    <3>6. s \in Apart(C)
      BY <3>1, <3>2, <3>4, <3>5 DEF Apart
    <3>. QED
      BY <3>6 DEF s
  <2>. DEFINE A == Apart(C)
              g == t.tags
  <2>3. g \in Seq(Seq(C)) /\ \A n \in 1..Len(g) : g[n] \in A
    BY <1>1, <2>2
  <2>. HIDE DEF A, g
  <2>4. g \in Seq(A)
    <3>1. g = [n \in 1..Len(g) |-> g[n]] /\ Len(g) \in Nat
      BY <2>3
    <3>. QED
      BY <2>3, <3>1
  <2>. QED
    BY <2>4 DEF A, g
<1>3. Trim(Joined(t.tags, Semi)) = Joined(t.tags, Semi) /\ Parts(Joined(t.tags, Semi), Separators) = t.tags
  BY <1>1, <1>2, TagsReadBack
<1>4. Tags(Joined(t.tags, Semi)) = Distinct(t.tags)
  BY <1>3 DEF Tags, Separators
<1>5. Len(Distinct(t.tags)) <= MaxTags
  <2>1. Len(Distinct(t.tags)) <= Len(t.tags) /\ Distinct(t.tags) \in Seq(Seq(C))
    BY <1>1, DistinctShort, DistinctType
  <2>2. Len(Distinct(t.tags)) \in Nat /\ Len(t.tags) \in Nat
    BY <1>1, <2>1, LenProperties
  <2>. DEFINE a == Len(Distinct(t.tags))
              b == Len(t.tags)
  <2>3. a \in Nat /\ b \in Nat /\ a <= b /\ b <= MaxTags /\ MaxTags \in Nat
    BY <1>1, <2>1, <2>2, ImportExportAssumption
  <2>. HIDE DEF a, b
  <2>4. a <= MaxTags
    BY <2>3
  <2>. QED
    BY <2>4 DEF a
<1>. QED
  BY <1>3, <1>4, <1>5

(* So the row of a task is imported as that task, ... *)
LEMMA RowRestored ==
    ASSUME NEW tasks \in Stored, NEW t \in ToSet(tasks), rows[1] = Header,
           \A n \in DOMAIN t.tags : ~Has(t.tags[n], {Semi, Comma})
    PROVE  NormalizeImportRow(CsvRowToObject(Cells(t))) = <<Again(t)>>
<1>. DEFINE fields == Cells(t)
            o == CsvRowToObject(fields)
<1>1. /\ Trim(t.title) = t.title /\ Trim(t.description) = t.description /\ t.title # <<>>
      /\ ~(Len(t.title) > MaxTitle) /\ ~(Len(t.description) > MaxDescription) /\ t.status \in Statuses
  <2>1. /\ Trim(t.title) = t.title /\ Trim(t.description) = t.description /\ t.title # <<>>
        /\ Len(t.title) <= MaxTitle /\ Len(t.description) <= MaxDescription /\ t.status \in Statuses
    BY StoredAreTasks
  <2>2. t.title \in Seq(Signs(tasks)) /\ t.description \in Seq(Signs(tasks))
    BY TaskType
  <2>3. Len(t.title) \in Nat /\ Len(t.description) \in Nat /\ MaxTitle \in Nat /\ MaxDescription \in Nat
    BY <2>2, LenProperties, ImportExportAssumption
  <2>. DEFINE a == Len(t.title)
              b == Len(t.description)
  <2>4. a \in Nat /\ b \in Nat /\ a <= MaxTitle /\ b <= MaxDescription
    BY <2>1, <2>3
  <2>. HIDE DEF a, b
  <2>5. ~(a > MaxTitle) /\ ~(b > MaxDescription)
    BY <2>3, <2>4
  <2>. QED
    BY <2>1, <2>5 DEF a, b
<1>2. /\ Len(fields) = 5 /\ fields[2] = t.title /\ fields[3] = t.description /\ fields[4] = <<t.status>>
      /\ fields[5] = Joined(t.tags, Semi)
  BY DEF Cells
<1>3. Trim(<<t.status>>) = <<t.status>>
  <2>1. t.status \notin White
    BY <1>1, ColumnsExist
  <2>. QED
    BY <2>1, SignTrims
<1>. HIDE DEF fields
<1>4. ASSUME NEW j \in 2..5 PROVE o[Name(j)] = Trim(fields[j])
  BY <1>2, CellRead
<1>. HIDE DEF o
<1>5. /\ o["title"] = t.title /\ o["description"] = t.description /\ o["status"] = <<t.status>>
      /\ o["tags"] = Trim(Joined(t.tags, Semi))
  <2>1. o[Name(2)] = Trim(fields[2]) /\ o[Name(3)] = Trim(fields[3]) /\ o[Name(4)] = Trim(fields[4])
        /\ o[Name(5)] = Trim(fields[5])
    BY <1>4
  <2>. QED
    BY <1>1, <1>2, <1>3, <2>1, ColumnNames
<1>6. Tags(o["tags"]) = Distinct(t.tags) /\ Len(Distinct(t.tags)) <= MaxTags
  BY <1>5, TagsRead
<1>7. ~(Len(Tags(o["tags"])) > MaxTags)
  <2>. DEFINE a == Len(Distinct(t.tags))
  <2>1. a \in Nat /\ MaxTags \in Nat /\ a <= MaxTags
    <3>1. Distinct(t.tags) \in Seq(Seq(Signs(tasks)))
      BY TaskType, DistinctType
    <3>2. a \in Nat
      BY <3>1, LenProperties
    <3>. QED
      BY <1>6, <3>2, ImportExportAssumption
  <2>. HIDE DEF a
  <2>2. ~(a > MaxTags)
    BY <2>1
  <2>. QED
    BY <1>6, <2>2 DEF a
<1>8. <<t.status>> # <<>> /\ ~(Len(<<t.status>>) > 1) /\ <<t.status>>[1] = t.status
  OBVIOUS
<1>9. NormalizeImportRow(o) = << [title |-> o["title"], description |-> o["description"], tags |-> Tags(o["tags"]),
                                  status |-> IF o["status"] = <<>> THEN "pending" ELSE o["status"][1]] >>
  BY <1>1, <1>5, <1>7, <1>8 DEF NormalizeImportRow
<1>10. NormalizeImportRow(o) = <<Again(t)>>
  BY <1>5, <1>6, <1>8, <1>9 DEF Again
<1>. QED
  BY <1>10 DEF o, fields

(* ... and a table as all of them, without an error. *)
LEMMA TableRestored ==
    ASSUME Imports, ImportTasks, source \in Stored, source # Absent, ~Unprotected(source),
           \A k \in DOMAIN source : \A n \in DOMAIN source[k].tags : ~Has(source[k].tags[n], {Semi, Comma})
    PROVE  docs' = [k \in DOMAIN source |-> Again(source[k])] /\ failed' = <<>>
<1>. DEFINE n == Len(source)
            outcome == [k \in 1..(Len(rows) - 1) |-> NormalizeImportRow(CsvRowToObject(rows[k + 1]))]
            made == [k \in DOMAIN source |-> Again(source[k])]
<1>1. rows = Table(source)
  BY DEF Imports, ReadSoFar, ImportTasks
<1>2. /\ n \in Nat /\ Len(rows) = n + 1 /\ rows[1] = Header /\ DOMAIN source = 1..n
      /\ \A k \in 1..n : rows[k + 1] = Cells(source[k]) /\ source[k] \in ToSet(source)
  <2>1. /\ Len(Table(source)) = Len(source) + 1 /\ Len(source) \in Nat /\ source \in Seq(ToSet(source))
        /\ Table(source)[1] = Header /\ \A k \in 1..Len(source) : Table(source)[k + 1] = Cells(source[k])
    BY TableType
  <2>2. DOMAIN source = 1..Len(source) /\ \A k \in 1..Len(source) : source[k] \in ToSet(source)
    BY <2>1
  <2>. QED
    BY <1>1, <2>1, <2>2
<1>3. docs' = FlattenSeq(outcome)
      /\ failed' = FlattenSeq([k \in DOMAIN outcome |-> IF outcome[k] = <<>> THEN <<k - 1>> ELSE <<>>])
  BY DEF ImportTasks
<1>. HIDE DEF n
<1>4. ASSUME NEW k \in 1..n PROVE NormalizeImportRow(CsvRowToObject(rows[k + 1])) = <<Again(source[k])>>
  BY <1>2, RowRestored
<1>5. outcome = [k \in 1..n |-> <<Again(source[k])>>]
  <2>1. Len(rows) - 1 = n
    BY <1>2
  <2>. QED
    BY <1>4, <2>1
<1>6. docs' = made
  <2>. DEFINE T == {Again(source[k]) : k \in 1..n}
  <2>1. made \in Seq(T)
    BY <1>2
  <2>2. outcome = [k \in DOMAIN made |-> <<made[k]>>]
    <3>1. DOMAIN made = 1..n /\ \A k \in 1..n : made[k] = Again(source[k])
      BY <1>2
    <3>. HIDE DEF made, outcome
    <3>. QED
      BY <1>5, <3>1
  <2>. HIDE DEF made, T, outcome
  <2>3. FlattenSeq([k \in DOMAIN made |-> <<made[k]>>]) = made
    BY <2>1, FlattenOnes
  <2>. QED
    BY <1>3, <2>2, <2>3
<1>7. failed' = <<>>
  <2>. DEFINE m == [k \in DOMAIN outcome |-> IF outcome[k] = <<>> THEN <<k - 1>> ELSE <<>>]
  <2>1. DOMAIN outcome = 1..n /\ \A k \in 1..n : outcome[k] # <<>>
    <3>. HIDE DEF outcome
    <3>1. DOMAIN outcome = 1..n /\ \A k \in 1..n : outcome[k] = <<Again(source[k])>>
      BY <1>5
    <3>2. \A k \in 1..n : <<Again(source[k])>> # <<>>
      OBVIOUS
    <3>. QED
      BY <3>1, <3>2
  <2>. HIDE DEF outcome
  <2>2. m = [k \in 1..n |-> <<>>]
    BY <2>1
  <2>3. m \in Seq(Seq(Int)) /\ \A k \in 1..Len(m) : m[k] = <<>>
    <3>1. <<>> \in Seq(Int)
      BY EmptySeq
    <3>. HIDE DEF m
    <3>. QED
      BY <1>2, <2>2, <3>1
  <2>4. FlattenSeq(m) = <<>>
    <3>. HIDE DEF m
    <3>. QED
      BY <2>3, FlattenNothing
  <2>. QED
    BY <1>3, <2>4
<1>. QED
  BY <1>6, <1>7

(* An import therefore ends with the tasks of the export it read. *)
LEMMA ImportKeepsTasks ==
    ASSUME Imports, ImportRestores, ImportNext PROVE ImportRestores'
<1>1. CASE ImportTasks
  <2>1. source' = source
    BY <1>1 DEF ImportTasks
  <2>. SUFFICES ASSUME source # Absent, ~Unprotected(source),
                       \A k \in DOMAIN source : \A n \in DOMAIN source[k].tags : ~Has(source[k].tags[n], {Semi, Comma})
                PROVE  ImportRestores'
    BY <2>1 DEF ImportRestores
  <2>2. source \in Stored
    BY DEF Imports, ReadSoFar
  <2>3. docs' = [k \in DOMAIN source |-> Again(source[k])] /\ failed' = <<>>
    BY <1>1, <2>2, TableRestored
  <2>4. Len(docs') = Len(source) /\ DOMAIN docs' = DOMAIN source /\ \A k \in DOMAIN source : docs'[k] = Again(source[k])
    <3>1. DOMAIN source = 1..Len(source) /\ Len(source) \in Nat
      <4>1. source \in Seq(ToSet(source))
        BY <2>2, TableType
      <4>. QED
        BY <4>1
    <3>. QED
      BY <2>3, <3>1
  <2>. QED
    BY <2>1, <2>3, <2>4 DEF ImportRestores, Again
<1>2. CASE ~ImportTasks
  <2>1. pc' # "done"
    BY <1>2 DEF ImportNext, Escaped, Unquote, OpenQuote, Plain, EndField, EndRow, EndText, Refuse, Char
  <2>. QED
    BY <2>1 DEF ImportRestores
<1>. QED
  BY <1>1, <1>2

(* Nothing of an imported text is lost or made up, an export is read back as *)
(* it was written, and importing it restores its tasks.                      *)
THEOREM ImportsAreSafe == FormatsSpec => []ImportSafety
<1>1. FormatsInit => Imports /\ ImportRestores
  <2>. SUFFICES ASSUME ImportOff \/ ImportInit PROVE Imports /\ ImportRestores
    BY DEF FormatsInit
  <2>1. Imports
    BY ImportBegins DEF Imports
  <2>2. ImportRestores
    BY DEF ImportOff, ImportInit, ImportRestores
  <2>. QED
    BY <2>1, <2>2
<1>2. Imports /\ ImportRestores /\ [FormatsNext]_<<importVars, listVars, calendarVars>> => (Imports /\ ImportRestores)'
  <2>. SUFFICES ASSUME Imports, ImportRestores, [FormatsNext]_<<importVars, listVars, calendarVars>>
                PROVE  Imports' /\ ImportRestores'
    OBVIOUS
  <2>1. CASE ImportNext
    BY <2>1, ImportKeeps, ImportKeepsTasks
  <2>2. CASE UNCHANGED importVars
    <3>1. Imports'
      BY <2>2, ImportRests
    <3>2. ImportRestores'
      BY <2>2 DEF importVars, ImportRestores
    <3>. QED
      BY <3>1, <3>2
  <2>. QED
    BY <2>1, <2>2 DEF FormatsNext
<1>3. Imports /\ ImportRestores => ImportSafety
  BY TypesFollow, ReadBack DEF Imports, ImportSafety
<1>. QED
  BY <1>1, <1>2, <1>3, PTL DEF FormatsSpec

-----------------------------------------------------------------------------
(* The feed of a calendar, read back.  A reader that has read what was       *)
(* written of a text so far is never in the middle of an escape; what it     *)
(* finds of an event is the task of it; and while the lines are folded, the  *)
(* lines that are made unfold to those that are done and what is done of the *)
(* next one.                                                                 *)
(* Whether an odd number of backslashes stands before character k. *)
BehindSlash(s, k) ==
    \E n \in 1..(k - 1) : /\ n % 2 = 1 /\ \A j \in (k - n)..(k - 1) : s[j] = Slash
                          /\ (k - n = 1 \/ s[k - n - 1] # Slash)

LEMMA BehindNext ==
    ASSUME NEW T, NEW s \in Seq(T), NEW k \in 1..Len(s)
    PROVE  BehindSlash(s, k + 1) <=> s[k] = Slash /\ ~BehindSlash(s, k)
<1>0. k \in Nat /\ k >= 1
  OBVIOUS
<1>1. ASSUME BehindSlash(s, k + 1) PROVE s[k] = Slash /\ ~BehindSlash(s, k)
  <2>1. PICK n \in 1..k : /\ n % 2 = 1 /\ \A j \in (k + 1 - n)..k : s[j] = Slash
                          /\ (k + 1 - n = 1 \/ s[k - n] # Slash)
    <3>1. PICK n \in 1..(k + 1 - 1) : /\ n % 2 = 1 /\ \A j \in (k + 1 - n)..(k + 1 - 1) : s[j] = Slash
                          /\ (k + 1 - n = 1 \/ s[k + 1 - n - 1] # Slash)
      BY <1>1 DEF BehindSlash
    <3>2. k + 1 - 1 = k /\ k + 1 - n - 1 = k - n
      BY <1>0, <3>1
    <3>. QED
      BY <3>1, <3>2
  <2>2. s[k] = Slash
    BY <1>0, <2>1
  <2>3. ASSUME NEW o \in 1..(k - 1), o % 2 = 1, \A j \in (k - o)..(k - 1) : s[j] = Slash,
               k - o = 1 \/ s[k - o - 1] # Slash
        PROVE  FALSE
    <3>1. CASE n = o + 1
      BY <2>1, <2>3, <3>1
    <3>2. CASE n < o + 1
      <4>1. k - n \in (k - o)..(k - 1) /\ k + 1 - n # 1
        BY <1>0, <2>1, <2>3, <3>2
      <4>. QED
        BY <2>1, <2>3, <4>1
    <3>3. CASE n > o + 1
      <4>1. k - o - 1 \in (k + 1 - n)..k /\ k - o # 1
        BY <1>0, <2>1, <2>3, <3>3
      <4>. QED
        BY <2>1, <2>3, <4>1
    <3>. QED
      BY <2>1, <2>3, <3>1, <3>2, <3>3
  <2>. QED
    BY <2>2, <2>3 DEF BehindSlash
<1>2. ASSUME s[k] = Slash, ~BehindSlash(s, k) PROVE BehindSlash(s, k + 1)
  <2>. DEFINE S == {b \in 1..k : \A j \in b..k : s[j] = Slash}
  <2>1. PICK b \in S : \A c \in S : b <= c
    <3>1. k \in S
      BY <1>0, <1>2
    <3>2. S \in SUBSET Nat
      OBVIOUS
    <3>. HIDE DEF S
    <3>. QED
      BY <3>1, <3>2, LeastNumber
  <2>2. b \in 1..k /\ \A j \in b..k : s[j] = Slash
    BY <2>1
  <2>3. b = 1 \/ s[b - 1] # Slash
    <3>. SUFFICES ASSUME b # 1, s[b - 1] = Slash PROVE FALSE
      OBVIOUS
    <3>1. b - 1 \in 1..k /\ ~(b <= b - 1) /\ \A j \in (b - 1)..k : j = b - 1 \/ j \in b..k
      BY <1>0, <2>2
    <3>2. b - 1 \in S
      BY <2>2, <3>1
    <3>. HIDE DEF S
    <3>. QED
      BY <2>1, <3>1, <3>2
  <2>4. CASE (k + 1 - b) % 2 = 1
    <3>. DEFINE n == k + 1 - b
    <3>1. n \in 1..(k + 1 - 1) /\ k + 1 - n = b /\ k + 1 - n - 1 = b - 1 /\ k + 1 - 1 = k
      BY <1>0, <2>2
    <3>2. n % 2 = 1
      BY <2>4
    <3>. HIDE DEF n
    <3>. QED
      BY <2>2, <2>3, <3>1, <3>2 DEF BehindSlash
  <2>5. CASE (k + 1 - b) % 2 # 1
    <3>. DEFINE n == k - b
    <3>1. n \in 1..(k - 1) /\ n % 2 = 1 /\ k - n = b /\ k - n - 1 = b - 1
      BY <1>0, <2>2, <2>5
    <3>2. \A j \in b..(k - 1) : s[j] = Slash
      BY <1>0, <2>2
    <3>. HIDE DEF n
    <3>3. BehindSlash(s, k)
      BY <2>2, <2>3, <3>1, <3>2 DEF BehindSlash
    <3>. QED
      BY <1>2, <3>3
  <2>. QED
    BY <2>4, <2>5
<1>. QED
  BY <1>1, <1>2

LEMMA BehindSame ==
    ASSUME NEW s, NEW t, NEW k \in Nat, \A j \in 1..(k - 1) : s[j] = t[j]
    PROVE  BehindSlash(s, k) <=> BehindSlash(t, k)
<1>1. ASSUME NEW n \in 1..(k - 1)
      PROVE  (\A j \in (k - n)..(k - 1) : j \in 1..(k - 1)) /\ (k - n = 1 \/ k - n - 1 \in 1..(k - 1))
  OBVIOUS
<1>. QED
  BY <1>1 DEF BehindSlash

(* What a reader makes of one character more. *)
Meant(b, x) == IF b THEN (IF x = "n" THEN <<Break>> ELSE <<x>>) ELSE IF x = Slash THEN <<>> ELSE <<x>>
Reads(s) == [k \in DOMAIN s |-> Meant(BehindSlash(s, k), s[k])]

LEMMA UnescapeIs == ASSUME NEW s PROVE Unescape(s) = FlattenSeq(Reads(s))
BY DEF Unescape, Reads, Meant, BehindSlash

LEMMA ReadsType ==
    ASSUME NEW T, Break \in T, NEW s \in Seq(T)
    PROVE  Reads(s) \in Seq(Seq(T)) /\ Len(Reads(s)) = Len(s) /\ Unescape(s) \in Seq(T)
<1>1. DOMAIN s = 1..Len(s) /\ Len(s) \in Nat /\ \A k \in 1..Len(s) : s[k] \in T
  OBVIOUS
<1>2. ASSUME NEW b, NEW x \in T PROVE Meant(b, x) \in Seq(T)
  BY EmptySeq DEF Meant
<1>3. \A k \in 1..Len(s) : Meant(BehindSlash(s, k), s[k]) \in Seq(T)
  BY <1>1, <1>2
<1>4. Reads(s) \in Seq(Seq(T)) /\ Len(Reads(s)) = Len(s)
  BY <1>1, <1>3 DEF Reads
<1>5. FlattenSeq(Reads(s)) \in Seq(T)
  BY <1>4, FlattenType
<1>. QED
  BY <1>4, <1>5, UnescapeIs

LEMMA UnescapeMore ==
    ASSUME NEW T, Break \in T, NEW s \in Seq(T), NEW x \in T
    PROVE  /\ Unescape(Append(s, x)) = Unescape(s) \o Meant(BehindSlash(s, Len(s) + 1), x)
           /\ BehindSlash(Append(s, x), Len(s) + 2) <=> x = Slash /\ ~BehindSlash(s, Len(s) + 1)
<1>. DEFINE n == Len(s)
            t == Append(s, x)
            m == Meant(BehindSlash(s, n + 1), x)
<1>1. n \in Nat /\ t \in Seq(T) /\ Len(t) = n + 1 /\ t[n + 1] = x /\ \A k \in 1..n : t[k] = s[k]
  OBVIOUS
<1>. HIDE DEF t
<1>2. ASSUME NEW k \in 1..(n + 1) PROVE BehindSlash(t, k) <=> BehindSlash(s, k)
  <2>1. k \in Nat /\ \A j \in 1..(k - 1) : t[j] = s[j]
    BY <1>1
  <2>. QED
    BY <2>1, BehindSame
<1>3. BehindSlash(t, n + 2) <=> x = Slash /\ ~BehindSlash(s, n + 1)
  <2>1. n + 1 \in 1..Len(t) /\ n + 1 \in 1..(n + 1) /\ (n + 1) + 1 = n + 2
    BY <1>1
  <2>2. BehindSlash(t, (n + 1) + 1) <=> t[n + 1] = Slash /\ ~BehindSlash(t, n + 1)
    <3>. HIDE DEF n
    <3>. QED
      BY <1>1, <2>1, BehindNext
  <2>. HIDE DEF n
  <2>. QED
    BY <1>1, <1>2, <2>1, <2>2
<1>4. m \in Seq(T)
  BY EmptySeq DEF Meant
<1>5. Reads(t) = Append(Reads(s), m)
  <2>1. Reads(s) \in Seq(Seq(T)) /\ Len(Reads(s)) = n /\ Reads(t) \in Seq(Seq(T)) /\ Len(Reads(t)) = n + 1
    BY <1>1, ReadsType
  <2>2. ASSUME NEW k \in 1..n PROVE Reads(t)[k] = Reads(s)[k]
    <3>1. k \in DOMAIN t /\ k \in DOMAIN s /\ k \in 1..(n + 1)
      BY <1>1
    <3>. QED
      BY <1>1, <1>2, <3>1 DEF Reads, Meant
  <2>3. Reads(t)[n + 1] = m
    <3>1. n + 1 \in DOMAIN t /\ n + 1 \in 1..(n + 1)
      BY <1>1
    <3>2. Reads(t)[n + 1] = Meant(BehindSlash(t, n + 1), t[n + 1])
      BY <3>1 DEF Reads
    <3>. HIDE DEF n
    <3>. QED
      BY <1>1, <1>2, <3>1, <3>2 DEF m, Meant
  <2>4. Append(Reads(s), m) \in Seq(Seq(T)) /\ Len(Append(Reads(s), m)) = n + 1
        /\ Append(Reads(s), m)[n + 1] = m /\ \A k \in 1..n : Append(Reads(s), m)[k] = Reads(s)[k]
    <3>. HIDE DEF m, n
    <3>. QED
      BY <1>1, <1>4, <2>1, AppendProperties
  <2>. HIDE DEF m, n
  <2>5. \A k \in 1..(n + 1) : Reads(t)[k] = Append(Reads(s), m)[k]
    <3>1. \A k \in 1..(n + 1) : k \in 1..n \/ k = n + 1
      BY <1>1
    <3>. QED
      BY <2>2, <2>3, <2>4, <3>1
  <2>. QED
    BY <2>1, <2>4, <2>5, SeqEqual
<1>6. FlattenSeq(Append(Reads(s), m)) = FlattenSeq(Reads(s)) \o m
  <2>. HIDE DEF m
  <2>. QED
    BY <1>4, ReadsType, FlattenAppend
<1>. QED
  BY <1>3, <1>5, <1>6, UnescapeIs DEF t, m, n

(* Seen of one character more. *)
LEMMA SeenMore ==
    ASSUME NEW T, NEW s \in Seq(T), NEW x \in T
    PROVE  /\ Seen(Append(s, x)) = Seen(s) \o (IF x = Return THEN <<>> ELSE <<x>>)
           /\ Seen(s) \in Seq(T)
<1>. DEFINE g == [y \in T |-> IF y = Return THEN <<>> ELSE <<y>>]
<1>1. Replaces(g, T, T) /\ g[x] = IF x = Return THEN <<>> ELSE <<x>>
  BY DEF Replaces
<1>2. ASSUME NEW r \in Seq(T) PROVE Seen(r) = Spread(g, r)
  <2>1. \A k \in DOMAIN r : g[r[k]] = IF r[k] = Return THEN <<>> ELSE <<r[k]>>
    OBVIOUS
  <2>. HIDE DEF g
  <2>. QED
    BY <2>1, Zenon DEF Seen, Spread
<1>. HIDE DEF g
<1>3. <<x>> \in Seq(T) /\ Append(s, x) = s \o <<x>> /\ Append(s, x) \in Seq(T)
  OBVIOUS
<1>4. Spread(g, s) \in Seq(T)
  BY <1>1, SpreadType
<1>5. Spread(g, s \o <<x>>) = Spread(g, s) \o Spread(g, <<x>>)
  <2>. DEFINE one == <<x>>
  <2>. HIDE DEF one
  <2>1. one \in Seq(T)
    BY <1>3 DEF one
  <2>2. Spread(g, s \o one) = Spread(g, s) \o Spread(g, one)
    BY <1>1, <2>1, SpreadConcat
  <2>. QED
    BY <2>2 DEF one
<1>6. Spread(g, <<x>>) = g[x]
  BY <1>1, SpreadOne
<1>. QED
  BY <1>1, <1>2, <1>3, <1>4, <1>5, <1>6

(* A text that does not end in the middle of an escape, and what is read. *)
Whole(t) == ~BehindSlash(t, Len(t) + 1)

LEMMA PlainIsRead ==
    ASSUME NEW C, Break \in C, NEW t \in Seq(C), Whole(t), NEW x \in C, x # Slash
    PROVE  Whole(Append(t, x)) /\ Unescape(Append(t, x)) = Append(Unescape(t), x)
<1>1. /\ Unescape(Append(t, x)) = Unescape(t) \o Meant(BehindSlash(t, Len(t) + 1), x)
      /\ BehindSlash(Append(t, x), Len(t) + 2) <=> x = Slash /\ ~BehindSlash(t, Len(t) + 1)
  BY UnescapeMore
<1>2. Meant(BehindSlash(t, Len(t) + 1), x) = <<x>>
  BY DEF Whole, Meant
<1>3. Len(Append(t, x)) + 1 = Len(t) + 2
  OBVIOUS
<1>4. Unescape(t) \in Seq(C)
  BY ReadsType
<1>5. Unescape(t) \o <<x>> = Append(Unescape(t), x)
  BY <1>4
<1>. QED
  BY <1>1, <1>2, <1>3, <1>5 DEF Whole

LEMMA PairIsRead ==
    ASSUME NEW C, {Break, Slash} \subseteq C, NEW t \in Seq(C), Whole(t), NEW y \in C
    PROVE  /\ Whole(Append(Append(t, Slash), y))
           /\ Unescape(Append(Append(t, Slash), y)) = Append(Unescape(t), IF y = "n" THEN Break ELSE y)
<1>. DEFINE u == Append(t, Slash)
<1>1. u \in Seq(C) /\ Len(u) = Len(t) + 1 /\ Len(t) \in Nat
  OBVIOUS
<1>2. /\ Unescape(u) = Unescape(t) \o Meant(BehindSlash(t, Len(t) + 1), Slash)
      /\ BehindSlash(u, Len(t) + 2) <=> Slash = Slash /\ ~BehindSlash(t, Len(t) + 1)
  BY UnescapeMore
<1>. HIDE DEF u
<1>3. /\ Unescape(Append(u, y)) = Unescape(u) \o Meant(BehindSlash(u, Len(u) + 1), y)
      /\ BehindSlash(Append(u, y), Len(u) + 2) <=> y = Slash /\ ~BehindSlash(u, Len(u) + 1)
  BY <1>1, UnescapeMore
<1>4. BehindSlash(u, Len(u) + 1)
  <2>1. Len(u) + 1 = Len(t) + 2
    BY <1>1
  <2>. QED
    BY <1>2, <2>1 DEF Whole
<1>5. Unescape(t) \in Seq(C)
  BY ReadsType
<1>6. Unescape(u) = Unescape(t)
  <2>1. Meant(BehindSlash(t, Len(t) + 1), Slash) = <<>>
    BY DEF Whole, Meant
  <2>. QED
    BY <1>2, <1>5, <2>1, ConcatEmptySeq
<1>7. Meant(BehindSlash(u, Len(u) + 1), y) = <<IF y = "n" THEN Break ELSE y>>
  BY <1>4 DEF Meant
<1>8. Len(Append(u, y)) + 1 = Len(u) + 2
  BY <1>1
<1>9. Unescape(t) \o <<IF y = "n" THEN Break ELSE y>> = Append(Unescape(t), IF y = "n" THEN Break ELSE y)
  BY <1>5
<1>. QED
  BY <1>3, <1>4, <1>6, <1>7, <1>8, <1>9 DEF Whole, u

(* What ICalEscape writes of each character. *)
Escape(s, k) ==
    CASE s[k] \in {Slash, ";", ","} -> <<Slash, s[k]>>
      [] s[k] = Break -> <<Slash, "n">>
      [] s[k] = Return /\ k < Len(s) /\ s[k + 1] = Break -> <<>>
      [] OTHER -> <<s[k]>>

LEMMA EscapeIs ==
    ASSUME NEW s PROVE ICalEscape(s) = FlattenSeq([k \in DOMAIN s |-> Escape(s, k)])
BY Zenon DEF ICalEscape, Escape

(* A reader that has read what was written before a character reads it too. *)
LEMMA EscapeIsRead ==
    ASSUME NEW C, {Slash, Break, "n"} \subseteq C, NEW s \in Seq(C), NEW k \in 1..Len(s),
           NEW t \in Seq(C), Whole(t), NEW r \in Seq(C), Seen(Unescape(t)) = Seen(r)
    PROVE  /\ Escape(s, k) \in Seq(C) /\ Whole(t \o Escape(s, k))
           /\ Seen(Unescape(t \o Escape(s, k))) = Seen(Append(r, s[k]))
<1>. DEFINE x == s[k]
            e == Escape(s, k)
<1>0. x \in C /\ Unescape(t) \in Seq(C)
  BY ReadsType
<1>1. ASSUME NEW u \in Seq(C) PROVE Seen(Append(u, x)) = Seen(u) \o (IF x = Return THEN <<>> ELSE <<x>>)
  BY <1>0, <1>1, SeenMore
<1>2. Seen(Append(Unescape(t), x)) = Seen(Append(r, x))
  BY <1>0, <1>1
<1>3. ASSUME NEW y \in C, x = IF y = "n" THEN Break ELSE y, e = <<Slash, y>>
      PROVE  e \in Seq(C) /\ Whole(t \o e) /\ Unescape(t \o e) = Append(Unescape(t), x)
  <2>1. e \in Seq(C) /\ t \o e = Append(Append(t, Slash), y)
    <3>1. <<Slash, y>> \in Seq(C) /\ t \o <<Slash, y>> = Append(Append(t, Slash), y)
      OBVIOUS
    <3>. QED
      BY <1>3, <3>1
  <2>2. Whole(Append(Append(t, Slash), y)) /\ Unescape(Append(Append(t, Slash), y)) = Append(Unescape(t), IF y = "n" THEN Break ELSE y)
    BY PairIsRead
  <2>. QED
    BY <1>3, <2>1, <2>2
<1>4. CASE x \in {Slash, ";", ","}
  <2>1. e = <<Slash, x>>
    <3>1. Break \notin {Slash, ";", ","} /\ Return \notin {Slash, ";", ","}
      BY DEF Slash, Break, Return
    <3>2. s[k] \in {Slash, ";", ","} /\ s[k] # Break /\ s[k] # Return
      BY <1>4, <3>1
    <3>. QED
      BY <3>2, Zenon DEF Escape
  <2>0. x = IF x = "n" THEN Break ELSE x
    <3>1. Slash # "n"
      BY DEF Slash
    <3>2. x # "n"
      <4>. HIDE DEF x
      <4>. QED
        BY <1>4, <3>1
    <3>. HIDE DEF x
    <3>. QED
      BY <3>2
  <2>. HIDE DEF e, x
  <2>2. e \in Seq(C) /\ Whole(t \o e) /\ Unescape(t \o e) = Append(Unescape(t), x)
    BY <1>0, <1>3, <2>0, <2>1
  <2>. QED
    BY <1>2, <2>2 DEF e, x
<1>5. CASE x = Break
  <2>0. Break \notin {Slash, ";", ","}
    BY DEF Slash, Break
  <2>1. e = <<Slash, "n">>
    <3>1. Break # Return
      BY DEF Break, Return
    <3>2. s[k] = Break /\ ~(s[k] \in {Slash, ";", ","}) /\ s[k] # Return
      BY <1>5, <2>0, <3>1
    <3>. QED
      BY <3>2, Zenon DEF Escape
  <2>3. x = IF "n" = "n" THEN Break ELSE "n"
    BY <1>5
  <2>. HIDE DEF e, x
  <2>2. e \in Seq(C) /\ Whole(t \o e) /\ Unescape(t \o e) = Append(Unescape(t), x)
    BY <1>0, <1>3, <2>1, <2>3
  <2>. QED
    BY <1>2, <2>2 DEF e, x
<1>6. CASE x = Return /\ k < Len(s) /\ s[k + 1] = Break
  <2>1. e = <<>>
    BY <1>6 DEF Escape, Slash, Break, Return
  <2>2. t \o <<>> = t /\ <<>> \in Seq(C)
    BY ConcatEmptySeq, EmptySeq
  <2>3. Seen(r) \in Seq(C)
    BY <1>0, SeenMore
  <2>4. Seen(Append(r, x)) = Seen(r) \o <<>>
    BY <1>1, <1>6
  <2>5. Seen(r) \o <<>> = Seen(r)
    BY <2>3, ConcatEmptySeq
  <2>. QED
    BY <2>1, <2>2, <2>4, <2>5
<1>7. CASE ~(x \in {Slash, ";", ","}) /\ x # Break /\ ~(x = Return /\ k < Len(s) /\ s[k + 1] = Break)
  <2>1. e = <<x>>
    BY <1>7 DEF Escape
  <2>2. x # Slash /\ t \o <<x>> = Append(t, x) /\ <<x>> \in Seq(C)
    <3>1. \A y \in C : t \o <<y>> = Append(t, y) /\ <<y>> \in Seq(C)
      OBVIOUS
    <3>2. x # Slash
      BY <1>7
    <3>. HIDE DEF x
    <3>. QED
      BY <1>0, <3>1, <3>2
  <2>3. Whole(Append(t, x)) /\ Unescape(Append(t, x)) = Append(Unescape(t), x)
    BY <1>0, <2>2, PlainIsRead
  <2>. QED
    BY <1>2, <2>1, <2>2, <2>3
<1>. QED
  BY <1>4, <1>5, <1>6, <1>7

(* So an escaped text is read again, but for carriage returns. *)
LEMMA TextIsReadBack ==
    ASSUME NEW T, NEW s \in Seq(T) PROVE Seen(Unescape(ICalEscape(s))) = Seen(s)
<1>. DEFINE C == T \cup {Slash, Break, "n"}
            m == [k \in DOMAIN s |-> Escape(s, k)]
            t(k) == FlattenSeq(SubSeq(m, 1, k))
            Good(k) == t(k) \in Seq(C) /\ Whole(t(k)) /\ Seen(Unescape(t(k))) = Seen(SubSeq(s, 1, k))
            N == {k \in Nat : k <= Len(s) => Good(k)}
<1>0. Len(s) \in Nat /\ DOMAIN s = 1..Len(s) /\ s \in Seq(C) /\ {Slash, Break, "n"} \subseteq C
  OBVIOUS
<1>1. m \in Seq(Seq(C)) /\ Len(m) = Len(s) /\ \A k \in 1..Len(s) : m[k] = Escape(s, k)
  <2>1. ASSUME NEW k \in 1..Len(s) PROVE Escape(s, k) \in Seq(C)
    <3>1. s[k] \in C
      BY <1>0, <2>1
    <3>2. <<Slash, s[k]>> \in Seq(C) /\ <<Slash, "n">> \in Seq(C) /\ <<>> \in Seq(C) /\ <<s[k]>> \in Seq(C)
      BY <1>0, <3>1
    <3>. HIDE DEF C
    <3>. QED
      BY <3>2 DEF Escape
  <2>. HIDE DEF C
  <2>. QED
    BY <1>0, <2>1
<1>. HIDE DEF m, C
<1>2. 0 \in N
  <2>1. SubSeq(m, 1, 0) = <<>> /\ SubSeq(s, 1, 0) = <<>>
    BY SubSeqEmpty
  <2>2. t(0) = <<>>
    BY <2>1, FlattenEmpty
  <2>3. Unescape(<<>>) = <<>> /\ Seen(<<>>) = <<>>
    BY FlattenEmpty DEF Unescape, Seen
  <2>4. Whole(<<>>) /\ <<>> \in Seq(C)
    BY EmptySeq DEF Whole, BehindSlash
  <2>. QED
    BY <2>1, <2>2, <2>3, <2>4
<1>3. ASSUME NEW k \in Nat, k \in N PROVE k + 1 \in N
  <2>. SUFFICES ASSUME k + 1 <= Len(s) PROVE Good(k + 1)
    OBVIOUS
  <2>0. k + 1 \in 1..Len(s) /\ k + 1 \in 1..Len(m) /\ k + 1 - 1 = k /\ k <= Len(s)
    BY <1>0, <1>1
  <2>1. Append(SubSeq(m, 1, k), m[k + 1]) = SubSeq(m, 1, k + 1) /\ SubSeq(m, 1, k) \in Seq(Seq(C))
    BY <1>1, <2>0, PrefixGrows
  <2>2. Append(SubSeq(s, 1, k), s[k + 1]) = SubSeq(s, 1, k + 1) /\ SubSeq(s, 1, k) \in Seq(C)
    BY <1>0, <2>0, PrefixGrows
  <2>3. Good(k)
    BY <1>3, <2>0
  <2>4. /\ Escape(s, k + 1) \in Seq(C) /\ Whole(t(k) \o Escape(s, k + 1))
        /\ Seen(Unescape(t(k) \o Escape(s, k + 1))) = Seen(Append(SubSeq(s, 1, k), s[k + 1]))
    <3>. DEFINE u == t(k)
                r == SubSeq(s, 1, k)
    <3>1. u \in Seq(C) /\ Whole(u) /\ r \in Seq(C) /\ Seen(Unescape(u)) = Seen(r)
      BY <2>2, <2>3
    <3>. HIDE DEF u, r
    <3>2. /\ Escape(s, k + 1) \in Seq(C) /\ Whole(u \o Escape(s, k + 1))
          /\ Seen(Unescape(u \o Escape(s, k + 1))) = Seen(Append(r, s[k + 1]))
      BY <1>0, <2>0, <3>1, EscapeIsRead
    <3>. QED
      BY <3>2 DEF u, r
  <2>5. t(k + 1) = t(k) \o Escape(s, k + 1)
    <3>1. FlattenSeq(Append(SubSeq(m, 1, k), m[k + 1])) = FlattenSeq(SubSeq(m, 1, k)) \o m[k + 1]
      BY <1>1, <2>0, <2>1, <2>4, FlattenAppend
    <3>. QED
      BY <1>1, <2>0, <2>1, <3>1
  <2>6. t(k) \o Escape(s, k + 1) \in Seq(C)
    BY <2>3, <2>4, ConcatProperties
  <2>. QED
    BY <2>2, <2>4, <2>5, <2>6
<1>4. Good(Len(s))
  <2>. HIDE DEF Good
  <2>1. Nat \subseteq N
    <3>. HIDE DEF N
    <3>. QED
      BY <1>2, <1>3, NatSet
  <2>. QED
    BY <1>0, <2>1
<1>5. SubSeq(m, 1, Len(s)) = m /\ SubSeq(s, 1, Len(s)) = s
  BY <1>1, <1>0, SubSeqFull
<1>. QED
  BY <1>4, <1>5, EscapeIs DEF m

(* What is spread of sequences put together is what is spread of each. *)
LEMMA SpreadFlatten ==
    ASSUME NEW T, NEW U, NEW g, Replaces(g, T, U), NEW seqs \in Seq(Seq(T))
    PROVE  Spread(g, FlattenSeq(seqs)) = FlattenSeq([k \in DOMAIN seqs |-> Spread(g, seqs[k])])
<1>. DEFINE V == Seq(T)
            h == [s \in V |-> Spread(g, s)]
            S == {ss \in Seq(V) : Spread(g, FlattenSeq(ss)) = Spread(h, ss)}
<1>1. Replaces(h, V, U) /\ \A s \in V : h[s] = Spread(g, s) /\ Spread(g, s) \in Seq(U)
  <2>1. \A s \in V : Spread(g, s) \in Seq(U)
    BY SpreadType
  <2>. QED
    BY <2>1 DEF Replaces
<1>. HIDE DEF h
<1>2. Spread(g, <<>>) = <<>> /\ Spread(h, <<>>) = <<>>
  BY FlattenEmpty DEF Spread
<1>3. <<>> \in S
  BY <1>2, FlattenEmpty, EmptySeq
<1>4. ASSUME NEW ss \in Seq(V), NEW x \in V, ss \in S PROVE Append(ss, x) \in S
  <2>. DEFINE one == <<x>>
  <2>1. one \in Seq(V) /\ Append(ss, x) = ss \o one /\ Append(ss, x) \in Seq(V)
    <3>. HIDE DEF V
    <3>. QED
      BY AppendConcat
  <2>2. Spread(h, one) = Spread(g, x)
    <3>. HIDE DEF V
    <3>. QED
      BY <1>1, SpreadOne
  <2>. HIDE DEF one
  <2>3. Spread(h, ss \o one) = Spread(h, ss) \o Spread(h, one)
    <3>. HIDE DEF V
    <3>. QED
      BY <1>1, <2>1, SpreadConcat
  <2>4. FlattenSeq(Append(ss, x)) = FlattenSeq(ss) \o x /\ FlattenSeq(ss) \in Seq(T)
    BY FlattenAppend, FlattenType
  <2>5. Spread(g, FlattenSeq(ss) \o x) = Spread(g, FlattenSeq(ss)) \o Spread(g, x)
    BY <2>4, SpreadConcat
  <2>6. Spread(g, FlattenSeq(ss)) = Spread(h, ss)
    BY <1>4
  <2>. QED
    BY <2>1, <2>2, <2>3, <2>4, <2>5, <2>6
<1>. HIDE DEF S
<1>5. Seq(V) \subseteq S
  <2>. HIDE DEF V
  <2>. QED
    BY <1>3, <1>4, SeqSet
<1>6. Spread(g, FlattenSeq(seqs)) = Spread(h, seqs)
  BY <1>5 DEF S
<1>7. \A k \in DOMAIN seqs : h[seqs[k]] = Spread(g, seqs[k])
  BY <1>1
<1>8. Spread(h, seqs) = FlattenSeq([k \in DOMAIN seqs |-> Spread(g, seqs[k])])
  BY <1>7, Zenon DEF Spread
<1>. QED
  BY <1>6, <1>8

-----------------------------------------------------------------------------
(* The text of one line, and of lines put together. *)
TextAt(l, name) == IF l[1] = name THEN <<Seen(Unescape(Tail(l)))>> ELSE <<>>
TextsIn(f) == Seq(Characters(f) \cup {Break})
Reader(f, name) == [l \in Lines(f) |-> TextAt(l, name)]

LEMMA ReaderIs ==
    ASSUME NEW f, NEW name
    PROVE  /\ Replaces(Reader(f, name), Lines(f), TextsIn(f))
           /\ \A l \in Lines(f) : Reader(f, name)[l] = TextAt(l, name)
           /\ \A ls \in Seq(Lines(f)) : TextOf(ls, name) = Spread(Reader(f, name), ls)
<1>. DEFINE C == Characters(f) \cup {Break}
<1>1. ASSUME NEW l \in Lines(f) PROVE Seen(Unescape(Tail(l))) \in Seq(C)
  <2>1. l \in Seq(C) /\ l # <<>>
    BY DEF Lines
  <2>. HIDE DEF C
  <2>2. Tail(l) \in Seq(C)
    BY <2>1, HeadTailProperties
  <2>3. Break \in C
    BY DEF C
  <2>4. Unescape(Tail(l)) \in Seq(C)
    BY <2>2, <2>3, ReadsType
  <2>. QED
    BY <2>3, <2>4, SeenMore
<1>2. \A l \in Lines(f) : TextAt(l, name) \in Seq(TextsIn(f))
  <2>. DEFINE D == TextsIn(f)
  <2>1. \A x \in D : <<x>> \in Seq(D) /\ <<>> \in Seq(D)
    OBVIOUS
  <2>2. <<>> \in Seq(D)
    OBVIOUS
  <2>. HIDE DEF D, C
  <2>3. \A l \in Lines(f) : Seen(Unescape(Tail(l))) \in D
    BY <1>1 DEF D, TextsIn, C
  <2>. QED
    BY <2>1, <2>2, <2>3 DEF D, TextAt
<1>3. Replaces(Reader(f, name), Lines(f), TextsIn(f)) /\ \A l \in Lines(f) : Reader(f, name)[l] = TextAt(l, name)
  BY <1>2 DEF Reader, Replaces
<1>4. ASSUME NEW ls \in Seq(Lines(f)) PROVE TextOf(ls, name) = Spread(Reader(f, name), ls)
  <2>1. \A k \in DOMAIN ls : ls[k] \in Lines(f)
    OBVIOUS
  <2>2. \A k \in DOMAIN ls : Reader(f, name)[ls[k]] = TextAt(ls[k], name)
    BY <1>3, <2>1
  <2>. QED
    BY <2>2, Zenon DEF TextOf, Spread, TextAt
<1>. QED
  BY <1>3, <1>4

LEMMA TextOfMore ==
    ASSUME NEW f, NEW name, NEW ls \in Seq(Lines(f)), NEW l \in Lines(f)
    PROVE  TextOf(Append(ls, l), name) = TextOf(ls, name) \o TextAt(l, name) /\ TextOf(ls, name) \in Seq(TextsIn(f))
<1>. DEFINE g == Reader(f, name)
            L == Lines(f)
            one == <<l>>
<1>1. Replaces(g, L, TextsIn(f)) /\ g[l] = TextAt(l, name) /\ \A r \in Seq(L) : TextOf(r, name) = Spread(g, r)
  BY ReaderIs
<1>. HIDE DEF g, L
<1>2. one \in Seq(L) /\ Append(ls, l) = ls \o one /\ Append(ls, l) \in Seq(L) /\ ls \in Seq(L) /\ l \in L
  BY AppendConcat DEF L
<1>3. Spread(g, one) = g[l]
  BY <1>1, <1>2, SpreadOne
<1>. HIDE DEF one
<1>4. Spread(g, ls \o one) = Spread(g, ls) \o Spread(g, one)
  BY <1>1, <1>2, SpreadConcat
<1>5. Spread(g, ls) \in Seq(TextsIn(f))
  BY <1>1, <1>2, SpreadType
<1>. QED
  BY <1>1, <1>2, <1>3, <1>4, <1>5

LEMMA TextOfSame ==
    ASSUME NEW f, NEW name, NEW ls \in Seq(Lines(f)), NEW l \in Lines(f), l[1] # name
    PROVE  TextOf(Append(ls, l), name) = TextOf(ls, name) /\ Append(ls, l) \in Seq(Lines(f))
<1>1. TextOf(Append(ls, l), name) = TextOf(ls, name) \o TextAt(l, name) /\ TextOf(ls, name) \in Seq(TextsIn(f))
  BY TextOfMore
<1>2. TextAt(l, name) = <<>>
  BY DEF TextAt
<1>3. TextOf(ls, name) \o <<>> = TextOf(ls, name)
  BY <1>1, ConcatEmptySeq
<1>4. Append(ls, l) \in Seq(Lines(f))
  BY AppendProperties
<1>. QED
  BY <1>1, <1>2, <1>3, <1>4

LEMMA TextOfFirst ==
    ASSUME NEW f, NEW name, NEW ls \in Seq(Lines(f)), NEW l \in Lines(f), l[1] = name, TextOf(ls, name) = <<>>
    PROVE  TextOf(Append(ls, l), name) = <<Seen(Unescape(Tail(l)))>> /\ Append(ls, l) \in Seq(Lines(f))
<1>1. TextOf(Append(ls, l), name) = TextOf(ls, name) \o TextAt(l, name)
  BY TextOfMore
<1>2. TextAt(l, name) = <<Seen(Unescape(Tail(l)))>>
  BY DEF TextAt
<1>3. ASSUME NEW x PROVE <<>> \o <<x>> = <<x>>
  <2>1. <<x>> \in Seq({x})
    OBVIOUS
  <2>. QED
    BY <2>1, ConcatEmptySeq
<1>4. Append(ls, l) \in Seq(Lines(f))
  BY AppendProperties
<1>. QED
  BY <1>1, <1>2, <1>3, <1>4

(* A line by its name and the rest. *)
LEMMA NamedLine ==
    ASSUME NEW C, NEW x \in C, NEW s \in Seq(C)
    PROVE  (<<x>> \o s)[1] = x /\ Tail(<<x>> \o s) = s
<1>. DEFINE l == <<x>> \o s
            n == Len(s)
            one == <<x>>
<1>1. one \in Seq(C) /\ Len(one) = 1 /\ one[1] = x /\ n \in Nat
  OBVIOUS
<1>. HIDE DEF one, n
<1>2. l \in Seq(C) /\ Len(l) = 1 + n /\ (\A k \in 1..1 : l[k] = one[k]) /\ \A k \in 1..n : l[1 + k] = s[k]
  BY <1>1, ConcatAt DEF one, n
<1>. HIDE DEF l
<1>3. l # <<>>
  BY <1>1, <1>2
<1>4. Tail(l) \in Seq(C) /\ Len(Tail(l)) = Len(l) - 1 /\ \A k \in 1..Len(Tail(l)) : Tail(l)[k] = l[k + 1]
  BY <1>2, <1>3, HeadTailProperties
<1>5. Len(Tail(l)) = n /\ \A k \in 1..n : l[k + 1] = l[1 + k]
  BY <1>1, <1>2, <1>4
<1>6. \A k \in 1..n : Tail(l)[k] = s[k]
  BY <1>2, <1>4, <1>5
<1>7. Tail(l) = s
  BY <1>4, <1>5, <1>6, SeqEqual DEF n
<1>8. l[1] = x
  BY <1>1, <1>2
<1>. QED
  BY <1>7, <1>8 DEF l

(* An id is read as it is. *)
LEMMA IdIsRead ==
    ASSUME NEW x, x \notin {Slash, Return} PROVE Seen(Unescape(<<x>>)) = <<x>>
<1>. DEFINE C == {x, Break}
<1>1. <<>> \in Seq(C) /\ x \in C /\ Break \in C /\ Append(<<>>, x) = <<x>>
  OBVIOUS
<1>. HIDE DEF C
<1>2. Whole(<<>>)
  BY DEF Whole, BehindSlash
<1>3. Unescape(<<>>) = <<>> /\ Seen(<<>>) = <<>>
  BY FlattenEmpty DEF Unescape, Seen
<1>4. Unescape(Append(<<>>, x)) = Append(Unescape(<<>>), x)
  BY <1>1, <1>2, PlainIsRead
<1>5. Seen(Append(<<>>, x)) = Seen(<<>>) \o (IF x = Return THEN <<>> ELSE <<x>>)
  BY <1>1, SeenMore
<1>6. <<>> \o <<x>> = <<x>>
  OBVIOUS
<1>. QED
  BY <1>1, <1>3, <1>4, <1>5, <1>6

(* Lines, and those that do not go on with the one before them. *)
Solids(C)    == Seq(C) \ {<<>>}
Continues(p) == p[1] = " "
Starters(C)  == {l \in Solids(C) : ~Continues(l)}

(* What a reader finds in the event of a task. *)
LEMMA EventTexts ==
    ASSUME NEW f \in Feeds, NEW k \in DOMAIN f
    PROVE  /\ TextOf(Event(f[k]), "UID") = << <<f[k].id>> >>
           /\ TextOf(Event(f[k]), "SUMMARY") = <<Seen(f[k].title)>>
           /\ TextOf(Event(f[k]), "DESCRIPTION")
                = IF f[k].description = <<>> THEN <<>> ELSE <<Seen(f[k].description)>>
           /\ Event(f[k]) \in Seq(Starters(Characters(f)))
<1>. DEFINE C == Characters(f)
            t == f[k]
            from == IF t.dueDate # None THEN t.dueDate ELSE t.createdAt
            status == IF t.status = "completed" THEN "CANCELLED" ELSE "CONFIRMED"
            title == ICalEscape(t.title)
            words == ICalEscape(t.description)
<1>1. /\ {t.id, from, from + 1} \subseteq C /\ title \in Seq(C) /\ words \in Seq(C)
      /\ {"BEGIN", "UID", "DTSTART", "DTEND", "SUMMARY", "DESCRIPTION", "STATUS", "END", status} \subseteq C
  <2>. DEFINE of(j) == {f[j].id, f[j].dueDate, f[j].dueDate + 1, f[j].createdAt, f[j].createdAt + 1}
                       \cup ToSet(f[j].title) \cup ToSet(f[j].description)
  <2>1. of(k) \subseteq C
    <3>1. UNION {of(j) : j \in DOMAIN f} \subseteq C
      BY DEF Characters
    <3>. HIDE DEF of, C
    <3>. QED
      BY <3>1
  <2>2. {t.id, from, from + 1} \subseteq of(k) /\ ToSet(t.title) \subseteq of(k) /\ ToSet(t.description) \subseteq of(k)
    OBVIOUS
  <2>3. {"BEGIN", "UID", "DTSTART", "DTEND", "SUMMARY", "DESCRIPTION", "STATUS", "END", status, Slash, "n"} \subseteq C
    BY DEF Characters
  <2>. HIDE DEF of, C, from, status
  <2>4. t.title \in Seq(C) /\ t.description \in Seq(C)
    BY <2>1, <2>2, FeedsAreTasks, SeqMonotonic
  <2>5. title \in Seq(C) /\ words \in Seq(C)
    BY <2>3, <2>4, ICalEscapeType
  <2>. QED
    BY <2>1, <2>2, <2>3, <2>5
<1>2. /\ t.id \notin {Slash, Return} /\ t.title \in Seq(ToSet(t.title)) /\ t.description \in Seq(ToSet(t.description))
  BY FeedsAreTasks
<1>3. Event(t) = << <<"BEGIN">>, <<"UID", t.id>>, <<"DTSTART", from>>, <<"DTEND", from + 1>>, <<"SUMMARY">> \o title >>
                 \o (IF t.description = <<>> THEN <<>> ELSE << <<"DESCRIPTION">> \o words >>)
                 \o << <<"STATUS", status>>, <<"END">> >>
  BY DEF Event
<1>. HIDE DEF C, title, words, from, status
<1>. DEFINE L == Lines(f)
            begin == <<"BEGIN">>
            uid == <<"UID", t.id>>
            opens == <<"DTSTART", from>>
            till == <<"DTEND", from + 1>>
            summary == <<"SUMMARY">> \o title
            description == <<"DESCRIPTION">> \o words
            state == <<"STATUS", status>>
            end == <<"END">>
<1>4. /\ begin \in L /\ uid \in L /\ opens \in L /\ till \in L /\ state \in L /\ end \in L
      /\ begin[1] = "BEGIN" /\ uid[1] = "UID" /\ opens[1] = "DTSTART" /\ till[1] = "DTEND"
      /\ state[1] = "STATUS" /\ end[1] = "END" /\ Tail(uid) = <<t.id>>
  BY <1>1 DEF Lines, C
<1>5. ASSUME NEW x \in C, NEW s \in Seq(C) PROVE <<x>> \o s \in L
  <2>1. <<x>> \o s \in Seq(C) /\ Len(<<x>> \o s) = 1 + Len(s) /\ Len(s) \in Nat
    BY <1>5, Prefixed
  <2>2. Len(<<x>> \o s) # 0 /\ Len(<<>>) = 0
    BY <2>1
  <2>. QED
    BY <2>1, <2>2 DEF Lines, C
<1>6. /\ summary \in L /\ summary[1] = "SUMMARY" /\ Tail(summary) = title
      /\ description \in L /\ description[1] = "DESCRIPTION" /\ Tail(description) = words
  BY <1>1, <1>5, NamedLine
<1>7. /\ Seen(Unescape(Tail(uid))) = <<t.id>>
      /\ Seen(Unescape(Tail(summary))) = Seen(t.title)
      /\ Seen(Unescape(Tail(description))) = Seen(t.description)
  <2>1. Seen(Unescape(<<t.id>>)) = <<t.id>>
    BY <1>2, IdIsRead
  <2>2. Seen(Unescape(title)) = Seen(t.title) /\ Seen(Unescape(words)) = Seen(t.description)
    BY <1>2, TextIsReadBack DEF title, words
  <2>. QED
    BY <1>4, <1>6, <2>1, <2>2
<1>. DEFINE p1 == Append(<<>>, begin)
            p2 == Append(p1, uid)
            p3 == Append(p2, opens)
            p4 == Append(p3, till)
            p5 == Append(p4, summary)
            p6 == IF t.description = <<>> THEN p5 ELSE Append(p5, description)
            p7 == Append(p6, state)
            p8 == Append(p7, end)
<1>8. Event(t) = p8
  <2>. HIDE DEF L, begin, uid, opens, till, summary, description, state, end
  <2>1. << begin, uid, opens, till, summary >> = p5
    OBVIOUS
  <2>2. p5 \in Seq(L)
    BY <1>4, <1>6
  <2>3. ASSUME NEW p \in Seq(L) PROVE p \o <<state, end>> = Append(Append(p, state), end)
    BY <1>4
  <2>4. ASSUME NEW p \in Seq(L) PROVE p \o <<description>> = Append(p, description) /\ p \o <<>> = p /\ Append(p, description) \in Seq(L)
    BY <1>6
  <2>5. Event(t) = (p5 \o (IF t.description = <<>> THEN <<>> ELSE <<description>>)) \o <<state, end>>
    BY <1>3, <2>1 DEF begin, uid, opens, till, summary, description, state, end
  <2>. HIDE DEF p5
  <2>6. p5 \o (IF t.description = <<>> THEN <<>> ELSE <<description>>) = p6 /\ p6 \in Seq(L)
    BY <2>2, <2>4
  <2>. HIDE DEF p6
  <2>. QED
    BY <2>3, <2>5, <2>6
<1>a. p8 \in Seq(Starters(C))
  <2>1. /\ begin[1] # " " /\ uid[1] # " " /\ opens[1] # " " /\ till[1] # " " /\ summary[1] # " "
        /\ description[1] # " " /\ state[1] # " " /\ end[1] # " "
    BY <1>4, <1>6
  <2>. DEFINE D == Starters(C)
  <2>2. ASSUME NEW l \in L, l[1] # " " PROVE l \in D
    BY <2>2 DEF Starters, Solids, Continues, Lines, C
  <2>3. /\ begin \in D /\ uid \in D /\ opens \in D /\ till \in D /\ summary \in D /\ description \in D
        /\ state \in D /\ end \in D
    <3>. HIDE DEF L, D, begin, uid, opens, till, summary, description, state, end
    <3>. QED
      BY <1>4, <1>6, <2>1, <2>2
  <2>. HIDE DEF D, begin, uid, opens, till, summary, description, state, end
  <2>4. p5 \in Seq(D)
    BY <2>3
  <2>. HIDE DEF p5
  <2>5. p6 \in Seq(D)
    BY <2>3, <2>4
  <2>. HIDE DEF p6
  <2>6. p8 \in Seq(D)
    BY <2>3, <2>5
  <2>. QED
    BY <2>6 DEF D
<1>9. <<>> \in Seq(L) /\ \A name : TextOf(<<>>, name) = <<>>
  <2>1. ASSUME NEW name PROVE TextOf(<<>>, name) = <<>>
    BY FlattenEmpty DEF TextOf
  <2>. QED
    BY <2>1, EmptySeq
<1>. HIDE DEF L, begin, uid, opens, till, summary, description, state, end
<1>10. ASSUME NEW name, NEW p \in Seq(L), NEW l \in L, l[1] # name
       PROVE  TextOf(Append(p, l), name) = TextOf(p, name) /\ Append(p, l) \in Seq(L)
  BY <1>10, TextOfSame DEF L
<1>11. ASSUME NEW name, NEW p \in Seq(L), NEW l \in L, l[1] = name, TextOf(p, name) = <<>>
       PROVE  TextOf(Append(p, l), name) = <<Seen(Unescape(Tail(l)))>> /\ Append(p, l) \in Seq(L)
  BY <1>11, TextOfFirst DEF L
<1>12. TextOf(p8, "UID") = << <<t.id>> >>
  <2>1. TextOf(p1, "UID") = <<>> /\ p1 \in Seq(L)
    BY <1>4, <1>9, <1>10
  <2>. HIDE DEF p1
  <2>2. TextOf(p2, "UID") = << <<t.id>> >> /\ p2 \in Seq(L)
    BY <1>4, <1>7, <1>11, <2>1
  <2>. HIDE DEF p2
  <2>3. TextOf(p3, "UID") = << <<t.id>> >> /\ p3 \in Seq(L)
    BY <1>4, <1>10, <2>2
  <2>. HIDE DEF p3
  <2>4. TextOf(p4, "UID") = << <<t.id>> >> /\ p4 \in Seq(L)
    BY <1>4, <1>10, <2>3
  <2>. HIDE DEF p4
  <2>5. TextOf(p5, "UID") = << <<t.id>> >> /\ p5 \in Seq(L)
    BY <1>6, <1>10, <2>4
  <2>. HIDE DEF p5
  <2>6. TextOf(p6, "UID") = << <<t.id>> >> /\ p6 \in Seq(L)
    BY <1>6, <1>10, <2>5
  <2>. HIDE DEF p6
  <2>7. TextOf(p7, "UID") = << <<t.id>> >> /\ p7 \in Seq(L)
    BY <1>4, <1>10, <2>6
  <2>. HIDE DEF p7
  <2>. QED
    BY <1>4, <1>10, <2>7
<1>13. TextOf(p8, "SUMMARY") = <<Seen(t.title)>>
  <2>1. TextOf(p1, "SUMMARY") = <<>> /\ p1 \in Seq(L)
    BY <1>4, <1>9, <1>10
  <2>. HIDE DEF p1
  <2>2. TextOf(p2, "SUMMARY") = <<>> /\ p2 \in Seq(L)
    BY <1>4, <1>10, <2>1
  <2>. HIDE DEF p2
  <2>3. TextOf(p3, "SUMMARY") = <<>> /\ p3 \in Seq(L)
    BY <1>4, <1>10, <2>2
  <2>. HIDE DEF p3
  <2>4. TextOf(p4, "SUMMARY") = <<>> /\ p4 \in Seq(L)
    BY <1>4, <1>10, <2>3
  <2>. HIDE DEF p4
  <2>5. TextOf(p5, "SUMMARY") = <<Seen(t.title)>> /\ p5 \in Seq(L)
    BY <1>6, <1>7, <1>11, <2>4
  <2>. HIDE DEF p5
  <2>6. TextOf(p6, "SUMMARY") = <<Seen(t.title)>> /\ p6 \in Seq(L)
    BY <1>6, <1>10, <2>5
  <2>. HIDE DEF p6
  <2>7. TextOf(p7, "SUMMARY") = <<Seen(t.title)>> /\ p7 \in Seq(L)
    BY <1>4, <1>10, <2>6
  <2>. HIDE DEF p7
  <2>. QED
    BY <1>4, <1>10, <2>7
<1>14. TextOf(p8, "DESCRIPTION") = IF t.description = <<>> THEN <<>> ELSE <<Seen(t.description)>>
  <2>1. TextOf(p1, "DESCRIPTION") = <<>> /\ p1 \in Seq(L)
    BY <1>4, <1>9, <1>10
  <2>. HIDE DEF p1
  <2>2. TextOf(p2, "DESCRIPTION") = <<>> /\ p2 \in Seq(L)
    BY <1>4, <1>10, <2>1
  <2>. HIDE DEF p2
  <2>3. TextOf(p3, "DESCRIPTION") = <<>> /\ p3 \in Seq(L)
    BY <1>4, <1>10, <2>2
  <2>. HIDE DEF p3
  <2>4. TextOf(p4, "DESCRIPTION") = <<>> /\ p4 \in Seq(L)
    BY <1>4, <1>10, <2>3
  <2>. HIDE DEF p4
  <2>5. TextOf(p5, "DESCRIPTION") = <<>> /\ p5 \in Seq(L)
    BY <1>6, <1>10, <2>4
  <2>. HIDE DEF p5
  <2>. DEFINE found == IF t.description = <<>> THEN <<>> ELSE <<Seen(t.description)>>
  <2>6. TextOf(p6, "DESCRIPTION") = found /\ p6 \in Seq(L)
    <3>1. CASE t.description = <<>>
      BY <2>5, <3>1
    <3>2. CASE t.description # <<>>
      <4>1. p6 = Append(p5, description) /\ found = <<Seen(t.description)>>
        BY <3>2
      <4>2. TextOf(Append(p5, description), "DESCRIPTION") = <<Seen(Unescape(Tail(description)))>> /\ Append(p5, description) \in Seq(L)
        BY <1>6, <1>11, <2>5
      <4>. QED
        BY <1>7, <4>1, <4>2
    <3>. QED
      BY <3>1, <3>2
  <2>. HIDE DEF p6, found
  <2>7. TextOf(p7, "DESCRIPTION") = found /\ p7 \in Seq(L)
    BY <1>4, <1>10, <2>6
  <2>. HIDE DEF p7
  <2>8. TextOf(p8, "DESCRIPTION") = found
    BY <1>4, <1>10, <2>7
  <2>. QED
    BY <2>8 DEF found
<1>. QED
  BY <1>8, <1>a, <1>12, <1>13, <1>14 DEF C

-----------------------------------------------------------------------------
(* What a reader finds in the lines of a feed before they are folded. *)
LEMMA FeedTexts ==
    ASSUME NEW f \in Feeds
    PROVE  /\ TextOf(BuildICalFeed(f), "UID") = [k \in DOMAIN f |-> <<f[k].id>>]
           /\ TextOf(BuildICalFeed(f), "SUMMARY") = [k \in DOMAIN f |-> Seen(f[k].title)]
           /\ TextOf(BuildICalFeed(f), "DESCRIPTION") = FlattenSeq([k \in DOMAIN f |->
                  IF f[k].description = <<>> THEN <<>> ELSE <<Seen(f[k].description)>>])
<1>. DEFINE seqs == [k \in DOMAIN f |-> Event(f[k])]
<1>1. DOMAIN f = 1..Len(f) /\ Len(f) \in Nat
  BY FeedsAreTasks
<1>2. seqs \in Seq(Seq(Lines(f))) /\ DOMAIN seqs = DOMAIN f /\ \A k \in DOMAIN f : seqs[k] = Event(f[k])
  BY <1>1, EventType
<1>3. BuildICalFeed(f) = FlattenSeq(seqs)
  BY DEF BuildICalFeed
<1>. HIDE DEF seqs
<1>4. ASSUME NEW name PROVE TextOf(BuildICalFeed(f), name) = FlattenSeq([k \in DOMAIN f |-> TextOf(Event(f[k]), name)])
  <2>. DEFINE g == Reader(f, name)
              L == Lines(f)
  <2>1. Replaces(g, L, TextsIn(f)) /\ \A r \in Seq(L) : TextOf(r, name) = Spread(g, r)
    BY ReaderIs
  <2>2. FlattenSeq(seqs) \in Seq(L) /\ \A k \in DOMAIN f : Event(f[k]) \in Seq(L)
    BY <1>2, FlattenType, EventType
  <2>. HIDE DEF g, L
  <2>3. Spread(g, FlattenSeq(seqs)) = FlattenSeq([k \in DOMAIN seqs |-> Spread(g, seqs[k])])
    BY <1>2, <2>1, SpreadFlatten DEF L
  <2>4. [k \in DOMAIN seqs |-> Spread(g, seqs[k])] = [k \in DOMAIN f |-> TextOf(Event(f[k]), name)]
    BY <1>2, <2>1, <2>2
  <2>. QED
    BY <1>3, <2>1, <2>2, <2>3, <2>4
<1>5. ASSUME NEW h, DOMAIN h = DOMAIN f, h = [k \in DOMAIN f |-> h[k]]
      PROVE  FlattenSeq([k \in DOMAIN f |-> <<h[k]>>]) = h
  <2>. DEFINE T == {h[k] : k \in DOMAIN f}
  <2>1. h \in Seq(T)
    BY <1>1, <1>5
  <2>. HIDE DEF T
  <2>2. FlattenSeq([k \in DOMAIN h |-> <<h[k]>>]) = h
    BY <2>1, FlattenOnes
  <2>. QED
    BY <1>5, <2>2
<1>6. TextOf(BuildICalFeed(f), "UID") = [k \in DOMAIN f |-> <<f[k].id>>]
  <2>. DEFINE h == [k \in DOMAIN f |-> <<f[k].id>>]
  <2>1. FlattenSeq([k \in DOMAIN f |-> <<h[k]>>]) = h
    <3>1. DOMAIN h = DOMAIN f /\ h = [k \in DOMAIN f |-> h[k]]
      OBVIOUS
    <3>. HIDE DEF h
    <3>. QED
      BY <1>5, <3>1
  <2>2. [k \in DOMAIN f |-> TextOf(Event(f[k]), "UID")] = [k \in DOMAIN f |-> <<h[k]>>]
    BY EventTexts
  <2>. HIDE DEF h
  <2>3. TextOf(BuildICalFeed(f), "UID") = h
    BY <1>4, <2>1, <2>2
  <2>. QED
    BY <2>3 DEF h
<1>7. TextOf(BuildICalFeed(f), "SUMMARY") = [k \in DOMAIN f |-> Seen(f[k].title)]
  <2>. DEFINE h == [k \in DOMAIN f |-> Seen(f[k].title)]
  <2>1. FlattenSeq([k \in DOMAIN f |-> <<h[k]>>]) = h
    <3>1. DOMAIN h = DOMAIN f /\ h = [k \in DOMAIN f |-> h[k]]
      OBVIOUS
    <3>. HIDE DEF h
    <3>. QED
      BY <1>5, <3>1
  <2>2. [k \in DOMAIN f |-> TextOf(Event(f[k]), "SUMMARY")] = [k \in DOMAIN f |-> <<h[k]>>]
    BY EventTexts
  <2>. HIDE DEF h
  <2>3. TextOf(BuildICalFeed(f), "SUMMARY") = h
    BY <1>4, <2>1, <2>2
  <2>. QED
    BY <2>3 DEF h
<1>8. [k \in DOMAIN f |-> TextOf(Event(f[k]), "DESCRIPTION")]
        = [k \in DOMAIN f |-> IF f[k].description = <<>> THEN <<>> ELSE <<Seen(f[k].description)>>]
  BY EventTexts
<1>. QED
  BY <1>4, <1>6, <1>7, <1>8

-----------------------------------------------------------------------------
(* The unfolding of lines, by the names of its parts. *)
JoinsOn(ls, j, k)  == j > k /\ \A i1 \in (k + 1)..j : ls[i1][1] = " "
Piece(ls, j, k)   == IF j = k THEN ls[j] ELSE IF JoinsOn(ls, j, k) THEN Tail(ls[j]) ELSE <<>>
Unfolded(ls, k)   == FlattenSeq([j \in DOMAIN ls |-> Piece(ls, j, k)])
Kept(ls, k)       == IF ls[k][1] = " " THEN <<>> ELSE <<Unfolded(ls, k)>>

LEMMA UnfoldIs == ASSUME NEW ls PROVE Unfold(ls) = FlattenSeq([k \in DOMAIN ls |-> Kept(ls, k)])
BY DEF Unfold, Kept, Unfolded, Piece, JoinsOn

LEMMA UnfoldType ==
    ASSUME NEW C, NEW ls \in Seq(Solids(C))
    PROVE  /\ \A k, j \in 1..Len(ls) : Piece(ls, j, k) \in Seq(C)
           /\ \A k \in 1..Len(ls) : Unfolded(ls, k) \in Seq(C) /\ Kept(ls, k) \in Seq(Seq(C))
           /\ \A k : [j \in DOMAIN ls |-> Piece(ls, j, k)] \in Seq(Seq(C))
           /\ [k \in DOMAIN ls |-> Kept(ls, k)] \in Seq(Seq(Seq(C)))
<1>1. Len(ls) \in Nat /\ DOMAIN ls = 1..Len(ls)
  OBVIOUS
<1>2. ASSUME NEW k, NEW j \in 1..Len(ls) PROVE Piece(ls, j, k) \in Seq(C)
  <2>1. ls[j] \in Seq(C) /\ ls[j] # <<>>
    BY DEF Solids
  <2>2. Tail(ls[j]) \in Seq(C)
    BY <2>1, HeadTailProperties
  <2>. QED
    BY <2>1, <2>2, EmptySeq DEF Piece
<1>3. ASSUME NEW k PROVE [j \in DOMAIN ls |-> Piece(ls, j, k)] \in Seq(Seq(C))
  BY <1>1, <1>2
<1>4. ASSUME NEW k PROVE Unfolded(ls, k) \in Seq(C)
  BY <1>3, FlattenType DEF Unfolded
<1>5. ASSUME NEW k PROVE Kept(ls, k) \in Seq(Seq(C))
  <2>. DEFINE U == Seq(C)
  <2>1. \A x \in U : <<x>> \in Seq(U)
    OBVIOUS
  <2>2. Unfolded(ls, k) \in U
    BY <1>4
  <2>3. <<>> \in Seq(U)
    OBVIOUS
  <2>. HIDE DEF U
  <2>4. Kept(ls, k) \in Seq(U)
    BY <2>1, <2>2, <2>3 DEF Kept
  <2>. QED
    BY <2>4 DEF U
<1>6. [k \in DOMAIN ls |-> Kept(ls, k)] \in Seq(Seq(Seq(C)))
  BY <1>1, <1>5
<1>. QED
  BY <1>2, <1>3, <1>4, <1>5, <1>6

LEMMA OneMore ==
    ASSUME NEW T, NEW a \in Seq(T), NEW b \in Seq(T), NEW n, n = Len(a), Len(b) = n + 1, \A j \in 1..n : b[j] = a[j]
    PROVE  b = Append(a, b[n + 1]) /\ b[n + 1] \in T
<1>1. n \in Nat /\ n + 1 \in 1..Len(b)
  OBVIOUS
<1>2. b[n + 1] \in T
  BY <1>1
<1>. DEFINE x == b[n + 1]
            c == Append(a, x)
<1>3. c \in Seq(T) /\ Len(c) = n + 1 /\ c[n + 1] = x /\ \A j \in 1..n : c[j] = a[j]
  <2>1. x \in T
    BY <1>2
  <2>. HIDE DEF x
  <2>. QED
    BY <1>1, <2>1, AppendProperties
<1>. HIDE DEF c
<1>4. ASSUME NEW j \in 1..(n + 1) PROVE c[j] = b[j]
  <2>1. j \in 1..n \/ j = n + 1
    BY <1>1
  <2>. QED
    BY <1>3, <2>1
<1>5. c = b
  BY <1>3, <1>4, SeqEqual
<1>. QED
  BY <1>2, <1>5 DEF c

LineAdded(C, ls, p, m, n) ==
    /\ m \in Seq(Solids(C)) /\ Len(m) = n + 1 /\ n \in Nat /\ m[n + 1] = p /\ \A k \in 1..n : m[k] = ls[k]
    /\ \A k \in 1..n : Unfolded(m, k) = Unfolded(ls, k) \o Piece(m, n + 1, k)
    /\ Unfolded(m, n + 1) = p

(* A line more, and what each line before it is then unfolded to. *)
LEMMA LineMore ==
    ASSUME NEW C, NEW ls \in Seq(Solids(C)), NEW p \in Solids(C), NEW m, m = Append(ls, p), NEW n, n = Len(ls)
    PROVE  LineAdded(C, ls, p, m, n)
<1>1. m \in Seq(Solids(C)) /\ Len(m) = n + 1 /\ n \in Nat /\ m[n + 1] = p /\ \A k \in 1..n : m[k] = ls[k]
  BY AppendProperties
<1>2. ASSUME NEW k \in 1..n, NEW j \in 1..n PROVE Piece(m, j, k) = Piece(ls, j, k)
  <2>1. \A i1 \in (k + 1)..j : i1 \in 1..n
    BY <1>1
  <2>2. JoinsOn(m, j, k) <=> JoinsOn(ls, j, k)
    BY <1>1, <2>1 DEF JoinsOn
  <2>. QED
    BY <1>1, <2>2 DEF Piece
<1>3. ASSUME NEW q \in Seq(Solids(C)), NEW k
      PROVE  /\ [j \in DOMAIN q |-> Piece(q, j, k)] \in Seq(Seq(C))
             /\ Len([j \in DOMAIN q |-> Piece(q, j, k)]) = Len(q)
             /\ \A j \in 1..Len(q) : [l \in DOMAIN q |-> Piece(q, l, k)][j] = Piece(q, j, k)
  <2>1. [j \in DOMAIN q |-> Piece(q, j, k)] \in Seq(Seq(C))
    BY UnfoldType
  <2>2. DOMAIN q = 1..Len(q) /\ Len(q) \in Nat
    OBVIOUS
  <2>. QED
    BY <2>1, <2>2
<1>4. ASSUME NEW k \in 1..n PROVE Unfolded(m, k) = Unfolded(ls, k) \o Piece(m, n + 1, k)
  <2>. DEFINE a == [j \in DOMAIN ls |-> Piece(ls, j, k)]
              b == [j \in DOMAIN m |-> Piece(m, j, k)]
  <2>1. a \in Seq(Seq(C)) /\ Len(a) = n /\ \A j \in 1..n : a[j] = Piece(ls, j, k)
    BY <1>3
  <2>2. b \in Seq(Seq(C)) /\ Len(b) = n + 1 /\ \A j \in 1..(n + 1) : b[j] = Piece(m, j, k)
    BY <1>1, <1>3
  <2>. HIDE DEF a, b
  <2>3. \A j \in 1..n : b[j] = a[j]
    BY <1>1, <1>2, <2>1, <2>2
  <2>4. b = Append(a, b[n + 1]) /\ b[n + 1] \in Seq(C)
    <3>1. n = Len(a)
      BY <2>1
    <3>. QED
      BY <2>1, <2>2, <2>3, <3>1, OneMore
  <2>5. FlattenSeq(Append(a, b[n + 1])) = FlattenSeq(a) \o b[n + 1]
    BY <2>1, <2>4, FlattenAppend
  <2>6. b[n + 1] = Piece(m, n + 1, k)
    BY <1>1, <2>2
  <2>. QED
    BY <2>4, <2>5, <2>6 DEF Unfolded, a, b
<1>5. Unfolded(m, n + 1) = p
  <2>. DEFINE b == [j \in DOMAIN m |-> Piece(m, j, n + 1)]
              a == SubSeq(b, 1, n)
  <2>1. b \in Seq(Seq(C)) /\ Len(b) = n + 1 /\ \A j \in 1..(n + 1) : b[j] = Piece(m, j, n + 1)
    BY <1>1, <1>3
  <2>. HIDE DEF b
  <2>2. b[n + 1] = p
    BY <1>1, <2>1 DEF Piece
  <2>3. ASSUME NEW j \in 1..n PROVE b[j] = <<>>
    <3>1. j # n + 1 /\ ~(j > n + 1) /\ j \in 1..(n + 1)
      BY <1>1
    <3>. QED
      BY <2>1, <3>1 DEF Piece, JoinsOn
  <2>4. a \in Seq(Seq(C)) /\ Len(a) = n /\ Append(a, b[n + 1]) = SubSeq(b, 1, n + 1)
    <3>1. n + 1 \in 1..Len(b) /\ (n + 1) - 1 = n
      BY <1>1, <2>1
    <3>. QED
      BY <2>1, <3>1, PrefixGrows
  <2>5. \A j \in 1..n : a[j] = <<>>
    BY <1>1, <2>1, <2>3
  <2>6. SubSeq(b, 1, n + 1) = b
    BY <2>1, SubSeqFull
  <2>. HIDE DEF a
  <2>7. FlattenSeq(a) = <<>>
    BY <2>4, <2>5, FlattenNothing
  <2>8. p \in Seq(C)
    BY DEF Solids
  <2>9. FlattenSeq(Append(a, p)) = FlattenSeq(a) \o p
    BY <2>4, <2>8, FlattenAppend
  <2>10. <<>> \o p = p
    BY <2>8, ConcatEmptySeq
  <2>. QED
    BY <2>2, <2>4, <2>6, <2>7, <2>9, <2>10 DEF Unfolded, b
<1>. QED
  BY <1>1, <1>4, <1>5 DEF LineAdded

Keeps(ls) == [k \in DOMAIN ls |-> Kept(ls, k)]

LEMMA KeepsAre ==
    ASSUME NEW C, NEW ls \in Seq(Solids(C)), NEW n, n = Len(ls)
    PROVE  /\ Keeps(ls) \in Seq(Seq(Seq(C))) /\ Len(Keeps(ls)) = n /\ \A k \in 1..n : Keeps(ls)[k] = Kept(ls, k)
           /\ Unfold(ls) = FlattenSeq(Keeps(ls)) /\ Unfold(ls) \in Seq(Seq(C))
<1>1. n \in Nat /\ DOMAIN ls = 1..n
  OBVIOUS
<1>2. Keeps(ls) \in Seq(Seq(Seq(C)))
  BY UnfoldType DEF Keeps
<1>3. Len(Keeps(ls)) = n /\ \A k \in 1..n : Keeps(ls)[k] = Kept(ls, k)
  BY <1>1, <1>2 DEF Keeps
<1>4. Unfold(ls) = FlattenSeq(Keeps(ls)) /\ FlattenSeq(Keeps(ls)) \in Seq(Seq(C))
  BY <1>2, FlattenType, UnfoldIs DEF Keeps
<1>. QED
  BY <1>2, <1>3, <1>4

(* A line that does not begin with a blank is one of its own. *)
LEMMA UnfoldStarts ==
    ASSUME NEW C, NEW ls \in Seq(Solids(C)), NEW p \in Solids(C), ~Continues(p), NEW m, m = Append(ls, p)
    PROVE  Unfold(m) = Append(Unfold(ls), p) /\ Unfold(ls) \in Seq(Seq(C))
<1>. DEFINE a == Keeps(ls)
            b == Keeps(m)
<1>0. PICK n : n = Len(ls)
  OBVIOUS
<1>1. /\ m \in Seq(Solids(C)) /\ Len(m) = n + 1 /\ n \in Nat /\ m[n + 1] = p /\ \A k \in 1..n : m[k] = ls[k]
      /\ \A k \in 1..n : Unfolded(m, k) = Unfolded(ls, k) \o Piece(m, n + 1, k)
      /\ Unfolded(m, n + 1) = p
  <2>1. LineAdded(C, ls, p, m, n)
    BY <1>0, LineMore
  <2>. QED
    BY <2>1 DEF LineAdded
<1>2. ASSUME NEW k \in 1..n PROVE Kept(m, k) = Kept(ls, k)
  <2>0. n \in Nat
    BY <1>1
  <2>1. Piece(m, n + 1, k) = <<>>
    <3>1. n + 1 # k /\ n + 1 \in (k + 1)..(n + 1)
      BY <2>0
    <3>. QED
      BY <1>1, <3>1 DEF Piece, JoinsOn, Continues
  <2>2. Unfolded(ls, k) \in Seq(C)
    BY <1>0, UnfoldType
  <2>3. Unfolded(ls, k) \o <<>> = Unfolded(ls, k)
    BY <2>2, ConcatEmptySeq
  <2>. QED
    BY <1>1, <2>1, <2>3 DEF Kept
<1>3. /\ a \in Seq(Seq(Seq(C))) /\ Len(a) = n /\ \A k \in 1..n : a[k] = Kept(ls, k)
      /\ Unfold(ls) = FlattenSeq(a) /\ Unfold(ls) \in Seq(Seq(C))
  BY <1>0, KeepsAre
<1>4. /\ b \in Seq(Seq(Seq(C))) /\ Len(b) = n + 1 /\ \A k \in 1..(n + 1) : b[k] = Kept(m, k)
      /\ Unfold(m) = FlattenSeq(b)
  BY <1>1, KeepsAre
<1>. HIDE DEF a, b
<1>a. n \in Nat
  BY <1>1
<1>5. b = Append(a, b[n + 1]) /\ b[n + 1] \in Seq(Seq(C))
  <2>1. \A k \in 1..n : k \in 1..(n + 1)
    BY <1>a
  <2>2. \A k \in 1..n : b[k] = a[k]
    BY <1>2, <1>3, <1>4, <2>1
  <2>. QED
    BY <1>3, <1>4, <2>2, OneMore
<1>6. b[n + 1] = <<p>>
  <2>1. n + 1 \in 1..(n + 1)
    BY <1>a
  <2>. QED
    BY <1>1, <1>4, <2>1 DEF Kept, Continues
<1>7. FlattenSeq(Append(a, b[n + 1])) = FlattenSeq(a) \o b[n + 1]
  BY <1>3, <1>5, FlattenAppend
<1>9. ASSUME NEW u \in Seq(Seq(C)) PROVE u \o <<p>> = Append(u, p)
  <2>1. p \in Seq(C)
    BY DEF Solids
  <2>. DEFINE D == Seq(C)
  <2>2. p \in D /\ u \in Seq(D)
    BY <2>1
  <2>. HIDE DEF D
  <2>. QED
    BY <2>2, AppendConcat
<1>. QED
  BY <1>3, <1>4, <1>5, <1>6, <1>7, <1>9

(* Sequences of at most one element each that end with one, and then nothing. *)
LEMMA LastKept ==
    ASSUME NEW T, NEW a \in Seq(Seq(T)), NEW j \in 1..Len(a), NEW x \in T, a[j] = <<x>>,
           \A k \in (j + 1)..Len(a) : a[k] = <<>>
    PROVE  /\ FlattenSeq(a) = Append(FlattenSeq(SubSeq(a, 1, j - 1)), x)
           /\ FlattenSeq(SubSeq(a, 1, j - 1)) \in Seq(T)
<1>. DEFINE p == SubSeq(a, 1, j - 1)
            one == <<x>>
<1>1. j \in 0..Len(a)
  OBVIOUS
<1>2. FlattenSeq(a) = FlattenSeq(SubSeq(a, 1, j))
  BY <1>1, FlattenSkips
<1>3. p \in Seq(Seq(T)) /\ Append(p, a[j]) = SubSeq(a, 1, j) /\ one \in Seq(T)
  <2>1. one \in Seq(T)
    OBVIOUS
  <2>. HIDE DEF one
  <2>. QED
    BY <2>1, PrefixGrows
<1>. HIDE DEF p
<1>4. FlattenSeq(Append(p, one)) = FlattenSeq(p) \o one /\ FlattenSeq(p) \in Seq(T)
  <2>. HIDE DEF one
  <2>. QED
    BY <1>3, FlattenAppend, FlattenType
<1>5. FlattenSeq(p) \o one = Append(FlattenSeq(p), x)
  BY <1>4, AppendConcat
<1>6. FlattenSeq(p) \in Seq(T) /\ FlattenSeq(a) = Append(FlattenSeq(p), x)
  BY <1>2, <1>3, <1>4, <1>5
<1>. QED
  BY <1>6 DEF p

GrownBy(C, before, after, s) ==
    \E u \in Seq(Seq(C)), w \in Seq(C) : before = Append(u, w) /\ after = Append(u, w \o s)

(* A line that begins with a blank goes on with the last one. *)
LEMMA UnfoldGoesOn ==
    ASSUME NEW C, NEW ls \in Seq(Solids(C)), NEW p \in Solids(C), Continues(p), NEW m, m = Append(ls, p),
           ls # <<>>, ~Continues(ls[1])
    PROVE  GrownBy(C, Unfold(ls), Unfold(m), Tail(p))
<1>. DEFINE a == Keeps(ls)
            b == Keeps(m)
<1>0. PICK n : n = Len(ls)
  OBVIOUS
<1>1. /\ m \in Seq(Solids(C)) /\ Len(m) = n + 1 /\ n \in Nat /\ m[n + 1] = p /\ \A k \in 1..n : m[k] = ls[k]
      /\ \A k \in 1..n : Unfolded(m, k) = Unfolded(ls, k) \o Piece(m, n + 1, k)
      /\ Unfolded(m, n + 1) = p
  <2>1. LineAdded(C, ls, p, m, n)
    BY <1>0, LineMore
  <2>. QED
    BY <2>1 DEF LineAdded
<1>2. n \in Nat /\ n # 0
  BY <1>0, EmptySeq
<1>. DEFINE S == {k \in 1..n : ~Continues(ls[k])}
<1>3. PICK j \in S : \A k \in S : j >= k
  <2>1. 1 \in S /\ S \in SUBSET Nat /\ \A k \in S : k <= n
    BY <1>2
  <2>. HIDE DEF S
  <2>. QED
    BY <1>2, <2>1, GreatestNumber
<1>4. j \in 1..n /\ ~Continues(ls[j]) /\ \A k \in (j + 1)..n : Continues(ls[k])
  <2>1. j \in 1..n /\ ~Continues(ls[j])
    BY <1>3
  <2>2. ASSUME NEW k \in (j + 1)..n, ~Continues(ls[k]) PROVE FALSE
    <3>1. k \in 1..n /\ ~(j >= k)
      BY <1>2, <2>1
    <3>2. k \in S
      BY <2>2, <3>1
    <3>. HIDE DEF S
    <3>. QED
      BY <1>3, <3>1, <3>2
  <2>. QED
    BY <2>1, <2>2
<1>. HIDE DEF S
<1>5. /\ a \in Seq(Seq(Seq(C))) /\ Len(a) = n /\ \A k \in 1..n : a[k] = Kept(ls, k)
      /\ Unfold(ls) = FlattenSeq(a)
  BY <1>0, KeepsAre
<1>6. /\ b \in Seq(Seq(Seq(C))) /\ Len(b) = n + 1 /\ \A k \in 1..(n + 1) : b[k] = Kept(m, k)
      /\ Unfold(m) = FlattenSeq(b)
  BY <1>1, KeepsAre
<1>. HIDE DEF a, b
<1>7. Continues(m[n + 1]) /\ \A k \in 1..n : Continues(m[k]) <=> Continues(ls[k])
  BY <1>1
<1>8. ASSUME NEW k \in 1..(j - 1) PROVE b[k] = a[k]
  <2>1. k \in 1..n /\ k \in 1..(n + 1) /\ n + 1 # k /\ j \in (k + 1)..(n + 1)
    BY <1>2, <1>4
  <2>2. ~Continues(m[j])
    BY <1>4, <1>7
  <2>3. Piece(m, n + 1, k) = <<>>
    BY <2>1, <2>2 DEF Piece, JoinsOn, Continues
  <2>4. Unfolded(ls, k) \in Seq(C)
    BY <1>0, <2>1, UnfoldType
  <2>5. Unfolded(ls, k) \o <<>> = Unfolded(ls, k)
    BY <2>4, ConcatEmptySeq
  <2>6. Unfolded(m, k) = Unfolded(ls, k)
    BY <1>1, <2>1, <2>3, <2>5
  <2>. QED
    BY <1>1, <1>5, <1>6, <2>1, <2>6 DEF Kept
<1>. DEFINE w == Unfolded(ls, j)
            v == w \o Tail(p)
<1>9. w \in Seq(C) /\ Tail(p) \in Seq(C) /\ v \in Seq(C)
  <2>1. w \in Seq(C)
    BY <1>0, <1>4, UnfoldType
  <2>2. p \in Seq(C) /\ p # <<>>
    BY DEF Solids
  <2>3. Tail(p) \in Seq(C)
    BY <2>2, HeadTailProperties
  <2>. QED
    BY <2>1, <2>3, ConcatProperties
<1>10. a[j] = <<w>> /\ \A k \in (j + 1)..n : a[k] = <<>>
  <2>1. \A k \in (j + 1)..n : k \in 1..n
    BY <1>2, <1>4
  <2>. QED
    BY <1>4, <1>5, <2>1 DEF Kept, Continues
<1>11. b[j] = <<v>> /\ \A k \in (j + 1)..(n + 1) : b[k] = <<>>
  <2>0. j \in 1..(n + 1) /\ n + 1 # j /\ n + 1 > j
    BY <1>2, <1>4
  <2>1. \A k \in (j + 1)..(n + 1) : k \in 1..(n + 1) /\ Continues(m[k])
    <3>1. \A k \in (j + 1)..(n + 1) : k \in 1..(n + 1) /\ (k = n + 1 \/ (k \in (j + 1)..n /\ k \in 1..n))
      BY <1>2, <1>4
    <3>. QED
      BY <1>4, <1>7, <3>1
  <2>2. Piece(m, n + 1, j) = Tail(p)
    BY <1>1, <2>0, <2>1 DEF Piece, JoinsOn, Continues
  <2>3. Unfolded(m, j) = v
    BY <1>1, <1>4, <2>2
  <2>4. ~Continues(m[j])
    BY <1>4, <1>7
  <2>. QED
    BY <1>6, <2>0, <2>1, <2>3, <2>4 DEF Kept, Continues
<1>. HIDE DEF w, v
<1>12. /\ FlattenSeq(a) = Append(FlattenSeq(SubSeq(a, 1, j - 1)), w)
       /\ FlattenSeq(SubSeq(a, 1, j - 1)) \in Seq(Seq(C))
  <2>. DEFINE T == Seq(C)
  <2>1. a \in Seq(Seq(T)) /\ w \in T /\ j \in 1..Len(a) /\ \A k \in (j + 1)..Len(a) : a[k] = <<>>
    BY <1>4, <1>5, <1>9, <1>10
  <2>. HIDE DEF T
  <2>2. /\ FlattenSeq(a) = Append(FlattenSeq(SubSeq(a, 1, j - 1)), w)
        /\ FlattenSeq(SubSeq(a, 1, j - 1)) \in Seq(T)
    BY <1>10, <2>1, LastKept
  <2>. QED
    BY <2>2 DEF T
<1>13. FlattenSeq(b) = Append(FlattenSeq(SubSeq(b, 1, j - 1)), v)
  <2>. DEFINE T == Seq(C)
  <2>0. j \in 1..(n + 1)
    BY <1>2, <1>4
  <2>1. b \in Seq(Seq(T)) /\ v \in T /\ j \in 1..Len(b) /\ \A k \in (j + 1)..Len(b) : b[k] = <<>>
    BY <1>6, <1>9, <1>11, <2>0
  <2>. HIDE DEF T
  <2>. QED
    BY <1>11, <2>1, LastKept
<1>14. SubSeq(a, 1, j - 1) = SubSeq(b, 1, j - 1)
  <2>1. 1 \in Int /\ j - 1 \in Int /\ \A k \in 1..(j - 1) : k \in 1..n
    BY <1>2, <1>4
  <2>2. \A k \in 1..(j - 1) : a[k] \in Seq(Seq(C)) /\ b[k] = a[k]
    BY <1>5, <1>8, <2>1
  <2>. QED
    BY <2>1, <2>2, SubSeqAgree
<1>. QED
  BY <1>5, <1>6, <1>9, <1>12, <1>13, <1>14 DEF v, GrownBy

-----------------------------------------------------------------------------
(* What is left of a sequence: its first element, and the rest. *)
LEMMA RestOf ==
    ASSUME NEW T, NEW s \in Seq(T), NEW m \in 0..Len(s), NEW r, r = SubSeq(s, m + 1, Len(s))
    PROVE  /\ r = <<>> => m = Len(s)
           /\ r # <<>> => /\ m < Len(s) /\ m + 1 \in 1..Len(s) /\ r[1] = s[m + 1] /\ s[m + 1] \in T
                          /\ Tail(r) = SubSeq(s, (m + 1) + 1, Len(s))
           /\ m < Len(s) => r # <<>>
<1>0. Len(s) \in Nat /\ m \in Nat /\ m <= Len(s)
  OBVIOUS
<1>1. CASE m = Len(s)
  <2>1. m + 1 \in Int /\ Len(s) < m + 1
    BY <1>0, <1>1
  <2>2. r = <<>>
    BY <1>0, <2>1, SubSeqEmpty
  <2>. QED
    BY <1>0, <1>1, <2>2
<1>2. CASE m # Len(s)
  <2>1. m + 1 \in 1..Len(s) /\ Len(s) \in (m + 1)..Len(s) /\ m < Len(s) /\ m + 1 <= Len(s)
    BY <1>0, <1>2
  <2>2. Tail(r) = SubSeq(s, (m + 1) + 1, Len(s))
    BY <2>1, HeadTailOfSubSeq
  <2>3. \A k \in (m + 1)..Len(s) : s[k] \in T
    BY <1>0, ElementOfSeq
  <2>4. Len(r) = Len(s) - (m + 1) + 1 /\ \A k \in 1..(Len(s) - (m + 1) + 1) : r[k] = s[(m + 1) + k - 1]
    <3>1. m + 1 \in Int /\ Len(s) \in Int
      BY <1>0
    <3>. QED
      BY <2>1, <2>3, <3>1, SubSeqProperties
  <2>5. 1 \in 1..(Len(s) - (m + 1) + 1) /\ (m + 1) + 1 - 1 = m + 1 /\ Len(s) - (m + 1) + 1 # 0
    BY <1>0, <2>1
  <2>6. r[1] = s[m + 1]
    BY <2>4, <2>5
  <2>7. r # <<>>
    <3>1. Len(<<>>) = 0
      OBVIOUS
    <3>. QED
      BY <2>4, <2>5, <3>1
  <2>8. s[m + 1] \in T
    BY <2>1, ElementOfSeq
  <2>. QED
    BY <1>2, <2>1, <2>2, <2>6, <2>7, <2>8
<1>. QED
  BY <1>1, <1>2

Upto(l, a) == SubSeq(l, 1, IF a < Len(l) THEN a ELSE Len(l))

(* How far the lines L are folded: m of them are, and a characters of the *)
(* next; ls are the lines made of them, and rest is what is left.         *)
Folding(L, C, m, rest, ls, a) ==
    /\ m \in 0..Len(L) /\ a \in Nat /\ rest = SubSeq(L, m + 1, Len(L))
    /\ ls \in Seq(Solids(C)) /\ (ls # <<>> => ~Continues(ls[1]))
    /\ a = 0 => Unfold(ls) = SubSeq(L, 1, m)
    /\ a > 0 => /\ m < Len(L) /\ ls # <<>>
                /\ Unfold(ls) = Append(SubSeq(L, 1, m), Upto(L[m + 1], a))

LEMMA StartersType ==
    ASSUME NEW C, NEW l \in Starters(C)
    PROVE  l \in Solids(C) /\ ~Continues(l) /\ l \in Seq(C) /\ Len(l) \in Nat \ {0} /\ SubSeq(l, 1, Len(l)) = l
<1>1. l \in Solids(C) /\ ~Continues(l) /\ l \in Seq(C) /\ l # <<>>
  BY DEF Starters, Solids
<1>2. Len(l) \in Nat \ {0}
  BY <1>1, EmptySeq
<1>. QED
  BY <1>1, <1>2, SubSeqFull

(* A line more keeps the first one. *)
LEMMA FirstStays ==
    ASSUME NEW T, NEW ls \in Seq(T), NEW p \in T, ls # <<>> => ~Continues(ls[1]), ls = <<>> => ~Continues(p)
    PROVE  Append(ls, p) \in Seq(T) /\ Append(ls, p) # <<>> /\ ~Continues(Append(ls, p)[1])
<1>1. Append(ls, p) \in Seq(T) /\ Append(ls, p) # <<>>
  BY AppendProperties
<1>2. CASE ls = <<>>
  BY <1>1, <1>2
<1>3. CASE ls # <<>>
  <2>1. Len(ls) \in Nat /\ Len(ls) # 0
    BY <1>3, EmptySeq
  <2>2. 1 \in 1..Len(ls)
    BY <2>1
  <2>3. Append(ls, p)[1] = ls[1]
    BY <2>2, AppendProperties
  <2>. QED
    BY <1>1, <1>3, <2>3
<1>. QED
  BY <1>2, <1>3

LEMMA FoldShort ==
    ASSUME NEW C, NEW L \in Seq(Starters(C)), NEW m, NEW rest, NEW ls, Folding(L, C, m, rest, ls, 0), rest # <<>>
    PROVE  Folding(L, C, m + 1, Tail(rest), Append(ls, rest[1]), 0)
<1>. DEFINE p == rest[1]
            ls2 == Append(ls, p)
<1>1. /\ m \in 0..Len(L) /\ rest = SubSeq(L, m + 1, Len(L)) /\ ls \in Seq(Solids(C))
      /\ (ls # <<>> => ~Continues(ls[1])) /\ Unfold(ls) = SubSeq(L, 1, m)
  BY DEF Folding
<1>2. /\ m < Len(L) /\ m + 1 \in 1..Len(L) /\ p = L[m + 1] /\ p \in Starters(C)
      /\ Tail(rest) = SubSeq(L, (m + 1) + 1, Len(L))
  BY <1>1, RestOf
<1>. HIDE DEF p, ls2
<1>3. p \in Solids(C) /\ ~Continues(p)
  BY <1>2, StartersType
<1>4. Unfold(ls2) = Append(Unfold(ls), p)
  <2>1. ls \in Seq(Solids(C))
    BY <1>1
  <2>2. ls2 = Append(ls, p)
    BY Zenon DEF ls2
  <2>. QED
    BY <2>1, <2>2, <1>3, UnfoldStarts, ZenonT(30)
<1>5. Append(SubSeq(L, 1, m), p) = SubSeq(L, 1, m + 1)
  <2>1. (m + 1) - 1 = m
    BY <1>1
  <2>. QED
    BY <1>2, <2>1, PrefixGrows
<1>6. ls2 \in Seq(Solids(C)) /\ ~Continues(ls2[1])
  BY <1>1, <1>3, FirstStays DEF ls2
<1>7. m + 1 \in 0..Len(L) /\ 0 \in Nat /\ ~(0 > 0)
  BY <1>2
<1>8. Folding(L, C, m + 1, Tail(rest), ls2, 0)
  BY <1>1, <1>2, <1>3, <1>4, <1>5, <1>6, <1>7 DEF Folding
<1>. QED
  BY <1>8 DEF ls2, p

LEMMA FoldFirst ==
    ASSUME NEW C, NEW L \in Seq(Starters(C)), NEW m, NEW rest, NEW ls, Folding(L, C, m, rest, ls, 0), rest # <<>>,
           NEW w \in Nat \ {0}, w < Len(rest[1])
    PROVE  Folding(L, C, m, rest, Append(ls, Upto(rest[1], w)), w)
<1>. DEFINE l == rest[1]
            p == Upto(l, w)
            ls2 == Append(ls, p)
<1>1. /\ m \in 0..Len(L) /\ rest = SubSeq(L, m + 1, Len(L)) /\ ls \in Seq(Solids(C))
      /\ (ls # <<>> => ~Continues(ls[1])) /\ Unfold(ls) = SubSeq(L, 1, m)
  BY DEF Folding
<1>2. m < Len(L) /\ m + 1 \in 1..Len(L) /\ l = L[m + 1] /\ l \in Starters(C) /\ w < Len(l)
  BY <1>1, RestOf
<1>. HIDE DEF l
<1>3. l \in Seq(C) /\ ~Continues(l) /\ Len(l) \in Nat
  BY <1>2, StartersType
<1>4. p \in Seq(C) /\ Len(p) = w /\ p[1] = l[1]
  <2>1. p = SubSeq(l, 1, w)
    BY <1>2 DEF Upto
  <2>2. \A k \in 1..w : l[k] \in C
    BY <1>2, <1>3
  <2>3. 1 <= w /\ w - 1 + 1 = w /\ 1 \in 1..w /\ 1 \in Int /\ w \in Int /\ 1 + 1 - 1 = 1
    OBVIOUS
  <2>4. SubSeq(l, 1, w) \in Seq(C) /\ Len(SubSeq(l, 1, w)) = w /\ \A k \in 1..w : SubSeq(l, 1, w)[k] = l[1 + k - 1]
    BY <2>2, <2>3, SubSeqProperties
  <2>. QED
    BY <2>1, <2>3, <2>4
<1>. HIDE DEF p, ls2
<1>5. p \in Solids(C) /\ ~Continues(p)
  <2>1. Len(<<>>) = 0
    OBVIOUS
  <2>2. p # <<>>
    BY <1>4, <2>1
  <2>. QED
    BY <1>3, <1>4, <2>2 DEF Solids, Continues
<1>6. Unfold(ls2) = Append(Unfold(ls), p)
  <2>1. ls \in Seq(Solids(C))
    BY <1>1
  <2>2. ls2 = Append(ls, p)
    BY Zenon DEF ls2
  <2>. QED
    BY <2>1, <2>2, <1>5, UnfoldStarts, ZenonT(30)
<1>7. ls2 \in Seq(Solids(C)) /\ ls2 # <<>> /\ ~Continues(ls2[1])
  BY <1>1, <1>5, FirstStays DEF ls2
<1>8. w \in Nat /\ w > 0 /\ w # 0
  OBVIOUS
<1>9. Unfold(ls2) = Append(SubSeq(L, 1, m), Upto(L[m + 1], w))
  BY <1>1, <1>2, <1>6 DEF p
<1>10. Folding(L, C, m, rest, ls2, w)
  BY <1>1, <1>2, <1>5, <1>7, <1>8, <1>9 DEF Folding
<1>. QED
  BY <1>10 DEF ls2, p, l

Slip(l, a, b) == SubSeq(l, a + 1, IF b < Len(l) THEN b ELSE Len(l))

Joins(C, x, s, y) == x \o s = y /\ s \in Seq(C) /\ x \in Seq(C)

(* The parts of a line, one after the other. *)
LEMMA UptoMore ==
    ASSUME NEW C, NEW l \in Seq(C), NEW a \in Nat \ {0}, NEW b \in Nat, a < b, a < Len(l),
           NEW s, s = Slip(l, a, b)
    PROVE  Joins(C, Upto(l, a), s, Upto(l, b))
<1>. DEFINE e == IF b < Len(l) THEN b ELSE Len(l)
<1>1. Len(l) \in Nat
  OBVIOUS
<1>2. e \in Nat /\ a < e /\ e <= Len(l)
  BY <1>1
<1>3. Upto(l, a) = SubSeq(l, 1, a) /\ Upto(l, b) = SubSeq(l, 1, e) /\ s = SubSeq(l, a + 1, e)
  BY DEF Upto, Slip
<1>. HIDE DEF e
<1>4. \A k \in 1..a : k \in 1..Len(l)
  BY <1>1, <1>2
<1>5. \A k \in (a + 1)..e : k \in 1..Len(l)
  BY <1>1, <1>2
<1>6. SubSeq(l, 1, a) \in Seq(C)
  <2>1. \A k \in 1..a : l[k] \in C
    BY <1>4, ElementOfSeq
  <2>. QED
    BY <2>1, SubSeqProperties
<1>7. SubSeq(l, a + 1, e) \in Seq(C)
  <2>1. \A k \in (a + 1)..e : l[k] \in C
    BY <1>5, ElementOfSeq
  <2>2. a + 1 \in Int /\ e \in Int
    BY <1>2
  <2>. QED
    BY <2>1, <2>2, SubSeqProperties
<1>8. SubSeq(l, 1, a) \o SubSeq(l, a + 1, e) = SubSeq(l, 1, e)
  <2>1. 1 \in 1..(Len(l) + 1) /\ a \in (1 - 1)..Len(l) /\ e \in a..Len(l)
    BY <1>1, <1>2
  <2>. QED
    BY <2>1, ConcatAdjacentSubSeq
<1>. QED
  BY <1>3, <1>6, <1>7, <1>8 DEF Joins

Spaced(C) == " " \in C

LEMMA FoldNext ==
    ASSUME NEW C, Spaced(C), NEW L \in Seq(Starters(C)), NEW m, NEW rest, NEW ls, NEW a \in Nat \ {0},
           Folding(L, C, m, rest, ls, a), NEW l, l = L[m + 1], NEW b \in Nat, a < b, a < Len(l), NEW s, s = Slip(l, a, b)
    PROVE  Folding(L, C, m, rest, Append(ls, <<" ">> \o s), b)
<1>. DEFINE p == <<" ">> \o s
            ls2 == Append(ls, p)
            v == SubSeq(L, 1, m)
<1>1. /\ m \in 0..Len(L) /\ rest = SubSeq(L, m + 1, Len(L)) /\ ls \in Seq(Solids(C))
      /\ ls # <<>> /\ ~Continues(ls[1]) /\ Unfold(ls) = Append(v, Upto(L[m + 1], a)) /\ m < Len(L)
  <2>1. a > 0
    OBVIOUS
  <2>. QED
    BY <2>1 DEF Folding
<1>2. m + 1 \in 1..Len(L) /\ l \in Starters(C)
  <2>1. m + 1 \in 1..Len(L)
    BY <1>1
  <2>. QED
    BY <2>1, ElementOfSeq
<1>. HIDE DEF v
<1>3. l \in Seq(C)
  BY <1>2, StartersType
<1>4. Upto(l, a) \o s = Upto(l, b) /\ s \in Seq(C) /\ Upto(l, a) \in Seq(C)
  <2>1. Joins(C, Upto(l, a), s, Upto(l, b))
    BY <1>3, UptoMore
  <2>. QED
    BY <2>1 DEF Joins
<1>5. p \in Seq(C) /\ p # <<>> /\ p[1] = " " /\ Tail(p) = s
  <2>1. p \in Seq(C) /\ Len(p) = 1 + Len(s) /\ Len(s) \in Nat
    BY <1>4, Prefixed DEF Spaced
  <2>2. p[1] = " " /\ Tail(p) = s
    BY <1>4, NamedLine DEF Spaced
  <2>3. p # <<>>
    <3>. HIDE DEF p
    <3>. QED
      BY <2>1, EmptySeq
  <2>. QED
    BY <2>1, <2>2, <2>3
<1>. HIDE DEF p, ls2
<1>6. p \in Solids(C) /\ Continues(p)
  BY <1>5 DEF Solids, Continues
<1>7. PICK u \in Seq(Seq(C)), w \in Seq(C) : Unfold(ls) = Append(u, w) /\ Unfold(ls2) = Append(u, w \o Tail(p))
  <2>1. ls2 = Append(ls, p)
    BY DEF ls2
  <2>2. GrownBy(C, Unfold(ls), Unfold(ls2), Tail(p))
    BY <1>1, <1>6, <2>1, UnfoldGoesOn
  <2>. QED
    BY <2>2 DEF GrownBy
<1>8. v \in Seq(Seq(C))
  <2>1. m + 1 - 1 = m /\ SubSeq(L, 1, m + 1 - 1) \in Seq(Starters(C))
    BY <1>1, <1>2, PrefixGrows
  <2>2. \A x \in Starters(C) : x \in Seq(C)
    BY StartersType
  <2>3. Starters(C) \subseteq Seq(C)
    BY <2>2
  <2>4. v \in Seq(Starters(C))
    BY <2>1 DEF v
  <2>5. Seq(Starters(C)) \subseteq Seq(Seq(C))
    <3>. DEFINE A == Starters(C)
                B == Seq(C)
    <3>1. A \subseteq B
      BY <2>3
    <3>. HIDE DEF A, B
    <3>2. Seq(A) \subseteq Seq(B)
      BY <3>1, SeqMonotonic
    <3>. QED
      BY <3>2 DEF A, B
  <2>. QED
    BY <2>4, <2>5
<1>9. u = v /\ w = Upto(l, a)
  <2>. DEFINE T == Seq(C)
              x == Upto(l, a)
  <2>1. u \in Seq(T) /\ v \in Seq(T) /\ w \in T /\ x \in T /\ Append(u, w) = Append(v, x)
    BY <1>1, <1>2, <1>4, <1>7, <1>8
  <2>. HIDE DEF T, x
  <2>2. u = v /\ w = x
    BY <2>1, AppendInjective
  <2>. QED
    BY <2>2 DEF x
<1>10. Unfold(ls2) = Append(v, Upto(l, b))
  BY <1>4, <1>5, <1>7, <1>9
<1>11. ls2 \in Seq(Solids(C)) /\ ls2 # <<>> /\ ~Continues(ls2[1])
  BY <1>1, <1>6, FirstStays DEF ls2
<1>12. b # 0
  BY <1>1
<1>13. Folding(L, C, m, rest, ls2, b)
  BY <1>1, <1>2, <1>10, <1>11, <1>12 DEF Folding, v
<1>. QED
  BY <1>13 DEF ls2, p

LEMMA FoldLast ==
    ASSUME NEW C, NEW L \in Seq(Starters(C)), NEW m, NEW rest, NEW ls, NEW a \in Nat \ {0},
           Folding(L, C, m, rest, ls, a), NEW l, l = L[m + 1], a >= Len(l)
    PROVE  Folding(L, C, m + 1, Tail(rest), ls, 0)
<1>1. /\ m \in 0..Len(L) /\ rest = SubSeq(L, m + 1, Len(L)) /\ ls \in Seq(Solids(C))
      /\ ls # <<>> /\ ~Continues(ls[1]) /\ Unfold(ls) = Append(SubSeq(L, 1, m), Upto(L[m + 1], a)) /\ m < Len(L)
  <2>1. a > 0
    OBVIOUS
  <2>. QED
    BY <2>1 DEF Folding
<1>2. /\ m + 1 \in 1..Len(L) /\ l \in Starters(C)
      /\ Tail(rest) = SubSeq(L, (m + 1) + 1, Len(L))
  BY <1>1, RestOf
<1>3. Upto(l, a) = l
  <2>2. SubSeq(l, 1, Len(l)) = l /\ Len(l) \in Nat
    BY <1>2, StartersType
  <2>. QED
    BY <2>2 DEF Upto
<1>4. Append(SubSeq(L, 1, m), L[m + 1]) = SubSeq(L, 1, m + 1)
  <2>1. (m + 1) - 1 = m
    BY <1>1
  <2>. QED
    BY <1>2, <2>1, PrefixGrows
<1>5. m + 1 \in 0..Len(L) /\ 0 \in Nat /\ ~(0 > 0)
  BY <1>2
<1>. QED
  BY <1>1, <1>2, <1>3, <1>4, <1>5 DEF Folding

LEMMA FoldEnds ==
    ASSUME NEW C, NEW L \in Seq(Starters(C)), NEW m, NEW ls, NEW a, Folding(L, C, m, <<>>, ls, a)
    PROVE  Unfold(ls) = L
<1>1. m \in 0..Len(L) /\ <<>> = SubSeq(L, m + 1, Len(L)) /\ a \in Nat
  BY DEF Folding
<1>2. m = Len(L) /\ ~(m < Len(L))
  BY <1>1, RestOf
<1>3. ~(a > 0)
  BY <1>2 DEF Folding
<1>4. a = 0
  BY <1>1, <1>3
<1>5. Unfold(ls) = SubSeq(L, 1, m)
  BY <1>4 DEF Folding
<1>. QED
  BY <1>2, <1>5, SubSeqFull

(* Nothing is folded yet. *)
LEMMA FoldBegins ==
    ASSUME NEW C, NEW L \in Seq(Starters(C)) PROVE Folding(L, C, 0, L, <<>>, 0)
<1>1. 0 \in 0..Len(L) /\ 0 \in Nat /\ ~(0 > 0) /\ 0 + 1 = 1
  OBVIOUS
<1>2. SubSeq(L, 1, Len(L)) = L /\ SubSeq(L, 1, 0) = <<>>
  BY SubSeqFull, SubSeqEmpty
<1>3. <<>> \in Seq(Solids(C))
  OBVIOUS
<1>4. Unfold(<<>>) = <<>>
  <2>1. Len(<<>>) = 0
    OBVIOUS
  <2>2. [k \in DOMAIN <<>> |-> Kept(<<>>, k)] = <<>>
    OBVIOUS
  <2>. QED
    BY <2>2, UnfoldIs, FlattenEmpty
<1>. QED
  BY <1>1, <1>2, <1>3, <1>4 DEF Folding

-----------------------------------------------------------------------------
LEMMA FeedStarts == ASSUME NEW f \in Feeds PROVE BuildICalFeed(f) \in Seq(Starters(Characters(f)))
<1>. DEFINE seqs == [k \in DOMAIN f |-> Event(f[k])]
            D == Starters(Characters(f))
<1>1. DOMAIN f = 1..Len(f) /\ Len(f) \in Nat
  BY FeedsAreTasks
<1>2. \A k \in DOMAIN f : Event(f[k]) \in Seq(D)
  BY EventTexts
<1>. HIDE DEF D
<1>3. seqs \in Seq(Seq(D))
  BY <1>1, <1>2
<1>. HIDE DEF seqs
<1>4. FlattenSeq(seqs) \in Seq(D)
  BY <1>3, FlattenType
<1>. QED
  BY <1>4 DEF BuildICalFeed, seqs, D

(* The folding of a feed is at some place of some line of it. *)
FeedInv ==
    feed # None => /\ feed \in Feeds
                   /\ \E m \in Nat : Folding(BuildICalFeed(feed), Characters(feed), m, left, out, at)

LEMMA LineIs ==
    ASSUME NEW C, NEW L \in Seq(Starters(C)), NEW m, Folding(L, C, m, left, out, at), left # <<>> \/ at > 0
    PROVE  left # <<>> /\ Line = L[m + 1] /\ Line = left[1] /\ Line \in Starters(C)
<1>1. m \in 0..Len(L) /\ left = SubSeq(L, m + 1, Len(L)) /\ (at > 0 => m < Len(L))
  BY DEF Folding
<1>2. left # <<>>
  BY <1>1, RestOf
<1>. QED
  BY <1>1, <1>2, RestOf DEF Line

LEMMA FoldingStays ==
    ASSUME FeedInv, Short \/ FirstPart \/ NextPart \/ LastPart PROVE FeedInv'
<1>. SUFFICES ASSUME feed # None PROVE FeedInv'
  BY DEF FeedInv, Short, FirstPart, NextPart, LastPart
<1>1. feed \in Feeds /\ feed' = feed /\ Width \in Nat /\ Width > 1
  BY CalendarAssumption DEF FeedInv, Short, FirstPart, NextPart, LastPart
<1>. DEFINE L == BuildICalFeed(feed)
            C == Characters(feed)
<1>2. PICK m \in Nat : Folding(L, C, m, left, out, at)
  BY DEF FeedInv
<1>3. L \in Seq(Starters(C)) /\ Spaced(C)
  BY <1>1, FeedStarts DEF Characters, Spaced
<1>. HIDE DEF L, C
<1>4. SUFFICES \E k \in Nat : Folding(L, C, k, left', out', at')
  BY <1>1 DEF FeedInv, L, C
<1>5. at \in Nat
  BY <1>2 DEF Folding
<1>6. left # <<>> /\ Line = L[m + 1] /\ Line = left[1] /\ Line \in Starters(C)
  <2>1. left # <<>> \/ at > 0
    BY DEF Short, FirstPart, NextPart, LastPart
  <2>. QED
    BY <1>2, <1>3, <2>1, LineIs
<1>7. Len(Line) \in Nat \ {0}
  BY <1>6, StartersType
<1>8. CASE Short
  <2>1. Folding(L, C, m, left, out, 0) /\ left' = Tail(left) /\ out' = Append(out, left[1]) /\ at' = 0
    BY <1>2, <1>6, <1>8 DEF Short
  <2>2. Folding(L, C, m + 1, Tail(left), Append(out, left[1]), 0)
    BY <1>3, <1>6, <2>1, FoldShort
  <2>. QED
    BY <2>1, <2>2
<1>9. CASE FirstPart
  <2>1. Folding(L, C, m, left, out, 0) /\ left' = left /\ out' = Append(out, Slice(0, Width)) /\ at' = Width /\ Len(Line) > Width
    BY <1>2, <1>9 DEF FirstPart
  <2>2. Slice(0, Width) = Upto(left[1], Width)
    BY <1>6 DEF Slice, Upto
  <2>3. Width \in Nat \ {0} /\ Width < Len(left[1])
    BY <1>1, <1>6, <1>7, <2>1
  <2>4. Folding(L, C, m, left, Append(out, Upto(left[1], Width)), Width)
    BY <1>3, <1>6, <2>1, <2>3, FoldFirst
  <2>. QED
    BY <2>1, <2>2, <2>4
<1>10. CASE NextPart
  <2>. DEFINE b == at + Width - 1
              s == Slice(at, b)
  <2>1. left' = left /\ out' = Append(out, <<" ">> \o s) /\ at' = b /\ at > 0 /\ at < Len(Line)
    BY <1>10 DEF NextPart
  <2>2. s = Slip(Line, at, b)
    BY DEF Slice, Slip
  <2>3. at \in Nat \ {0} /\ b \in Nat /\ at < b
    <3>1. at > 0
      BY <2>1
    <3>. QED
      BY <1>1, <1>5, <3>1
  <2>. HIDE DEF b, s
  <2>4. Folding(L, C, m, left, Append(out, <<" ">> \o s), b)
    BY <1>2, <1>3, <1>6, <2>1, <2>2, <2>3, FoldNext
  <2>. QED
    BY <2>1, <2>4
<1>11. CASE LastPart
  <2>1. left' = Tail(left) /\ out' = out /\ at' = 0 /\ at > 0 /\ at >= Len(Line)
    BY <1>11 DEF LastPart
  <2>2. at \in Nat \ {0}
    BY <1>5, <2>1
  <2>3. Folding(L, C, m + 1, Tail(left), out, 0)
    BY <1>2, <1>3, <1>6, <2>1, <2>2, FoldLast
  <2>. QED
    BY <2>1, <2>3
<1>. QED
  BY <1>8, <1>9, <1>10, <1>11

(* However the lines of a feed are folded, a reader finds in them the tasks    *)
(* of the feed: ids, titles and descriptions as they are, but for carriage     *)
(* returns.                                                                    *)
THEOREM FeedsAreSafe == FormatsSpec => []FeedSafety
<1>1. FormatsInit => FeedInv
  <2>1. ASSUME CalendarOff \/ CalendarInit, feed # None
        PROVE  feed \in Feeds /\ \E m \in Nat : Folding(BuildICalFeed(feed), Characters(feed), m, left, out, at)
    <3>1. feed \in Feeds /\ left = BuildICalFeed(feed) /\ out = <<>> /\ at = 0
      BY <2>1 DEF CalendarOff, CalendarInit
    <3>2. Folding(BuildICalFeed(feed), Characters(feed), 0, BuildICalFeed(feed), <<>>, 0)
      BY <3>1, FeedStarts, FoldBegins
    <3>. QED
      BY <3>1, <3>2
  <2>. QED
    BY <2>1 DEF FormatsInit, FeedInv
<1>2. FeedInv /\ [FormatsNext]_<<importVars, listVars, calendarVars>> => FeedInv'
  <2>. SUFFICES ASSUME FeedInv, [FormatsNext]_<<importVars, listVars, calendarVars>> PROVE FeedInv'
    OBVIOUS
  <2>1. CASE UNCHANGED <<feed, left, at, out>>
    BY <2>1 DEF FeedInv
  <2>2. CASE Short \/ FirstPart \/ NextPart \/ LastPart
    BY <2>2, FoldingStays
  <2>3. CASE UNCHANGED calendarVars
    BY <2>1, <2>3 DEF calendarVars
  <2>4. ASSUME NEW recurrence \in {"daily", "weekly", "monthly"}, Recur(recurrence) PROVE FeedInv'
    BY <2>1, <2>4 DEF Recur
  <2>. QED
    BY <2>2, <2>3, <2>4 DEF FormatsNext, CalendarNext
<1>3. FeedInv => FeedIsReadBack
  <2>. SUFFICES ASSUME FeedInv, feed # None, left = <<>>
                PROVE  /\ TextOf(Unfold(out), "UID") = [k \in DOMAIN feed |-> <<feed[k].id>>]
                       /\ TextOf(Unfold(out), "SUMMARY") = [k \in DOMAIN feed |-> Seen(feed[k].title)]
                       /\ TextOf(Unfold(out), "DESCRIPTION") = FlattenSeq([k \in DOMAIN feed |->
                              IF feed[k].description = <<>> THEN <<>> ELSE <<Seen(feed[k].description)>>])
    BY DEF FeedIsReadBack
  <2>. DEFINE L == BuildICalFeed(feed)
              C == Characters(feed)
  <2>1. PICK m \in Nat : Folding(L, C, m, <<>>, out, at)
    BY DEF FeedInv
  <2>2. feed \in Feeds /\ L \in Seq(Starters(C))
    BY FeedStarts DEF FeedInv
  <2>3. Unfold(out) = L
    <3>. HIDE DEF L, C
    <3>. QED
      BY <2>1, <2>2, FoldEnds
  <2>4. feed \in Feeds
    BY <2>2
  <2>. QED
    BY <2>3, <2>4, FeedTexts
<1>4. FormatsSpec => []FeedInv
  BY <1>1, <1>2, PTL DEF FormatsSpec
<1>5. CalendarTypeOK /\ LinesFit /\ FeedIsReadBack => FeedSafety
  BY DEF FeedSafety
<1>. QED
  BY <1>3, <1>4, <1>5, FeedLinesFit, PTL
=============================================================================
