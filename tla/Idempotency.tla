---------------------------- MODULE Idempotency ----------------------------
(* The Idempotency-Key protocol of createTask and importTasks                *)
(* (tasks.service.ts) over the Idempotency collection and its TTL index.     *)
(* The collection is that of one user: records are unique per (user, key).   *)
(*                                                                           *)
(* An attempt is one HTTP request; a client that saw no answer makes another *)
(* attempt with the same key, at any time, also while the first is running.  *)
(* Creating a task inserts one row; importing inserts the rows that          *)
(* normalizeImportRow accepts, none included, and insertMany is no           *)
(* transaction: the rows appear one by one.                                  *)
EXTENDS Naturals

CONSTANTS
    Attempts, Keys, NoKey, NoAttempt,
    MaxRows,        \* bound: rows of an import (MAX_IMPORT_ROWS in the code)
    MaxFailures     \* bound: attempts that die half-way

ASSUME IdempotencyAssumption ==
    /\ NoKey \notin Keys
    /\ NoAttempt \notin Attempts
    /\ MaxRows \in Nat /\ MaxFailures \in Nat

VARIABLES
    attempt,        \* local state of the handler that serves an attempt
    record,         \* the Idempotency collection
    inserted,       \* rows of each attempt that are in the Task collection
    failures        \* attempts that have died so far

vars == <<attempt, record, inserted, failures>>

-----------------------------------------------------------------------------
(* by: the attempt whose Idempotency.create stored the record, in the place  *)
(* of its _id.  age: history, how many records of this key the TTL index had *)
(* removed before.                                                           *)
Record == [st : {"none", "reserved", "stored"}, by : Attempts \cup {NoAttempt},
           body : Nat, age : Nat]

Answers == [kind : {"none", "own", "replay", "conflict", "error"},
            of : Attempts \cup {NoAttempt}, n : Nat]

(* held and age: history, the attempt's create succeeded, and when. *)
Attempt == [pc : {"new", "reserve", "lookup", "work", "done"},
            key : Keys \cup {NoKey}, n : Nat, held : BOOLEAN, age : Nat,
            answer : Answers]

NoAnswer == [kind |-> "none", of |-> NoAttempt, n |-> 0]

At(a, pc) == attempt[a].pc = pc
Key(a)    == attempt[a].key
Goto(a, pc) == attempt' = [attempt EXCEPT ![a].pc = pc]
Respond(a, kind, of, n) ==
    attempt' = [attempt EXCEPT ![a].pc = "done",
                               ![a].answer = [kind |-> kind, of |-> of, n |-> n]]

Init ==
    /\ attempt = [a \in Attempts |->
                    [pc |-> "new", key |-> NoKey, n |-> 0, held |-> FALSE,
                     age |-> 0, answer |-> NoAnswer]]
    /\ record = [k \in Keys |->
                    [st |-> "none", by |-> NoAttempt, body |-> 0, age |-> 0]]
    /\ inserted = [a \in Attempts |-> 0]
    /\ failures = 0

-----------------------------------------------------------------------------
(* A request comes in, with a key or without. *)
Arrive(a, k, n) ==
    /\ At(a, "new")
    /\ attempt' = [attempt EXCEPT ![a].pc = IF k = NoKey THEN "work" ELSE "reserve",
                                  ![a].key = k, ![a].n = n]
    /\ UNCHANGED <<record, inserted, failures>>

(* Seeded fault: a reservation without a body counts as absent. *)
Reserve_TakesOver(a) ==
    /\ At(a, "reserve")
    /\ record[Key(a)].st # "stored"
    /\ record' = [record EXCEPT ![Key(a)].st = "reserved", ![Key(a)].by = a]
    /\ attempt' = [attempt EXCEPT ![a].pc = "work", ![a].held = TRUE,
                                  ![a].age = record[Key(a)].age]
    /\ UNCHANGED <<inserted, failures>>

(* Idempotency.create with body null, under the unique (user, key) index *)
Reserve(a) ==
    /\ At(a, "reserve")
    /\ record[Key(a)].st = "none"
    /\ record' = [record EXCEPT ![Key(a)].st = "reserved", ![Key(a)].by = a]
    /\ attempt' = [attempt EXCEPT ![a].pc = "work", ![a].held = TRUE,
                                  ![a].age = record[Key(a)].age]
    /\ UNCHANGED <<inserted, failures>>

(* ... which throws the duplicate key error *)
Duplicate(a) ==
    /\ At(a, "reserve")
    /\ record[Key(a)].st # "none"
    /\ Goto(a, "lookup")
    /\ UNCHANGED <<record, inserted, failures>>

(* Seeded fault: a record without a body is replayed as an empty result. *)
Lookup_IgnoresNull(a) ==
    /\ At(a, "lookup")
    /\ LET r == record[Key(a)] IN
         \/ r.st # "none" /\ Respond(a, "replay", r.by, r.body)
         \/ r.st = "none" /\ Respond(a, "conflict", NoAttempt, 0)
    /\ UNCHANGED <<record, inserted, failures>>

(* Idempotency.findOne: replay a stored body, refuse otherwise.  The record  *)
(* may be gone by now, which is refused as well.                             *)
Lookup(a) ==
    /\ At(a, "lookup")
    /\ LET r == record[Key(a)] IN
         \/ r.st = "stored" /\ Respond(a, "replay", r.by, r.body)
         \/ r.st # "stored" /\ Respond(a, "conflict", NoAttempt, 0)
    /\ UNCHANGED <<record, inserted, failures>>

(* Task.create, or insertMany row by row *)
Insert(a) ==
    /\ At(a, "work")
    /\ inserted[a] < attempt[a].n
    /\ inserted' = [inserted EXCEPT ![a] = @ + 1]
    /\ UNCHANGED <<attempt, record, failures>>

(* Seeded fault: the body is written by key, whoever holds the record now. *)
Save_ByKey(a) ==
    /\ At(a, "work") /\ Key(a) # NoKey /\ inserted[a] = attempt[a].n
    /\ record' = [record EXCEPT ![Key(a)].st = "stored", ![Key(a)].body = inserted[a]]
    /\ Respond(a, "own", a, inserted[a])
    /\ UNCHANGED <<inserted, failures>>

(* Seeded fault: the answer goes out, record.save() is forgotten. *)
Save_Forgotten(a) ==
    /\ At(a, "work") /\ Key(a) # NoKey /\ inserted[a] = attempt[a].n
    /\ Respond(a, "own", a, inserted[a])
    /\ UNCHANGED <<record, inserted, failures>>

(* record.save(), an update by _id: it throws when the TTL index has removed *)
(* the record, also when another attempt has stored a new one since.         *)
Save(a) ==
    /\ At(a, "work") /\ Key(a) # NoKey /\ inserted[a] = attempt[a].n
    /\ \/ /\ record[Key(a)].by = a
          /\ record' = [record EXCEPT ![Key(a)].st = "stored",
                                      ![Key(a)].body = inserted[a]]
          /\ Respond(a, "own", a, inserted[a])
       \/ /\ record[Key(a)].by # a
          /\ Respond(a, "error", NoAttempt, 0)
          /\ UNCHANGED record
    /\ UNCHANGED <<inserted, failures>>

(* A request without a key is answered as soon as its rows are in. *)
AnswerUnkeyed(a) ==
    /\ At(a, "work") /\ Key(a) = NoKey /\ inserted[a] = attempt[a].n
    /\ Respond(a, "own", a, inserted[a])
    /\ UNCHANGED <<record, inserted, failures>>

(* The process dies, or a database call throws: nothing is undone. *)
Fail(a) ==
    /\ attempt[a].pc \in {"reserve", "lookup", "work"}
    /\ failures < MaxFailures
    /\ failures' = failures + 1
    /\ Respond(a, "error", NoAttempt, 0)
    /\ UNCHANGED <<record, inserted>>

(* Seeded fault: the TTL index covers finished records only. *)
Expire_StoredOnly(k) ==
    /\ record[k].st = "stored"
    /\ record' = [record EXCEPT ![k] = [st |-> "none", by |-> NoAttempt, body |-> 0,
                                        age |-> record[k].age + 1]]
    /\ UNCHANGED <<attempt, inserted, failures>>

(* The TTL index removes a record 24 hours after its createdAt, whatever the *)
(* state of the attempt that stored it.                                      *)
Expire(k) ==
    /\ record[k].st # "none"
    /\ record' = [record EXCEPT ![k] = [st |-> "none", by |-> NoAttempt, body |-> 0,
                                        age |-> record[k].age + 1]]
    /\ UNCHANGED <<attempt, inserted, failures>>

-----------------------------------------------------------------------------
Continue(a) ==
    \/ Reserve(a) \/ Duplicate(a) \/ Lookup(a)
    \/ Insert(a) \/ Save(a) \/ AnswerUnkeyed(a)

Next ==
    \/ \E a \in Attempts :
         \/ Continue(a)
         \/ Fail(a)
         \/ \E k \in Keys \cup {NoKey}, n \in 0..MaxRows : Arrive(a, k, n)
    \/ \E k \in Keys : Expire(k)

Spec == Init /\ [][Next]_vars

(* The event loop drives a started handler on, and the TTL monitor of the    *)
(* database comes round again and again.                                     *)
FairSpec == /\ Spec
            /\ \A a \in Attempts : WF_vars(Continue(a))
            /\ \A k \in Keys : WF_vars(Expire(k))

-----------------------------------------------------------------------------
(* Attempts, records and answers keep their shape, and no attempt inserts    *)
(* more rows than it was asked for.                                          *)
TypeOK ==
    /\ attempt \in [Attempts -> Attempt]
    /\ record \in [Keys -> Record]
    /\ inserted \in [Attempts -> Nat]
    /\ failures \in Nat
    /\ \A a \in Attempts : inserted[a] <= attempt[a].n

(* The unique index, the reservation before the work and the save by _id     *)
(* together: two attempts with one key both insert rows only when the TTL    *)
(* index removed a record between their reservations, whatever crashes.      *)
AtMostOncePerRecord ==
    \A a, b \in Attempts :
        (/\ a # b /\ Key(a) = Key(b) /\ Key(a) # NoKey
         /\ inserted[a] > 0 /\ inserted[b] > 0)
            => attempt[a].age # attempt[b].age

(* A replayed answer is the result of another attempt with the same key that *)
(* inserted everything it was asked to: never half an import, never another  *)
(* key's result, never a result of work still under way.                     *)
ReplayIsOriginal ==
    \A a \in Attempts : attempt[a].answer.kind = "replay" =>
        LET b == attempt[a].answer.of IN
        /\ b \in Attempts /\ b # a /\ Key(b) = Key(a)
        /\ attempt[a].answer.n = inserted[b]
        /\ inserted[b] = attempt[b].n

(* An attempt that was answered with its own result has left that result in  *)
(* the record, as long as the record exists: a client that lost the answer   *)
(* gets it by retrying.                                                      *)
SuccessIsReplayable ==
    \A a \in Attempts, k \in Keys :
        (attempt[a].answer.kind = "own" /\ record[k].by = a)
            => record[k].st = "stored" /\ record[k].body = inserted[a]

(* The reservation protocol: a key works once per record, what it replays is *)
(* the finished result of that work, and what was answered can be replayed.  *)
KeySafety == AtMostOncePerRecord /\ ReplayIsOriginal /\ SuccessIsReplayable

(* Liveness: a key that a dead attempt left reserved becomes usable again.   *)
KeyIsReleased ==
    \A k \in Keys : record[k].st = "reserved" ~> record[k].st # "reserved"

(* The attempts of one key behave as OncePerKey promises. *)
Promise == INSTANCE OncePerKey WITH
    ask    <- [a \in Attempts |-> [key |-> attempt[a].key, n |-> attempt[a].n]],
    holder <- [k \in Keys |-> record[k].by],
    held   <- {a \in Attempts : attempt[a].held},
    made   <- inserted,
    answer <- [a \in Attempts |-> attempt[a].answer]

KeepsPromise == Promise!ASpec
=============================================================================
