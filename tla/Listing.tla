------------------------------ MODULE Listing ------------------------------
(* The lists of the API, page by page: parsePagination, getAllTasks,         *)
(* getAllTasksAdmin and listTrashedTasks of controllers/                     *)
(* tasks.controller.ts, parseSort, listTasks and listTrash of services/      *)
(* tasks.service.ts.                                                         *)
(*                                                                           *)
(* A reader asks for one page after the other while tasks are created, moved *)
(* to the trash, restored, purged and given another priority.  The live      *)
(* tasks are counted and cut with one aggregation, the trash and the list of *)
(* every task that admins have with two commands that run side by side.      *)
EXTENDS Integers, Sequences, FiniteSets, SequencesExt

CONSTANTS
    Tasks,          \* numbers in order of creation
    Existing,       \* those that are there at first
    Queries,        \* what the reader asks for: [list, sort, page, limit]
    DefaultLimit,   \* of each list: 10, 10 and 50
    MaxLimit,       \* 100
    MaxChanges,     \* bound: changes while the reader reads
    NaN             \* what parseInt makes of no number; no sort

ASSUME ListingAssumption ==
    /\ Tasks \subseteq Nat /\ IsFiniteSet(Tasks) /\ Existing \subseteq Tasks
    /\ DefaultLimit \in [{"live", "trash", "admin"} -> 1..MaxLimit] /\ MaxLimit \in Nat /\ MaxChanges \in Nat
    /\ NaN \notin Int
    /\ Queries \subseteq [list : {"live", "trash", "admin"}, page : Int \cup {NaN}, limit : Int \cup {NaN},
                          sort : [field : STRING, down : BOOLEAN] \cup {NaN}]

VARIABLES
    task,           \* the tasks: where they are, their priority, deletedAt
    query,          \* the reader's query
    page,           \* the page that is asked for
    part,           \* what has been answered of it: rows and total, or NaN
    got,            \* the tasks on the pages before, in order
    reader,         \* off, reading, done, or refused with status 400
    start,          \* history: what the list held when the reader began
    shifts,         \* history: how the list has changed since, and whether
                    \* rows were read that have no order
    changes         \* how often others have changed something

listVars == <<task, query, page, part, got, reader, start, shifts, changes>>

-----------------------------------------------------------------------------
Fields == {"createdAt", "priority"}     \* of SORT_FIELDS
NoPart == [rows |-> NaN, total |-> NaN]
Largest(a, b)  == IF a > b THEN a ELSE b
Smallest(a, b) == IF a < b THEN a ELSE b

(* Seeded fault: a limit of nothing stays nothing. *)
ParsePagination_Zero(raw) ==
    [page  |-> Largest(IF raw.page \in {NaN, 0} THEN 1 ELSE raw.page, 1),
     limit |-> Smallest(Largest(IF raw.limit = NaN THEN DefaultLimit[raw.list] ELSE raw.limit, 0), MaxLimit)]

ParsePagination(raw) ==
    [page  |-> Largest(IF raw.page \in {NaN, 0} THEN 1 ELSE raw.page, 1),
     limit |-> Smallest(Largest(IF raw.limit \in {NaN, 0} THEN DefaultLimit[raw.list] ELSE raw.limit, 1), MaxLimit)]

(* parseSort, or NaN: the query is refused if it asks for an order that way *)
ParseSort(sort) == IF sort # NaN /\ sort.field \in Fields THEN sort ELSE NaN
Order == IF ParseSort(query.sort) = NaN THEN [field |-> "createdAt", down |-> TRUE] ELSE query.sort

Shows(list, where) == where \in (IF list = "admin" THEN {"live", "trash"} ELSE {list})
Listed == {t \in Tasks : Shows(query.list, task[t].where)}
SortKey(t) == IF Order.field = "priority" THEN task[t].rank ELSE t

(* Seeded fault: tasks of one priority come in any order. *)
Before_Key(t, u) ==
    IF query.list = "trash" THEN task[t].at > task[u].at
    ELSE IF Order.down THEN SortKey(t) > SortKey(u) ELSE SortKey(t) < SortKey(u)

(* t stands before u: by the sort key and then by the id, but the trash has  *)
(* only deletedAt to go by                                                   *)
Before(t, u) ==
    IF query.list = "trash" THEN task[t].at > task[u].at
    ELSE IF SortKey(t) = SortKey(u) THEN (IF Order.down THEN t > u ELSE t < u)
    ELSE IF Order.down THEN SortKey(t) > SortKey(u) ELSE SortKey(t) < SortKey(u)

Sorted == {s \in SetToSeqs(Listed) : \A i, j \in DOMAIN s : Before(s[i], s[j]) => i < j}

FirstPage == ParsePagination(query).page
Limit     == ParsePagination(query).limit
Ceil(n, m) == (n + m - 1) \div m

(* Seeded fault: the first page skips a page. *)
Cut_Off(s) == SubSeq(s, page * Limit + 1, Smallest((page + 1) * Limit, Len(s)))

Cut(s) == SubSeq(s, (page - 1) * Limit + 1, Smallest(page * Limit, Len(s)))     \* $skip, $limit

ListOff == /\ task = <<>> /\ query = NaN /\ page = 1 /\ part = NoPart /\ got = <<>>
           /\ reader = "off" /\ start = {} /\ shifts = {} /\ changes = 0

ListInit ==
    /\ task \in [Tasks -> [where : {"new", "live", "trash"}, rank : {1, 2}, at : {0, 1, 2}]]
    /\ \A t \in Tasks : /\ (task[t].where = "new") = (t \notin Existing)
                        /\ (task[t].where = "trash") = (task[t].at # 0)
                        /\ task[t].where # "live" => task[t].rank = 1
    /\ query \in Queries
    /\ page = FirstPage
    /\ part = NoPart /\ got = <<>> /\ shifts = {} /\ changes = 0
    /\ start = Listed
    /\ reader = IF query.list = "live" /\ query.sort # NaN /\ ParseSort(query.sort) = NaN
                THEN "refused" ELSE "reading"

-----------------------------------------------------------------------------
(* listTasks: rows and total in one aggregation *)
ListTasks ==
    /\ reader = "reading" /\ query.list = "live" /\ part = NoPart
    /\ \E s \in Sorted : part' = [rows |-> Cut(s), total |-> Cardinality(Listed)]
    /\ UNCHANGED <<task, query, page, got, reader, start, shifts, changes>>

(* Two tasks in the trash with the same deletedAt: one bulk request gives it *)
(* to all its tasks.                                                         *)
Tied == query.list = "trash" /\ \E t, u \in Listed : t # u /\ task[t].at = task[u].at

(* listTrash and getAllTasksAdmin: find and countDocuments, in any order *)
FindPart ==
    /\ reader = "reading" /\ query.list # "live" /\ part.rows = NaN
    /\ \E s \in Sorted : part' = [part EXCEPT !.rows = Cut(s)]
    /\ shifts' = shifts \cup (IF Tied THEN {"tied"} ELSE {})
    /\ UNCHANGED <<task, query, page, got, reader, start, changes>>

CountAll ==
    /\ reader = "reading" /\ query.list # "live" /\ part.total = NaN
    /\ part' = [part EXCEPT !.total = Cardinality(Listed)]
    /\ UNCHANGED <<task, query, page, got, reader, start, shifts, changes>>

(* the reader goes on to the next page, up to totalPages *)
Turn ==
    /\ reader = "reading" /\ part.rows # NaN /\ part.total # NaN
    /\ got' = got \o part.rows /\ part' = NoPart
    /\ IF page < Ceil(part.total, Limit)
       THEN page' = page + 1 /\ UNCHANGED reader
       ELSE reader' = "done" /\ UNCHANGED page
    /\ UNCHANGED <<task, query, start, shifts, changes>>

-----------------------------------------------------------------------------
(* What others do meanwhile *)
Change(t, now) ==
    /\ changes < MaxChanges /\ changes' = changes + 1
    /\ task' = [task EXCEPT ![t] = now]
    /\ LET how  == CASE t \notin Listed /\ Shows(query.list, now.where) -> {"entered"}
                     [] t \in Listed /\ ~Shows(query.list, now.where)   -> {"left"}
                     [] t \in Listed /\ Shows(query.list, now.where) /\ Order.field = "priority" -> {"moved"}
                     [] OTHER -> {}
           torn == (part.rows = NaN) # (part.total = NaN)
       IN  shifts' = shifts \cup how \cup (IF torn THEN {"torn"} ELSE {})
    /\ UNCHANGED <<query, page, part, got, reader, start>>

Clock == 1 + Cardinality({t \in Tasks : task[t].at > 0}) + MaxChanges

Changed ==
    reader = "reading" /\ \E t \in Tasks :
        \/ task[t].where = "new"   /\ Change(t, [task[t] EXCEPT !.where = "live"])
        \/ task[t].where = "live"  /\ Change(t, [task[t] EXCEPT !.where = "trash", !.at = Clock])
        \/ task[t].where = "trash" /\ Change(t, [task[t] EXCEPT !.where = "live", !.at = 0])
        \/ task[t].where = "trash" /\ Change(t, [task[t] EXCEPT !.where = "gone", !.at = 0])
        \/ task[t].where = "live"  /\ Change(t, [task[t] EXCEPT !.rank = 3 - @])

ListNext == ListTasks \/ FindPart \/ CountAll \/ Turn \/ Changed

-----------------------------------------------------------------------------
(* Types: pages and limits are within bounds whatever the query says, and no *)
(* page has more rows than its limit.                                        *)
ListTypeOK ==
    /\ reader \in {"off", "reading", "done", "refused"}
    /\ reader # "off" => /\ page \in 1..Largest(FirstPage, Cardinality(Tasks)) /\ Limit \in 1..MaxLimit
                         /\ part.rows = NaN \/ Len(part.rows) <= Limit
                         /\ start \subseteq Tasks /\ shifts \subseteq {"entered", "left", "moved", "torn", "tied"}

(* A reader who turns all the pages, from the first on, has seen every task  *)
(* that was there all along: tasks that come in only push others to later    *)
(* pages.  It takes one that leaves or moves to hide another; or a change    *)
(* between the two commands, by which total counts too few; or a tie in the  *)
(* trash.                                                                    *)
PagesMissNothing ==
    reader = "done" /\ FirstPage = 1 /\ shifts \cap {"left", "moved", "torn", "tied"} = {} =>
        start \subseteq ToSet(got)

(* and has seen none twice if nothing came in or moved *)
PagesRepeatNothing ==
    reader # "off" /\ shifts \cap {"entered", "moved", "tied"} = {} =>
        Cardinality(ToSet(got)) = Len(got)

(* A list, read page by page while it changes. *)
ListSafety == ListTypeOK /\ PagesMissNothing /\ PagesRepeatNothing
=============================================================================
