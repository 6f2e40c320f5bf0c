---------------------------- MODULE ClientBoard ----------------------------
(* The lists of the web client and its query cache: the deck and the trash,  *)
(* page by page, one task's page, and the panels (webhooks, shares,          *)
(* comments), one list each: hooks/use-tasks.ts, use-trash.ts,               *)
(* use-collab.ts, use-settings.ts, and the pages and components that use     *)
(* them.                                                                     *)
(*                                                                           *)
(* A mutation runs as the library runs it: onMutate, the request, then       *)
(* onSuccess or onError, then onSettled.  Requests overlap; one browser tab  *)
(* is the only client.  What a list shows of an item is whether it is there  *)
(* and its one toggle: done for a task, active for a webhook, editor for a   *)
(* share.  Search, tab and sort only make further query keys, as the page    *)
(* number does.                                                              *)
(*                                                                           *)
(* No name is shared with ClientAuth, the other half of the client.          *)
EXTENDS Naturals, FiniteSets

CONSTANTS
    Items,          \* numbers in order of creation
    Existing,       \* those that are there at first, or in the trash
    Mutations,      \* bound: mutations of a behaviour
    Limit,          \* items on a page
    MaxPage,        \* bound: page numbers of the deck
    NoPage,         \* undefined
    MaxMoves        \* bound: pages turned and requests that fail, together

ASSUME ClientBoardAssumption ==
    /\ Items \subseteq Nat /\ IsFiniteSet(Items) /\ Existing \subseteq Items
    /\ Limit \in Nat \ {0} /\ MaxPage \in Nat \ {0} /\ MaxMoves \in Nat

VARIABLES
    db,             \* the server
    view,           \* the query key that is shown
    prev,           \* placeholderData: what was shown before this key
    cache,          \* the query cache: data by key
    fresh,          \* and whether it is not invalidated
    fetch,          \* the request of each key
    mut,            \* the mutations
    toasts,         \* tasks with an Undo button on the screen
    moves,          \* pages turned, requests that failed
    seen,           \* history: the trash as fetched last, less what left it since
    strays          \* history: what happened that the client does not mend

boardVars == <<db, view, prev, cache, fresh, fetch, mut, toasts, moves, seen, strays>>

-----------------------------------------------------------------------------
Row   == {"no", "off", "on"}
Page  == [rows : [Items -> Row], total : Nat, pages : {1} \cup 0..Cardinality(Items), page : 1..MaxPage]
Panels == {"hooks", "shares", "comments"}
Key   == ({"deck", "trash"} \X (1..MaxPage)) \cup ((Panels \cup {"task"}) \X {1})
Trash == {k \in Key : k[1] = "trash"}
Paged == {"deck", "trash"}
TheTask == CHOOSE t \in Existing : \A u \in Existing : t >= u     \* whose page may be opened
NoFetch == [pc |-> "idle", data |-> NoPage]
NoRows == [rows |-> [t \in Items |-> "no"], total |-> 0, pages |-> 1, page |-> 1]

(* where an item is, and its toggle *)
Item  == [where : {"new", "live", "trash", "gone"}, on : BOOLEAN]

ASSUME NoPageAssumption == NoPage \notin Key \cup Page

(* a mutation; snap is the page that onMutate put aside, left the last page  *)
(* that was shown where it was begun, once the reader has gone from there    *)
Mutation == [op   : {"none", "create", "toggle", "edit", "remove", "restore", "purge", "clear", "add", "grant"},
             item : Items \cup {0}, key : Key \cup {NoPage}, snap : Page \cup {NoPage},
             to   : BOOLEAN, left : Key \cup {NoPage}, pc : {"idle", "sent", "ok", "no", "done"}]
NoMutation == [op |-> "none", item |-> 0, key |-> NoPage, snap |-> NoPage, to |-> FALSE, left |-> NoPage, pc |-> "idle"]

In(list)   == {t \in Items : db[t].where = IF list = "trash" THEN "trash" ELSE "live"}
Newer(t, S) == Cardinality({u \in S : u > t})

(* Seeded fault: a last page that is full counts as one more. *)
Ceil_Floor(n) == n \div Limit + 1
Ceil(n)    == (n + Limit - 1) \div Limit

(* the answer to a GET of key k; a panel's list has no pages *)
Listing(k) ==
    LET S == In(k[1])
        on(t) == CASE k[1] \in Paged -> Newer(t, S) \in ((k[2] - 1) * Limit)..(k[2] * Limit - 1)
                   [] k[1] = "task"  -> t = TheTask
                   [] OTHER          -> TRUE
    IN  [rows  |-> [t \in Items |-> IF t \in S /\ on(t) THEN (IF db[t].on THEN "on" ELSE "off") ELSE "no"],
         total |-> Cardinality(S), pages |-> IF k[1] \in Paged THEN Ceil(Cardinality(S)) ELSE 1, page |-> k[2]]

Shown      == IF cache[view] # NoPage THEN cache[view] ELSE prev
OnPage(d)  == IF d = NoPage THEN {} ELSE {t \in Items : d.rows[t] # "no"}
Stray(S)   == strays' = strays \cup S
If(x, b)   == IF b THEN {x} ELSE {}
Move       == moves < MaxMoves /\ moves' = moves + 1
Minus(n)   == IF n = 0 THEN 0 ELSE n - 1

BoardInit ==
    /\ view \in {k \in Key : k[2] = 1} /\ prev = NoPage
    /\ \E S \in IF view[1] \in Paged THEN SUBSET Existing ELSE {Existing} :
          db = [t \in Items |-> [where |-> IF t \in S THEN "live" ELSE IF t \in Existing THEN "trash" ELSE "new", on |-> FALSE]]
    /\ cache = [k \in Key |-> NoPage] /\ fresh = [k \in Key |-> TRUE]
    /\ fetch = [k \in Key |-> IF k = view THEN [NoFetch EXCEPT !.pc = "sent"] ELSE NoFetch]
    /\ mut = [m \in Mutations |-> NoMutation]
    /\ toasts = {} /\ moves = 0
    /\ seen = [k \in Trash |-> {}] /\ strays = {}

-----------------------------------------------------------------------------
(* The reducers of use-tasks.ts, on a page or on undefined *)
Patch(d, t, to) ==
    IF d = NoPage \/ t \notin OnPage(d) THEN d ELSE [d EXCEPT !.rows[t] = IF to THEN "on" ELSE "off"]
Drop(d, t) ==
    IF d = NoPage THEN d ELSE [d EXCEPT !.rows[t] = "no", !.total = Minus(@)]
Prepend(d, t, to) ==
    IF d = NoPage \/ d.page # 1 THEN d
    ELSE [d EXCEPT !.rows[t] = IF to THEN "on" ELSE "off", !.total = @ + 1]

(* setQueryData: data that is set counts as current *)
SetData(k, d) ==
    /\ cache' = [cache EXCEPT ![k] = d]
    /\ fresh' = [fresh EXCEPT ![k] = fresh[k] \/ d # NoPage]

-----------------------------------------------------------------------------
(* A fetch is answered with what the server has then, and arrives later. *)
Read(k) ==
    /\ fetch[k].pc = "sent"
    /\ fetch' = [fetch EXCEPT ![k] = [pc |-> "read", data |-> Listing(k)]]
    /\ UNCHANGED <<db, view, prev, cache, fresh, mut, toasts, moves, seen, strays>>

Arrive(k) ==
    /\ fetch[k].pc = "read"
    /\ cache' = [cache EXCEPT ![k] = fetch[k].data] /\ fresh' = [fresh EXCEPT ![k] = TRUE]
    /\ fetch' = [fetch EXCEPT ![k] = NoFetch]
    /\ prev' = IF k = view THEN NoPage ELSE prev
    /\ seen' = IF k \in Trash THEN [seen EXCEPT ![k] = OnPage(fetch[k].data)] ELSE seen
    /\ UNCHANGED <<db, view, mut, toasts, moves, strays>>

(* it fails, and so does its retry *)
FetchFails(k) ==
    /\ fetch[k].pc # "idle" /\ Move /\ Stray({"unread"})
    /\ fetch' = [fetch EXCEPT ![k] = NoFetch]
    /\ UNCHANGED <<db, view, prev, cache, fresh, mut, toasts, seen>>

(* A key comes on the screen: it is fetched if it has no data, or data that  *)
(* is invalidated or (old) older than staleTime.                             *)
Show(k, placeholder, old) ==
    /\ Move /\ view' = k /\ prev' = IF cache[k] = NoPage THEN placeholder ELSE NoPage
    /\ fetch' = IF fetch[k].pc = "idle" /\ (cache[k] = NoPage \/ ~fresh[k] \/ old)
                THEN [fetch EXCEPT ![k].pc = "sent"] ELSE fetch

(* The pager looks at the page that is shown, and moves from the page that   *)
(* was asked for last.                                                       *)
NextPage(old) ==
    /\ view[1] \in Paged /\ OnPage(Shown) # {} /\ Shown.page < Shown.pages
    /\ view[2] < MaxPage
    /\ Show(<<view[1], view[2] + 1>>, Shown, old)
    /\ Stray(If("twice", cache[view] = NoPage))
    /\ UNCHANGED <<db, cache, fresh, mut, toasts, seen>>

PrevPage(old) ==
    /\ view[1] \in Paged /\ OnPage(Shown) # {} /\ Shown.page > 1 /\ Shown.pages > 1
    /\ Show(<<view[1], view[2] - 1>>, Shown, old)
    /\ Stray(If("twice", cache[view] = NoPage))
    /\ UNCHANGED <<db, cache, fresh, mut, toasts, seen>>

(* another page of the application: a list starts at page 1 *)
Go(k, old) ==
    /\ k[2] = 1 /\ k[1] # view[1] /\ {k[1], view[1]} \cap Panels = {}
    /\ k[1] = "task" => view[1] = "deck" /\ TheTask \in OnPage(Shown)
    /\ Show(k, NoPage, old)
    /\ mut' = [m \in Mutations |-> IF mut[m].pc \in {"idle", "done"} \/ mut[m].left # NoPage THEN mut[m]
                                   ELSE [mut[m] EXCEPT !.left = view]]
    /\ UNCHANGED <<db, cache, fresh, toasts, seen, strays>>

-----------------------------------------------------------------------------
(* Only the last of several deletions shows its Undo button: to says so.     *)
Start(m, op, t, to, key, snap) ==
    mut' = [n \in Mutations |->
              IF n = m
              THEN [op |-> op, item |-> t, key |-> key, snap |-> snap, to |-> to, left |-> NoPage, pc |-> "sent"]
              ELSE IF op = "remove" /\ mut[n].op = "remove" THEN [mut[n] EXCEPT !.to = FALSE] ELSE mut[n]]

Overlap(m) == If("overlap", \E n \in Mutations \ {m} : mut[n].pc \in {"sent", "ok", "no"})

(* onMutate: what is being fetched for this list is thrown away, the page is *)
(* put aside and changed.  A list that was still loading is not asked for    *)
(* again before onSettled, and the trash not even then.                      *)
Optimistic(m, op, t, to, d) ==
    /\ Start(m, op, t, to, view, cache[view])
    /\ fetch' = [fetch EXCEPT ![view] = NoFetch]
    /\ SetData(view, d)
    /\ Stray(If("cancelled", view \in Trash /\ cache[view] = NoPage)
             \cup Overlap(m))
    /\ UNCHANGED <<db, view, prev, toasts, moves, seen>>

Fresh(m) == mut[m].pc = "idle" /\ \A n \in Mutations : n < m => mut[n].pc # "idle"
Free(ops) == \A n \in Mutations : mut[n].op \notin ops \/ mut[n].left # NoPage      \* no isPending

(* a task's box *)
Toggle(m, t) ==
    /\ Fresh(m) /\ view[1] = "deck" /\ t \in OnPage(Shown)
    /\ LET to == Shown.rows[t] = "off" IN Optimistic(m, "toggle", t, to, Patch(cache[view], t, to))

(* a webhook's switch *)
Update(m, t) ==
    /\ Fresh(m) /\ view[1] = "hooks" /\ t \in OnPage(Shown)
    /\ LET to == Shown.rows[t] = "off" IN Optimistic(m, "toggle", t, to, Patch(cache[view], t, to))

(* a task goes to the trash *)
Remove(m, t) ==
    /\ Fresh(m) /\ view[1] = "deck" /\ t \in OnPage(Shown)
    /\ Optimistic(m, "remove", t, TRUE, Drop(cache[view], t))

(* a webhook is deleted *)
DeleteWebhook(m, t) ==
    /\ Fresh(m) /\ view[1] = "hooks" /\ t \in OnPage(Shown)
    /\ Optimistic(m, "remove", t, FALSE, Drop(cache[view], t))

(* a share is revoked: one after the other *)
RevokeShare(m, t) ==
    /\ Fresh(m) /\ view[1] = "shares" /\ t \in OnPage(Shown) /\ Free({"remove"})
    /\ Optimistic(m, "remove", t, FALSE, Drop(cache[view], t))

(* the trash: restore a task, or delete it for good *)
Bulk(m, t, op) ==
    /\ Fresh(m) /\ view \in Trash /\ t \in OnPage(Shown) /\ op \in {"restore", "purge"}
    /\ Optimistic(m, op, t, FALSE, Drop(cache[view], t))

Unused(t) == db[t].where = "new" /\ \A n \in Mutations : mut[n].op = "none" \/ mut[n].item # t

(* a comment is shown at once, under a temporary id *)
AddComment(m, t) ==
    /\ Fresh(m) /\ view[1] = "comments" /\ Unused(t) /\ Free({"add"})
    /\ Optimistic(m, "add", t, FALSE, Prepend(IF cache[view] = NoPage THEN NoRows ELSE cache[view], t, FALSE))

Plain(m, op, t, to, key) ==
    /\ Start(m, op, t, to, key, NoPage) /\ Stray(Overlap(m))
    /\ UNCHANGED <<db, view, prev, cache, fresh, fetch, toasts, moves, seen>>

(* a new task is shown when the server has it; the dialog is there again     *)
(* when its last request is answered                                         *)
Create(m, t) ==
    /\ Fresh(m) /\ view[1] = "deck" /\ Unused(t) /\ Free({"create", "edit"})
    /\ Plain(m, "create", t, FALSE, view)

(* a new webhook, active from the start *)
AddWebhook(m, t) ==
    /\ Fresh(m) /\ view[1] = "hooks" /\ Unused(t) /\ Free({"create"})
    /\ Plain(m, "create", t, TRUE, view)

(* a share, new or with another role *)
Grant(m, t, to) ==
    /\ Fresh(m) /\ view[1] = "shares" /\ Free({"grant"})
    /\ Plain(m, "grant", t, to, view)

(* the task dialog sends the whole form *)
Edit(m, t, to) ==
    /\ Fresh(m) /\ view[1] = "deck" /\ t \in OnPage(Shown) /\ Free({"create", "edit"})
    /\ to # (Shown.rows[t] = "on")
    /\ Plain(m, "edit", t, to, view)

(* The page of a task has the deck's mutations, but with filters of its own, *)
(* whose key has no data; nothing makes its own data stale.                  *)
EditHere(m, to) ==
    /\ Fresh(m) /\ view[1] = "task" /\ TheTask \in OnPage(Shown) /\ Free({"edit"})
    /\ to # (Shown.rows[TheTask] = "on")
    /\ Plain(m, "edit", TheTask, to, NoPage)

TrashHere(m) ==
    /\ Fresh(m) /\ view[1] = "task" /\ TheTask \in OnPage(Shown)
    /\ Plain(m, "remove", TheTask, FALSE, NoPage)

Clear(m) ==
    /\ Fresh(m) /\ view \in Trash /\ Shown # NoPage /\ Shown.total > 0
    /\ Plain(m, "clear", 0, FALSE, view)

(* Undo: the mutation of the trash, but with the filters of the deck, whose  *)
(* key in the trash has no data                                              *)
Undo(m, t) ==
    /\ Fresh(m) /\ view[1] = "deck" /\ t \in toasts
    /\ Start(m, "restore", t, FALSE, NoPage, NoPage)
    /\ toasts' = toasts \ {t} /\ Stray({"undone"} \cup Overlap(m))
    /\ UNCHANGED <<db, view, prev, cache, fresh, fetch, moves, seen>>

-----------------------------------------------------------------------------
(* what the request asks of the server, and when the server refuses *)
List(r) == IF r.key = NoPage THEN "deck" ELSE r.key[1]
Target(r) == IF r.op = "clear" THEN In("trash") ELSE {r.item}
Allowed(r) ==
    CASE r.op \in {"create", "add"}     -> db[r.item].where = "new"
      [] r.op \in {"toggle", "edit", "remove"} -> db[r.item].where = "live"
      [] OTHER                          -> TRUE                  \* a bulk matches what it can
Applied(r) ==
    [t \in Items |->
        IF t \notin Target(r) \/ ~Allowed(r) THEN db[t]
        ELSE CASE r.op \in {"create", "add", "grant"}  -> [where |-> "live", on |-> r.to]
               [] r.op \in {"toggle", "edit"} -> [db[t] EXCEPT !.on = r.to]
               [] r.op = "remove"  -> [db[t] EXCEPT !.where = IF List(r) \in Panels THEN "gone" ELSE "trash"]
               [] r.op = "restore" -> [db[t] EXCEPT !.where = IF @ = "trash" THEN "live" ELSE @]
               [] OTHER            -> [db[t] EXCEPT !.where = IF @ = "trash" THEN "gone" ELSE @]]

(* A page of the trash but k has, or is about to have, a task of S. *)
Ghosts(S, k) ==
    \E j \in Trash : \/ S \cap OnPage(fetch[j].data) # {}
                     \/ j # k /\ S \cap OnPage(cache[j]) # {}

(* the key the hook has when the answer comes: of the page shown last there *)
Latest(r) == IF r.left # NoPage THEN r.left ELSE view

Shrunk == If("shrunk", Ceil(Cardinality({t \in Items : db'[t].where = "live"})) < Ceil(Cardinality(In("deck"))))

Serve(m) ==
    /\ mut[m].pc = "sent"
    /\ db' = Applied(mut[m])
    /\ mut' = [mut EXCEPT ![m].pc = IF Allowed(mut[m]) THEN "ok" ELSE "no"]
    /\ Stray(Shrunk \cup If("raced", Ghosts(Target(mut[m]), IF mut[m].op = "clear" THEN Latest(mut[m]) ELSE NoPage)))
    /\ seen' = IF mut[m].op \in {"restore", "purge", "clear"} THEN [k \in Trash |-> seen[k] \ Target(mut[m])] ELSE seen
    /\ UNCHANGED <<view, prev, cache, fresh, fetch, toasts, moves>>

(* the request fails, after or before the server has applied it *)
Fail(m) ==
    /\ mut[m].pc = "sent" /\ Move
    /\ mut' = [mut EXCEPT ![m].pc = "no"]
    /\ \/ UNCHANGED <<db, strays>>
       \/ db' = Applied(mut[m]) /\ Stray({"lost"})
    /\ UNCHANGED <<view, prev, cache, fresh, fetch, toasts, seen>>

-----------------------------------------------------------------------------
(* The lists a mutation invalidates: its own, but never the trash. *)
Stale(r) == {k \in Key : k[1] = IF List(r) \in Panels THEN List(r) ELSE "deck"}

(* invalidateQueries: data of these lists is out of date; the one that is    *)
(* shown is fetched anew, unless it is being fetched for the first time.     *)
(* What is in flight for another one is left to arrive.                      *)
Invalidate(r, c, f, S) ==
    /\ fresh' = [k \in Key |-> f[k] /\ k \notin Stale(r)]
    /\ fetch' = IF view \in Stale(r) /\ (c[view] # NoPage \/ fetch[view].pc = "idle")
                THEN [fetch EXCEPT ![view] = [NoFetch EXCEPT !.pc = "sent"]] ELSE fetch
    /\ Stray(S \cup If("raced", \E k \in Stale(r) : fetch'[k].pc = "read")
             \cup If("raced", \E k \in Stale(r) \ {view} : fetch'[k].pc = "sent"))

(* onSuccess: what the answer changes in the cache *)
Shows(r) ==
    CASE r.op = "create" /\ List(r) = "deck" -> [cache EXCEPT ![Latest(r)] = Prepend(@, r.item, r.to)]
      [] r.op = "edit" /\ r.key # NoPage -> [cache EXCEPT ![Latest(r)] = Patch(@, r.item, r.to)]
      [] r.op = "clear" -> [cache EXCEPT ![Latest(r)] = IF @ = NoPage THEN @
                              ELSE [@ EXCEPT !.rows = [t \in Items |-> "no"], !.total = 0, !.pages = 0]]
      [] OTHER -> cache

Leftover(r) == If("raced", r.op = "clear" /\ Ghosts(Items \ In("trash"), Latest(r)))

(* Seeded fault: the trash waits for its lists to be invalidated. *)
Succeed_Lazy(m) ==
    /\ mut[m].pc = "ok"
    /\ cache' = IF mut[m].op = "clear" THEN cache ELSE Shows(mut[m])
    /\ Invalidate(mut[m], cache', [k \in Key |-> fresh[k] \/ cache'[k] # cache[k]], Leftover(mut[m]))
    /\ mut' = [mut EXCEPT ![m] = [NoMutation EXCEPT !.pc = "done"]]
    /\ toasts' = IF mut[m].op = "remove" /\ mut[m].to /\ mut[m].left = NoPage THEN toasts \cup {mut[m].item} ELSE toasts
    /\ UNCHANGED <<db, view, prev, moves, seen>>

Succeed(m) ==
    /\ mut[m].pc = "ok"
    /\ cache' = Shows(mut[m])
    /\ Invalidate(mut[m], cache', [k \in Key |-> fresh[k] \/ cache'[k] # cache[k]], Leftover(mut[m]))
    /\ mut' = [mut EXCEPT ![m] = [NoMutation EXCEPT !.pc = "done"]]
    /\ toasts' = IF mut[m].op = "remove" /\ mut[m].to /\ mut[m].left = NoPage THEN toasts \cup {mut[m].item} ELSE toasts
    /\ UNCHANGED <<db, view, prev, moves, seen>>

Rollback(r) == IF r.snap = NoPage THEN cache ELSE [cache EXCEPT ![r.key] = r.snap]

(* Seeded fault: the list is fetched again only after a success. *)
Rejected_Quiet(m) ==
    LET r == mut[m] IN
    /\ r.pc = "no"
    /\ cache' = Rollback(r)
    /\ fresh' = [k \in Key |-> fresh[k] \/ cache'[k] # cache[k]]
    /\ mut' = [mut EXCEPT ![m] = [NoMutation EXCEPT !.pc = "done"]]
    /\ UNCHANGED <<db, view, prev, fetch, toasts, moves, seen, strays>>

(* The page of the trash that is put back is older than what came since.     *)
Reverted(r) == If("reverted", r.key \in Trash /\ r.snap # NoPage /\ OnPage(r.snap) # seen[r.key])

(* onError: the snapshot is put back, with whatever other mutations have     *)
(* changed since undone, and over a page that was fetched since; a creation  *)
(* or an edit has none, and invalidates nothing.                             *)
Rejected(m) ==
    LET r == mut[m] IN
    /\ r.pc = "no"
    /\ cache' = Rollback(r)
    /\ IF r.op \in {"create", "edit", "grant"} THEN UNCHANGED <<fresh, fetch, strays>>
       ELSE Invalidate(r, cache', [k \in Key |-> fresh[k] \/ cache'[k] # cache[k]], Reverted(r))
    /\ mut' = [mut EXCEPT ![m] = [NoMutation EXCEPT !.pc = "done"]]
    /\ UNCHANGED <<db, view, prev, toasts, moves, seen>>

-----------------------------------------------------------------------------
Answers ==
    \/ \E k \in Key : Read(k) \/ Arrive(k)
    \/ \E m \in Mutations : Serve(m) \/ Succeed(m) \/ Rejected(m)

Clicks ==
    \/ \E old \in BOOLEAN : NextPage(old) \/ PrevPage(old) \/ \E k \in Key : Go(k, old)
    \/ \E m \in Mutations :
         \/ \E t \in Items :
              \/ Toggle(m, t) \/ Remove(m, t) \/ Create(m, t) \/ Undo(m, t)
              \/ Update(m, t) \/ DeleteWebhook(m, t) \/ AddWebhook(m, t)
              \/ RevokeShare(m, t) \/ AddComment(m, t)
              \/ \E to \in BOOLEAN : Edit(m, t, to) \/ Grant(m, t, to)
              \/ \E op \in {"restore", "purge"} : Bulk(m, t, op)
         \/ Clear(m) \/ TrashHere(m)
         \/ \E to \in BOOLEAN : EditHere(m, to)

BoardNext ==
    \/ Answers \/ Clicks
    \/ \E k \in Key : FetchFails(k)
    \/ \E m \in Mutations : Fail(m)

BoardSpec == BoardInit /\ [][BoardNext]_boardVars

(* The network and the library do not stop while something is under way: as  *)
(* every behaviour has finitely many requests, each of them is answered.     *)
FairBoard == BoardSpec /\ WF_boardVars(Answers)

-----------------------------------------------------------------------------
(* Types: what the lists, the requests and the mutations hold. *)
BoardTypeOK ==
    /\ db \in [Items -> Item] /\ view \in Key /\ prev \in Page \cup {NoPage}
    /\ cache \in [Key -> Page \cup {NoPage}] /\ fresh \in [Key -> BOOLEAN]
    /\ fetch \in [Key -> [pc : {"idle", "sent", "read"}, data : Page \cup {NoPage}]]
    /\ mut \in [Mutations -> Mutation]
    /\ toasts \subseteq Items /\ moves \in 0..MaxMoves
    /\ seen \in [Trash -> SUBSET Items]
    /\ strays \subseteq {"unread", "lost", "twice", "shrunk", "cancelled", "overlap", "undone", "raced", "reverted"}

AllSettled == \A m \in Mutations : mut[m].pc \in {"idle", "done"}
Quiet   == AllSettled /\ fetch[view].pc = "idle" /\ cache[view] # NoPage /\ fresh[view]

(* When nothing is under way any more, the deck or panel on the screen is    *)
(* what the server has, whatever clicks, failures and rollbacks overlapped:  *)
(* except after the answer to a change was lost, or when a list was on its   *)
(* way while it was invalidated.                                             *)
QuietListIsTrue ==
    Quiet /\ view[1] \notin {"trash", "task"} => cache[view] = Listing(view) \/ strays \cap {"lost", "raced"} # {}

(* The trash is never asked for again: it shows what it was fetched with     *)
(* less what was restored or purged since, provided no two mutations         *)
(* overlapped, none was undone from the deck, no answer was lost, and no     *)
(* rollback put an older page over one that was fetched meanwhile.           *)
TrashIsTrue ==
    Quiet /\ view \in Trash =>
        \/ OnPage(cache[view]) = seen[view] /\ seen[view] \subseteq In("trash")
        \/ strays \cap {"lost", "overlap", "undone", "cancelled", "raced", "reverted"} # {}

(* A deck that shows nothing has nothing, unless the reader clicked faster   *)
(* than pages came, or took away so many tasks that there are fewer pages.    *)
EmptyMeansEmpty ==
    Quiet /\ view[1] = "deck" /\ OnPage(cache[view]) = {} =>
        In("deck") = {} \/ strays \cap {"twice", "shrunk", "lost", "raced"} # {}

(* What is on the screen is what the server has. *)
ScreenIsTrue == QuietListIsTrue /\ TrashIsTrue /\ EmptyMeansEmpty

(* The page on the screen gets its data in the end, also when a change made  *)
(* on the rows of the page before it threw its request away: unless it       *)
(* failed, or that was in the trash.                                         *)
PageArrives == []<>(cache[view] # NoPage \/ strays \cap {"unread", "cancelled"} # {})
=============================================================================
