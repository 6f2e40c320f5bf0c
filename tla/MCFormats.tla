----------------------------- MODULE MCFormats -----------------------------
(* Small tables, texts, lists and feeds for module Formats.                  *)
EXTENDS Formats

Letters  == {"a", Quote, Comma, LF, CR}
Title    == {s \in BoundedSeq(Letters, 3) : s # <<>> /\ Trim(s) = s}
Task(title, description, tags) ==
    [id |-> "7", title |-> title, description |-> description, status |-> "done", tags |-> tags]
MCStored ==
    {<<Task(s, d, tags)>> : s \in Title, d \in {<<>>, <<"a", LF, "b">>},
                            tags \in {<<>>, << <<"a">>, <<"b">> >>, << <<"a">>, <<"a">> >>, << <<"a", Semi, "b">> >>}}
    \cup {<<Task(s, <<"b">>, <<>>), Task(<<"a">>, <<>>, << <<"b">> >>)>> : s \in Title}

(* files written by hand: columns under other names, quotes left open, blank *)
(* lines, a byte order mark                                                  *)
MCTexts ==
    {<<"name", Comma, "desc", Comma, "title", LF>> \o s : s \in BoundedSeq(Letters, 4)}
    \cup {<<Bom, "title", Comma, "status", CR, LF>> \o s : s \in BoundedSeq({"a", "done", Comma, LF, " "}, 4)}
    \cup {<<"title", Comma, "labels", LF, "a", Comma, Quote>> \o s :
            s \in BoundedSeq({"a", "b", "c", Semi, Quote}, 5)}
MCAlias == [title |-> "title", name |-> "title", description |-> "description", desc |-> "description",
            status |-> "status", tags |-> "tags", labels |-> "tags"]
MCStatuses == {"pending", "done"}

MCQueries ==
    [list : {"live"}, sort : {NaN, [field |-> "createdAt", down |-> FALSE], [field |-> "priority", down |-> TRUE],
                              [field |-> "priority", down |-> FALSE], [field |-> "user", down |-> TRUE]},
     page : {NaN, 1}, limit : {NaN, 0, 1, 2}]
    \cup [list : {"trash"}, sort : {NaN}, page : {0, -3, 2}, limit : {-1, 2, 9}]
    \cup [list : {"admin"}, sort : {NaN}, page : {NaN}, limit : {1, 2}]
MCDefaultLimit == [live |-> 2, trash |-> 2, admin |-> 3]

Text  == {s \in BoundedSeq({"a", Slash, ";", "n", LF, CR}, 4) : s # <<>> /\ Trim(s) = s}
Item(id, title, description, dueDate) ==
    [id |-> id, title |-> title, description |-> description, status |-> "done", dueDate |-> dueDate, createdAt |-> 9]
MCFeeds ==
    {<<Item("7", s, d, 9)>> : s \in Text, d \in {<<>>, <<"a", LF, "b", Slash, ";">>}}
    \cup {<<Item("7", s, <<>>, None), Item("8", <<"a">>, s, 9)>> : s \in Text}

MCBases == [y : {1900, 2000, 2026}, m : {1, 2, 4, 12}, d : {1, 28}] \cup [y : {2023, 2024}, m : {1, 3, 12}, d : {29, 30, 31}]
=============================================================================
