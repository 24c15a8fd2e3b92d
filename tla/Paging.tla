------------------------------- MODULE Paging -------------------------------
(***************************************************************************)
(* A client that walks through the pages of a list (paginate.util.ts), as    *)
(* the `nextPage` of each answer leads it, while rows come and go.  A page    *)
(* is two queries, of its rows and of their number.  Rows are ordered by id, *)
(* areas upwards and users downwards, and a new row has the highest id.      *)
(* A page is the set of its rows, which its query puts in this order.        *)
(***************************************************************************)
EXTENDS Integers, Sequences, FiniteSets, SequencesExt, FiniteSetsExt

CONSTANTS
  MaxId,       \* bound: ids
  MaxDeletes,  \* bound: rows deleted
  MAX_LIMIT

VARIABLES
  rows,     \* ids in the table
  lastId,   \* of its sequence
  deletes,  \* rows deleted
  walk      \* [order, limit, page, counting, next : the page to ask for,
            \*  or 0, seen : the pages, and what happened since it began:
            \*  added, taken : rows were, torn : between a page and its count]

vars == <<rows, lastId, deletes, walk>>

NoWalk == [order |-> "none", limit |-> 0, page |-> 0, counting |-> FALSE,
           next |-> 0, seen |-> <<>>, added |-> FALSE, taken |-> FALSE, torn |-> FALSE]

Init == rows = {} /\ lastId = 0 /\ deletes = 0 /\ walk = NoWalk

\* The clamps of `paginate`; a parameter left out is one of its defaults.
Page(asked)  == Max({asked, 1})
Limit(asked) == Min({Max({asked, 1}), MAX_LIMIT})

\* ORDER BY, and how many rows come before one.
Before(a, b, order) == IF order = "asc" THEN a < b ELSE a > b
Rank(id, order)     == Cardinality({a \in rows : Before(a, id, order)})

\* skip and take.
Data(page, limit, order) ==
  LET skip == (page - 1) * limit
  IN {id \in rows : Rank(id, order) \in skip..(skip + limit - 1)}

Reads(w, page, limit, order) ==
  walk' = [w EXCEPT !.order = order, !.limit = limit, !.page = page,
             !.counting = TRUE, !.seen = Append(@, Data(page, limit, order))]

\* The client asks for its first page, or for the one it was led to.
First ==
  /\ walk.order = "none"
  /\ \E page \in -1..1, limit \in -1..(MAX_LIMIT + 1), order \in {"asc", "desc"} :
       Reads(walk, Page(page), Limit(limit), order)
  /\ UNCHANGED <<rows, lastId, deletes>>

Further ==
  /\ ~walk.counting /\ walk.next # 0
  /\ Reads(walk, Page(walk.next), Limit(walk.limit), walk.order)
  /\ UNCHANGED <<rows, lastId, deletes>>

\* Mutant: a full page is taken to have another after it.
NextPageBug(page, limit, total) ==
  IF page * limit <= total THEN page + 1 ELSE 0

\* buildPaginationMeta
TotalPages(limit, total) == (total + limit - 1) \div limit
NextPage(page, limit, total) ==
  IF page < TotalPages(limit, total) THEN page + 1 ELSE 0

\* TypeORM counts the rows, or tells their number by a page that is not full.
Count ==
  /\ walk.counting
  /\ LET size == Cardinality(Last(walk.seen))
         told == (walk.page - 1) * walk.limit + size
     IN \E total \in {Cardinality(rows)} \union
                    IF size \in 1..(walk.limit - 1) THEN {told} ELSE {} :
          walk' = [walk EXCEPT !.counting = FALSE,
                     !.next = NextPage(walk.page, walk.limit, total)]
  /\ UNCHANGED <<rows, lastId, deletes>>

Insert ==
  /\ lastId < MaxId /\ lastId' = lastId + 1
  /\ rows' = rows \union {lastId + 1}
  /\ walk' = [walk EXCEPT !.added = walk.order # "none",
                           !.torn = @ \/ walk.counting]
  /\ UNCHANGED deletes

Delete ==
  /\ deletes < MaxDeletes /\ deletes' = deletes + 1
  /\ \E id \in rows : rows' = rows \ {id}
  /\ walk' = [walk EXCEPT !.taken = walk.order # "none",
                           !.torn = @ \/ walk.counting]
  /\ UNCHANGED lastId

Next == First \/ Further \/ Count \/ Insert \/ Delete
Spec == Init /\ [][Next]_vars

-----------------------------------------------------------------------------
(* Properties                                                               *)

\* A walk comes past each row once, and has no empty page unless the list is
\* empty, if nobody writes meanwhile.  Rows added at its end do not disturb the
\* walk that goes upwards, unless between a page and its count; rows deleted, or
\* added there, can make it miss some.  Nothing but a row added under the walk
\* that goes downwards shows it a row twice, or one that comes before another
\* that it has seen on an earlier page.
WalkSeesEachRowOnce ==
  LET pages == DOMAIN walk.seen
      seen  == UNION {walk.seen[p] : p \in pages}
      over  == walk.order # "none" /\ ~walk.counting /\ walk.next = 0
  IN
  /\ over /\ ~walk.taken /\ ~walk.added => seen = rows
  /\ over /\ ~walk.taken /\ ~walk.torn /\ walk.order = "asc" =>
       seen \subseteq rows /\ \A a \in seen, b \in rows \ seen : a < b
  /\ \A p \in pages : walk.seen[p] = {} => rows = {} \/ walk.taken \/ walk.added
  /\ walk.order = "asc" \/ ~walk.added =>
       \A p, q \in pages : p < q =>
         \A a \in walk.seen[p], b \in walk.seen[q] : Before(a, b, walk.order)
=============================================================================
