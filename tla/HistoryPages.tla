---------------------------- MODULE HistoryPages ----------------------------
(***************************************************************************)
(* The paged history of one token (history.js): eventQuery, runPaged and a *)
(* reader who follows nextCursor from page to page while the indexer goes  *)
(* on storing rows, newer ones and, from its backfills, older ones.        *)
(***************************************************************************)
EXTENDS TokenHistory

CONSTANTS
    Limit,    \* rows per page
    Paged     \* the histories somebody reads (a bound)

ASSUME PagesAssumption == Limit \in 1 .. 200 /\ Paged \subseteq Histories

VARIABLES
    cursor,   \* nextCursor of the last page: <<block, log_index>>
    page,     \* rows of the last page
    seen,     \* rows of the pages before it
    basis,    \* what the history consisted of when the first page was read
    pc        \* "start", "paging" or "done"

reader == <<cursor, page, seen, basis, pc>>
vars == <<chain, rows, cursor, page, seen, basis, pc>>

(* A registry event belongs to the token iff the token ever referenced its *)
(* policy.                                                                 *)
TokenRows(S) ==
    {l \in S : IsRegistry(l) =>
        \E u \in S : u.kind = "PolicyUpdated" /\ u.policy = l.policy}

(* BUG: the cursor forgets the log index. *)
BehindBlock(l, cur) == l.block < cur[1]

(* block < ? OR (block = ? AND log_index < ?) *)
Behind(l, cur) == l.block < cur[1] \/ (l.block = cur[1] /\ l.index < cur[2])

(* The first n rows in the order block DESC, log_index DESC. *)
Newest(S, n) == {l \in S : Cardinality({k \in S : Before(l, k)}) < n}

(* Read one page of `matching`: up to Limit rows are shown; a row beyond    *)
(* the limit means there is a next page, behind the last row shown.        *)
Page(matching) ==
    LET fetched == Newest(matching, Limit + 1)
        shown   == Newest(fetched, Limit)
        last    == CHOOSE l \in shown : \A k \in shown : k = l \/ Before(l, k)
    IN  /\ page' = shown
        /\ seen' = seen \cup page
        /\ IF Cardinality(fetched) > Limit
           THEN cursor' = <<last.block, last.index>> /\ pc' = "paging"
           ELSE pc' = "done" /\ UNCHANGED cursor

StoreRow == Store /\ UNCHANGED reader

FirstPage ==
    /\ pc = "start" /\ chain \in Paged
    /\ basis' = TokenRows(rows)
    /\ Page(TokenRows(rows))
    /\ UNCHANGED <<chain, rows>>

NextPage ==
    /\ pc = "paging"
    /\ Page({l \in TokenRows(rows) : Behind(l, cursor)})
    /\ UNCHANGED <<chain, rows, basis>>

(* The reader starts again. *)
Again ==
    /\ pc = "done"
    /\ page' = {} /\ seen' = {} /\ basis' = {} /\ pc' = "start"
    /\ UNCHANGED <<chain, rows, cursor>>

Init ==
    /\ Empty
    /\ page = {} /\ seen = {} /\ basis = {}
    /\ cursor = <<0, 0>>
    /\ pc = "start"

Next == StoreRow \/ FirstPage \/ NextPage \/ Again
Spec == Init /\ [][Next]_vars

-----------------------------------------------------------------------------
(* Following the cursor to the end shows every row that was part of the     *)
(* history when the first page was read, and no page repeats a row of an   *)
(* earlier one, though rows are stored on both sides of the cursor and a   *)
(* policy update pulls old registry rows into the history meanwhile.       *)
PagingExact ==
    /\ page \cap seen = {}
    /\ pc = "done" => basis \subseteq seen \cup page
=============================================================================
