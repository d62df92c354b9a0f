---------------------------- MODULE McpListings ----------------------------
(***************************************************************************)
(* The paged tools of the MCP server: crawler_get_results,                 *)
(* crawler_get_events and crawler_get_deliveries (paged_job_values,        *)
(* _bounded_page and _compact_item in interfaces/mcp_server.py over the    *)
(* list_* methods of infra/sqlite_store.py).  A client reads a listing     *)
(* page by page, each page bounded by a number of rows and of bytes, while *)
(* worker slots write rows.                                                *)
(*                                                                         *)
(* complete_item reads the clock before its transaction starts, so rows    *)
(* are not written in the order of their stamps: results are listed in     *)
(* that of their stamps, deliveries in its reverse, events in the reverse  *)
(* of that in which they were written.  A cursor is an offset.             *)
(***************************************************************************)
EXTENDS Naturals, Sequences, FiniteSets, SequencesExt

CONSTANTS
  Row,          \* the rows that are written, by the slot that writes each
  Size,         \* Size[w]: bytes of row w
  Budget,       \* max_tool_output_bytes
  MaxPageSize,  \* max_page_size
  StoreLimit    \* StoreLimit[l]: the most rows one list_* call returns of listing l

\* The configuration admits a page size of 500: list_events returns 500 rows at most, the
\* other two 1000.
ASSUME ListingConstants ==
  /\ Size \in [Row -> Nat \ {0}] /\ Budget \in Nat \ {0}
  /\ MaxPageSize \in Nat \ {0} /\ StoreLimit \in [{"results", "events", "deliveries"} -> Nat]
  /\ MaxPageSize < StoreLimit["results"] /\ MaxPageSize < StoreLimit["deliveries"]
  /\ MaxPageSize <= StoreLimit["events"]

VARIABLES
  listing,  \* which listing the client reads
  stamped,  \* rows in the order in which they were stamped
  written,  \* rows in the order in which they were written
  reader    \* cursor, rows shown, the listing as the first and as the last page were read,
            \* whether the last page held as many rows as one list_* call returns, and the
            \* rows that were overtaken

listingVars == <<listing, stamped, written, reader>>

ListingInit ==
  /\ listing \in {"results", "events", "deliveries"}
  /\ stamped = << >> /\ written = << >>
  /\ reader = [pc |-> "reading", cursor |-> 0, shown |-> << >>, first |-> << >>, last |-> << >>,
               full |-> FALSE, late |-> {}]

\* now = iso() in complete_item
Stamp(w) ==
  /\ w \notin ToSet(stamped)
  /\ stamped' = Append(stamped, w)
  /\ UNCHANGED <<listing, written, reader>>

StampOf(w) == CHOOSE n \in DOMAIN stamped : stamped[n] = w
WriteOf(w) == CHOOSE n \in DOMAIN written : written[n] = w

\* The transaction of complete_item.  The row is overtaken when one with a later stamp
\* has been shown already.
Commit(w) ==
  /\ w \in ToSet(stamped) /\ w \notin ToSet(written)
  /\ written' = Append(written, w)
  /\ reader' = [reader EXCEPT
       !.late = IF \E u \in ToSet(reader.shown) : StampOf(u) > StampOf(w) THEN @ \cup {w} ELSE @]
  /\ UNCHANGED <<listing, stamped>>

\* ORDER BY: row u comes before row w.
Before(u, w) ==
  CASE listing = "results" -> StampOf(u) < StampOf(w)
    [] listing = "deliveries" -> StampOf(u) > StampOf(w)
    [] listing = "events" -> WriteOf(u) > WriteOf(w)
Place(w) == 1 + Cardinality({u \in ToSet(written) : Before(u, w)})
Listed == [n \in 1 .. Len(written) |-> CHOOSE w \in ToSet(written) : Place(w) = n]

\* LIMIT and OFFSET
Loaded(limit) ==
  SubSeq(Listed, reader.cursor + 1,
         Min({Len(Listed), reader.cursor + limit + 1, reader.cursor + StoreLimit[listing]}))

\* _compact_item: a row that is larger than a page is replaced by a short notice
Bytes(w) == IF Size[w] > Budget THEN 1 ELSE Size[w]
Used(rows) == FoldSeq(LAMBDA w, sum : Bytes(w) + sum, 0, rows)

\* _bounded_page: as many rows as fit, and one at least
Emitted(limit) ==
  LET most == Min({Len(Loaded(limit)), limit})
      fits == {n \in 0 .. most : n <= 1 \/ Used(SubSeq(Loaded(limit), 1, n)) <= Budget} IN
  SubSeq(Loaded(limit), 1, Max(fits))

HasMore(limit) == Emitted(limit) # Loaded(limit)

\* Bug: the cursor goes on by what was asked for.
NextByLimit(limit) == reader.cursor + limit
NextCursor(limit) == reader.cursor + Len(Emitted(limit))

\* paged_job_values, called with the cursor of the page before
ReadPage(limit) ==
  /\ reader.pc = "reading"
  /\ reader' = [reader EXCEPT
       !.pc = IF HasMore(limit) THEN "reading" ELSE "done",
       !.cursor = NextCursor(limit),
       !.shown = @ \o Emitted(limit),
       !.first = IF reader.cursor = 0 THEN Listed ELSE @,
       !.last = Listed,
       !.full = Len(Emitted(limit)) = StoreLimit[listing]]
  /\ UNCHANGED <<listing, stamped, written>>

ListingNext ==
  \/ \E w \in Row : Stamp(w) \/ Commit(w)
  \/ \E limit \in 1 .. MaxPageSize : ReadPage(limit)

ListingSpec == ListingInit /\ [][ListingNext]_listingVars
-----------------------------------------------------------------------------
(* Properties *)

\* Following the cursors to the end shows every row that there was as the first page was
\* read, whatever is written meanwhile and however the pages are cut short, but for one
\* case: a page of events that holds as many as list_events returns at most has no
\* next_cursor, and the listing ends with it although older events exist.  Then those are
\* missing and no newer ones.  When nothing is written between the first page and the last,
\* the pages show the listing from its first row on, every row once.  A client that reads
\* results while they come misses of those written by its last page only the ones that
\* were stamped before, and written after, a row it had been shown (_bounded_page,
\* paged_job_values, list_results, list_events, complete_item).
PagesComplete ==
  reader.pc = "done" =>
    LET lost == ToSet(reader.first) \ ToSet(reader.shown) IN
    /\ lost # {} => listing = "events" /\ reader.full
    /\ \A u \in lost, w \in ToSet(reader.shown) : Before(w, u)
    /\ reader.first = reader.last =>
         reader.shown = SubSeq(reader.last, 1, Len(reader.shown))
    /\ listing = "results" =>
         ToSet(reader.last) \ ToSet(reader.shown) \subseteq reader.late
=============================================================================
