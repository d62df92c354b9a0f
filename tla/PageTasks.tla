----------------------------- MODULE PageTasks -----------------------------
(***************************************************************************)
(* What a plugin does with one claimed item (plugins/): it fetches a page, *)
(* classifies it, parses it, reports on the cookie and the proxy behind    *)
(* it, keeps the page as evidence and returns rows or a failure.  A rank   *)
(* list continues in chunks that are streamed concurrently; the pages of a *)
(* merchant and the products on them become follow-up jobs, so one root    *)
(* item grows into a tree.                                                 *)
(*                                                                         *)
(* Items are named by their path in the tree: << >> is the root, <<2>> the *)
(* second page of the merchant, <<2, 1>> product 1 on that page; the items *)
(* derived from one item are the job that carries that item's name.        *)
(* A page is what the classifier and the parser find in it: the signs the  *)
(* markers stand for, the shape that completeness is judged by and the     *)
(* rows.  Products are numbers; a row of a rank list is a number for its   *)
(* product and rank together, and a row 0 of a merchant's page is one      *)
(* without an asin, which no follow-up derives from.  The site answers a   *)
(* chunk with any rows it likes, whatever was asked for.  Leases, lost     *)
(* claims and the time between attempts are in CrawlJobs.                  *)
(***************************************************************************)
EXTENDS Naturals, Sequences, FiniteSets, SequencesExt

CONSTANTS
  Slot,         \* worker slots
  Roots,        \* the root items: [kind, page, expand, total, shared], total being the
                \* merchant's number of products; only the jobs of shared ones meet
                \* other workers and operators (bound)
  Signs,        \* the sets of signs a page may carry
  Listings,     \* the products a merchant_products page may list, in order
  RankRows,     \* the rows a page or a chunk of a rank list may hold, in its order
  MaxListed,    \* bound: products a rank list continues with
  ChunkSize,    \* products per continuation chunk
  RANK_STREAM_CONCURRENCY,
  MaxAttempts,
  MaxBroken,    \* bound: evidence files that cannot be written
  MaxTrouble,   \* bound, by the kind of the root: fetches that fail and pages that are not usable
  Idle, NoCode

ProductKinds == {"product", "product_hw", "product_time"}
SearchKinds == {"search", "search_hour"}
MerchantKinds == {"merchant", "merchant_home", "merchant_products"}
Kind == ProductKinds \cup SearchKinds \cup MerchantKinds
        \cup {"reviews", "category_asin_list", "rank_list"}

ASSUME PageConstants ==
  /\ Roots \subseteq [kind : Kind, page : 1 .. 2, expand : BOOLEAN, total : Nat, shared : BOOLEAN]
  /\ Signs \subseteq SUBSET {"blocked", "missing", "temporary"}
  /\ Listings \subseteq Seq(Nat) /\ RankRows \subseteq Seq(Nat) \ {<< >>}
  /\ MaxListed \in Nat
  /\ ChunkSize \in Nat \ {0} /\ RANK_STREAM_CONCURRENCY \in Nat \ {0}
  /\ MaxAttempts \in Nat \ {0} /\ MaxBroken \in Nat /\ MaxTrouble \in [Kind -> Nat]

VARIABLES
  root,     \* what the root item asks for
  item,     \* item[i]: status, attempts, code of the last failure, result rows
  exec,     \* exec[s]: the execution in slot s
  stream,   \* stream[<<i, attempt, position>>]: a continuation chunk under way
  read,     \* read[<<i, attempt, position>>]: a page that was fetched, and its reports
  broken,   \* evidence files that could not be written so far
  trouble   \* fetches that failed and pages that were not usable so far

vars == <<root, item, exec, stream, read, broken, trouble>>

KindOf(i) ==
  IF i = << >> THEN root.kind
  ELSE IF root.kind = "merchant_home" /\ Len(i) = 1 THEN "merchant_products"
  ELSE "product"
PageOf(i) == IF i = << >> THEN root.page ELSE 1
-----------------------------------------------------------------------------
(* Classification: response_policy.py *)

NotFound(kind) ==
  CASE kind \in ProductKinds -> "product_not_found"
    [] kind \in SearchKinds -> "no_results"
    [] kind = "reviews" -> "no_reviews"
    [] kind = "category_asin_list" -> "no_category_results"
    [] kind = "rank_list" -> "no_rank_results"
    [] kind = "merchant_products" -> "merchant_page_has_no_products"
    [] OTHER -> "merchant_has_no_products"
Empty(kind, page) ==
  CASE kind \in ProductKinds -> "missing_product_identity"
    [] kind \in SearchKinds /\ page > 1 -> "one_page_only"
    [] OTHER -> NotFound(kind)

Retryable ==
  {"blocked_page", "upstream_incomplete", "parse_error", "missing_product_identity",
   "fetch_failed", "worker_internal_error"}
Terminal ==
  {NotFound(k) : k \in Kind} \cup {"one_page_only", "unsupported_product_type", "fetch_refused"}

ASSUME NoCodeIsNoCode == NoCode \notin Retryable \cup Terminal

\* These kinds look for a missing page before they look for a temporary one.
MissingFirst == ProductKinds \cup {"reviews", "merchant", "rank_list"}

\* Bug: every kind looks for a missing page first.
PageIssueOneOrder(kind, signs) ==
  IF "blocked" \in signs THEN "blocked_page"
  ELSE IF "missing" \in signs THEN NotFound(kind)
  ELSE IF "temporary" \in signs THEN "upstream_incomplete" ELSE NoCode

\* classify_amazon_page
PageIssue(kind, signs) ==
  IF "blocked" \in signs THEN "blocked_page"
  ELSE IF "missing" \in signs /\ ("temporary" \notin signs \/ kind \in MissingFirst)
       THEN NotFound(kind)
  ELSE IF "temporary" \in signs THEN "upstream_incomplete" ELSE NoCode

Shapes(kind, page) ==
  CASE kind \in ProductKinds \cup {"reviews"} -> {"whole", "partial", "unsupported"}
    [] kind \in SearchKinds -> {"whole", "partial"} \cup {r \in {"reversed"} : page > 1}
    [] kind \in {"merchant_home", "merchant_products"} -> {"whole", "partial", "zero"}
    [] kind = "merchant" -> {"whole"}
    [] OTHER -> {"whole", "partial"}

\* classify_product_completeness, classify_collection_completeness
ShapeIssue(kind, shape) ==
  CASE shape = "partial" -> "upstream_incomplete"
    [] shape = "unsupported" -> "unsupported_product_type"
    [] shape = "reversed" -> "one_page_only"
    [] shape = "zero" -> NotFound(kind)
    [] OTHER -> NoCode

Issue(kind, page) ==
  IF PageIssue(kind, page.signs) # NoCode THEN PageIssue(kind, page.signs)
  ELSE ShapeIssue(kind, page.shape)
-----------------------------------------------------------------------------
(* Parsing: the rows a page may hold *)

\* parse_merchant_home: three pages at most
PageNumbers(total) == 1 .. (IF total > 32 THEN 3 ELSE (total + 15) \div 16)

RowsOf(kind) ==
  CASE kind = "merchant_home" -> {<< >>, [n \in PageNumbers(root.total) |-> n]}
    [] kind = "merchant_products" -> Listings
    [] kind = "merchant" -> {<<1>>}
    [] kind = "rank_list" -> {<< >>} \cup RankRows
    [] OTHER -> {<< >>, <<1>>}

\* A page; more is how many products a rank list continues with.  Of a page with a
\* sign, or one that is not whole, nothing else is read.
Page(kind, page) ==
  LET Bare(signs, shape) ==
        [signs |-> signs, shape |-> shape, parsed |-> TRUE, rows |-> << >>, more |-> 0] IN
  [signs : {{}}, shape : {"whole"}, parsed : {TRUE}, rows : RowsOf(kind),
   more : IF kind = "rank_list" THEN {0, MaxListed} ELSE {0}]
  \cup {[Bare({}, "whole") EXCEPT !.parsed = FALSE]}
  \cup {Bare({}, shape) : shape \in Shapes(kind, page) \ {"whole"}}
  \cup {Bare(signs, "whole") : signs \in Signs \ {{}}}

Good(page) ==
  /\ page.signs = {} /\ page.shape = "whole" /\ page.parsed
  /\ page.rows # << >> \/ page.more > 0

\* The chunks of a continuation
Chunks(more) == 1 .. (more + ChunkSize - 1) \div ChunkSize
\* The numbers in S from the least to the greatest
Ascending(S) ==
  [n \in 1 .. Cardinality(S) |-> CHOOSE x \in S : Cardinality({y \in S : y <= x}) = n]

\* The rows at the positions S, and rows with the first of equal ones kept
Picked(rows, S) ==
  LET order == Ascending(S) IN [k \in DOMAIN order |-> rows[order[k]]]
Firsts(rows) == {n \in DOMAIN rows : \A m \in 1 .. n - 1 : rows[m] # rows[n]}
Unique(rows) == Picked(rows, Firsts(rows))

\* The rows that item i keeps of its page p: of a merchant's page one for each product if
\* they are to be expanded, of a rank list without a continuation equal ones once
Products(i, p) ==
  CASE KindOf(i) = "merchant_products" /\ root.expand ->
         Picked(p.rows, {n \in Firsts(p.rows) : p.rows[n] # 0})
    [] KindOf(i) = "rank_list" /\ p.more = 0 -> Unique(p.rows)
    [] OTHER -> p.rows

\* The items of the follow-up job of a result
Derived(i, rows) ==
  IF KindOf(i) = "merchant_home" \/ (KindOf(i) = "merchant_products" /\ root.expand)
  THEN {Append(i, rows[n]) : n \in DOMAIN rows} ELSE {}
-----------------------------------------------------------------------------
NewItem == [status |-> "pending", attempts |-> 0, code |-> NoCode, rows |-> << >>]

Init ==
  /\ root \in Roots
  /\ item = [i \in {<< >>} |-> NewItem]
  /\ exec = [s \in Slot |-> Idle]
  /\ stream = << >> /\ read = << >>
  /\ broken = 0 /\ trouble = 0

PageId(i, position) == <<i, item[i].attempts, position>>
\* The function old with the values of new
Over(new, old) ==
  [x \in DOMAIN new \cup DOMAIN old |-> IF x \in DOMAIN new THEN new[x] ELSE old[x]]
With(id, value, old) == Over([x \in {id} |-> value], old)

\* One more thing goes wrong, if it does
Trouble(bad) ==
  /\ bad => trouble < MaxTrouble[root.kind]
  /\ trouble' = IF bad THEN trouble + 1 ELSE trouble

\* claim_next for slot s, then execute begins; the pages of an earlier attempt are
\* forgotten unless a chunk of it is still under way
Claim(s, i) ==
  /\ exec[s] = Idle /\ item[i].status = "pending"
  /\ item' = [item EXCEPT ![i].status = "running", ![i].attempts = @ + 1]
  /\ exec' = [exec EXCEPT ![s] = [item |-> i, pc |-> "fetching", code |-> NoCode,
                                  rows |-> << >>, more |-> 0]]
  /\ read' = [id \in {l \in DOMAIN read : l[1] # i \/ \E k \in DOMAIN stream : k[1] = i}
                |-> read[id]]
  /\ UNCHANGED <<root, stream, broken, trouble>>

\* complete_item: the follow-up job is created with the result
Completed(i, rows) ==
  [j \in DOMAIN item \cup Derived(i, rows) |->
     IF j = i THEN [item[i] EXCEPT !.status = "succeeded", !.rows = rows, !.code = NoCode]
     ELSE IF j \in DOMAIN item THEN item[j] ELSE NewItem]

\* fail_item
Failed(i, code) ==
  LET again == code \in Retryable /\ item[i].attempts < MaxAttempts IN
  [item EXCEPT ![i].status = IF again THEN "pending" ELSE "failed", ![i].code = code]

Return(s, items) == exec' = [exec EXCEPT ![s] = Idle] /\ item' = items

\* The fetcher gives up on the first page.
FetchFails(s) ==
  /\ exec[s] # Idle /\ exec[s].pc = "fetching"
  /\ \E code \in {"fetch_failed", "fetch_refused"} : Return(s, Failed(exec[s].item, code))
  /\ Trouble(TRUE)
  /\ UNCHANGED <<root, stream, read, broken>>

NewStream == [pc |-> "waiting", code |-> NoCode, rows |-> << >>]

\* The step that follows once page p is classified and parsed
Judged(e, p) ==
  LET kind == KindOf(e.item)
      issue == Issue(kind, p)
      next(pc, code) == [item |-> e.item, pc |-> pc, code |-> code,
                         rows |-> Products(e.item, p), more |-> p.more] IN
  CASE issue # NoCode -> next("issue", issue)
    [] issue = NoCode /\ ~p.parsed -> next("error", "parse_error")
    [] issue = NoCode /\ p.parsed /\ p.more > 0 -> next("gathering", NoCode)
    [] issue = NoCode /\ p.parsed /\ p.more = 0 /\ p.rows = << >> ->
         next("empty", Empty(kind, PageOf(e.item)))
    [] OTHER -> next("usable", NoCode)

FirstPage(s) ==
  /\ exec[s] # Idle /\ exec[s].pc = "fetching"
  /\ LET i == exec[s].item IN
     \E p \in Page(KindOf(i), PageOf(i)) :
       LET next == Judged(exec[s], p)
           chunks == IF next.pc = "gathering" THEN Chunks(p.more) ELSE {} IN
       /\ Trouble(~Good(p))
       /\ exec' = [exec EXCEPT ![s] = next]
       /\ stream' = Over([k \in {PageId(i, n) : n \in chunks} |-> NewStream], stream)
       /\ read' = With(PageId(i, 0), [seen |-> p, said |-> << >>], read)
  /\ UNCHANGED <<root, item, broken>>

\* Bug: a page is reported by how the attempt ended.
VerdictByEnd(e) ==
  CASE e.pc = "usable" -> "success"
    [] e.code = "blocked_page" -> "blocked"
    [] OTHER -> "parse_error"

\* What the page of execution e is reported as
Verdict(e) ==
  CASE e.pc \in {"usable", "partial"} -> "success"
    [] e.pc = "issue" /\ e.code = "blocked_page" -> "blocked"
    [] OTHER -> "parse_error"

\* Evidence that is not kept: the exception leaves execute, and the worker fails
\* the item; raised where a merchant plugin parses, it is taken for a parse error.
EvidenceRaises(s) ==
  LET e == exec[s] IN
  /\ broken < MaxBroken /\ broken' = broken + 1
  /\ IF e.pc = "empty" /\ KindOf(e.item) \in MerchantKinds
     THEN /\ exec' = [exec EXCEPT ![s].pc = "error", ![s].code = "parse_error"]
          /\ item' = item
     ELSE Return(s, Failed(e.item, "worker_internal_error"))

EvidenceKept(s) ==
  LET e == exec[s] IN
  /\ Return(s, IF e.pc = "usable" THEN Completed(e.item, e.rows) ELSE Failed(e.item, e.code))
  /\ broken' = broken

\* The page in slot s is reported and kept, and execute returns.
Report(s) ==
  /\ exec[s] # Idle /\ exec[s].pc \in {"issue", "error", "empty", "partial", "usable"}
  /\ read' = [read EXCEPT ![PageId(exec[s].item, 0)].said = Append(@, Verdict(exec[s]))]
  /\ \/ EvidenceKept(s)
     \/ exec[s].pc # "partial" /\ EvidenceRaises(s)
  /\ UNCHANGED <<root, stream, trouble>>
-----------------------------------------------------------------------------
(* The continuation of a rank list: load_chunk, and asyncio.gather over them *)

Siblings(k) == {l \in DOMAIN stream : l[1] = k[1] /\ l[2] = k[2]}
Own(s) == {l \in DOMAIN stream : l[1] = exec[s].item /\ l[2] = item[exec[s].item].attempts}
\* Somebody waits for chunk k; gather does not wait for the others once one raised.
Awaited(k) == \E s \in Slot : exec[s] # Idle /\ exec[s].pc = "gathering" /\ k \in Own(s)

\* async with semaphore
Room(k) ==
  Cardinality({l \in Siblings(k) : stream[l].pc = "fetching"}) < RANK_STREAM_CONCURRENCY

EnterStream(k) ==
  /\ stream[k].pc = "waiting" /\ Room(k)
  /\ stream' = [stream EXCEPT ![k].pc = "fetching"]
  /\ UNCHANGED <<root, item, exec, read, broken, trouble>>

\* The result of chunk k is there; nobody takes that of a chunk left behind.
Ended(k, result) ==
  stream' = IF Awaited(k) THEN [stream EXCEPT ![k] = result]
            ELSE [l \in DOMAIN stream \ {k} |-> stream[l]]

StreamFails(k) ==
  /\ stream[k].pc = "fetching"
  /\ \E code \in {"fetch_failed", "fetch_refused"} :
       Ended(k, [pc |-> "done", code |-> code, rows |-> << >>])
  /\ Trouble(TRUE)
  /\ UNCHANGED <<root, item, exec, read, broken>>

\* A chunk's page is parsed, not classified; any rows will do.
StreamPage(k) ==
  /\ stream[k].pc = "fetching"
  /\ \E parsed \in BOOLEAN, rows \in {<< >>} \cup RankRows :
       /\ ~parsed => rows = << >>
       /\ Trouble(rows = << >>)
       /\ stream' = [stream EXCEPT ![k] =
            [pc |-> "reporting", rows |-> rows,
             code |-> CASE ~parsed -> "parse_error"
                        [] parsed /\ rows = << >> -> "upstream_incomplete"
                        [] OTHER -> NoCode]]
       /\ read' = With(k, [seen |-> [signs |-> {}, shape |-> "whole", parsed |-> parsed,
                                    rows |-> rows, more |-> 0], said |-> << >>], read)
  /\ UNCHANGED <<root, item, exec, broken>>

StreamReport(k) ==
  /\ stream[k].pc = "reporting"
  /\ read' = [read EXCEPT ![k].said =
                Append(@, IF stream[k].code = NoCode THEN "success" ELSE "parse_error")]
  /\ \/ /\ Ended(k, [stream[k] EXCEPT !.pc = "done"])
        /\ broken' = broken
     \/ /\ stream[k].code # NoCode /\ broken < MaxBroken /\ broken' = broken + 1
        /\ Ended(k, [stream[k] EXCEPT !.pc = "raised"])
  /\ UNCHANGED <<root, item, exec, trouble>>

StreamFailures(s) == {k \in Own(s) : stream[k].code # NoCode}

\* Bug: the failures of chunks are not looked at.
NoFailures(s) == {}
Failures(s) == StreamFailures(s)
\* The failure of the chunk that comes first in the list
FirstFailure(s) == stream[CHOOSE k \in Failures(s) : \A l \in Failures(s) : k[3] <= l[3]].code

\* The first page's rows and the chunks' rows, in the order of the list, equal ones once
Merged(s) ==
  LET n == Cardinality(Own(s))
      part(c) == IF c = 1 THEN exec[s].rows ELSE stream[PageId(exec[s].item, c - 1)].rows IN
  Unique(FlattenSeq([c \in 1 .. n + 1 |-> part(c)]))

Gathered(s) ==
  /\ exec[s] # Idle /\ exec[s].pc = "gathering"
  /\ \A k \in Own(s) : stream[k].pc = "done"
  /\ exec' = [exec EXCEPT ![s] =
       IF Failures(s) # {} THEN [@ EXCEPT !.pc = "partial", !.code = FirstFailure(s)]
       ELSE [@ EXCEPT !.pc = "usable", !.rows = Merged(s)]]
  /\ stream' = [k \in DOMAIN stream \ Own(s) |-> stream[k]]
  /\ UNCHANGED <<root, item, read, broken, trouble>>

\* gather raises what a chunk raised; the other chunks go on by themselves.
GatherRaises(s) ==
  /\ exec[s] # Idle /\ exec[s].pc = "gathering"
  /\ \E k \in Own(s) : stream[k].pc = "raised"
  /\ exec' = [exec EXCEPT ![s].pc = "error", ![s].code = "parse_error"]
  /\ stream' = [k \in {l \in DOMAIN stream : l \notin Own(s) \/ stream[l].pc \notin {"done", "raised"}}
                  |-> stream[k]]
  /\ UNCHANGED <<root, item, read, broken, trouble>>
-----------------------------------------------------------------------------
Execute(s) ==
  FetchFails(s) \/ FirstPage(s) \/ Report(s) \/ Gathered(s) \/ GatherRaises(s)
LoadChunk(k) == EnterStream(k) \/ StreamFails(k) \/ StreamPage(k) \/ StreamReport(k)
=============================================================================
