-------------------------------- MODULE Paging --------------------------------
(***************************************************************************)
(* A status page that reads the results of an endpoint page by page, the   *)
(* newest first, while more of them are inserted.  Results are numbered in *)
(* the order of their insertion; the store keeps the latest ones.          *)
(***************************************************************************)
EXTENDS Integers, FiniteSets

CONSTANTS
  KeptResults,     \* MaximumNumberOfResults
  ResultSlack,     \* 10: resultsAboveMaximumCleanUpThreshold
  DefaultPageSize, \* 50
  HalfWord,        \* 2^63: integers are -HalfWord..(HalfWord - 1)
  MaxInserted      \* bound: results inserted

ASSUME PagingAssumption ==
  /\ {KeptResults, DefaultPageSize, HalfWord} \subseteq Nat \ {0} /\ {ResultSlack, MaxInserted} \subseteq Nat
  /\ DefaultPageSize < HalfWord
  /\ KeptResults + ResultSlack + 1 < HalfWord /\ 2 * KeptResults + ResultSlack <= HalfWord

VARIABLES
  pager,      \* "memory" or "sql": what the reader reads from
  inserted,   \* how many results there have been
  keptRows,   \* how many rows of them the SQL store has
  newest,     \* the newest one when the reader began, 0: it did not
  page,       \* last page read, or asked for
  pageSize,
  read        \* numbers of the results read

pagingVars == <<pager, inserted, keptRows, newest, page, pageSize, read>>

Integer64 == -HalfWord..(HalfWord - 1)
Wrapped(n) == ((n + HalfWord) % (2 * HalfWord)) - HalfWord
NotANumber == HalfWord                     \* no such parameter, or not an integer

(* AddResult of the memory store keeps the latest KeptResults at any time. *)
InMemory == IF inserted < KeptResults THEN inserted ELSE KeptResults
FirstInMemory == inserted - InMemory + 1
FirstRow == inserted - keptRows + 1
FirstKept == IF pager = "sql" THEN FirstRow ELSE FirstInMemory

-----------------------------------------------------------------------------
(* extractPageAndPageSizeFromRequest *)
PageOf(parameter) == IF parameter = NotANumber \/ parameter < 1 THEN 1 ELSE parameter
PageSizeOf(p, parameter) ==
  LET size == IF parameter = NotANumber THEN DefaultPageSize ELSE parameter IN
  IF p = 1 /\ size > KeptResults THEN KeptResults ELSE IF size < 1 THEN DefaultPageSize ELSE size

\* Slip: the end is not cut off at the number of results.
IndexesBeyondEnd(n, p, size) ==
  LET start == Wrapped(n - Wrapped(p * size))
      end == Wrapped(n - Wrapped((p - 1) * size))
  IN IF p < 1 \/ size < 0 THEN <<-1, -1>>
     ELSE <<IF start > n THEN -1 ELSE IF start < 0 THEN 0 ELSE start, end>>
(* getStartAndEndIndex *)
Indexes(n, p, size) ==
  LET start == Wrapped(n - Wrapped(p * size))
      end == Wrapped(n - Wrapped((p - 1) * size))
  IN IF p < 1 \/ size < 0 THEN <<-1, -1>>
     ELSE <<IF start > n THEN -1 ELSE IF start < 0 THEN 0 ELSE start, IF end > n THEN n ELSE end>>

(* ShallowCopyEndpointStatus, ShallowCopySuiteStatus: a slice, unless one  *)
(* of the indexes is negative.                                             *)
MemoryPage(p, size) ==
  LET indexes == Indexes(InMemory, p, size) IN
  IF indexes[1] < 0 \/ indexes[2] < 0 THEN {}
  ELSE (FirstInMemory + indexes[1])..(FirstInMemory + indexes[2] - 1)

(* ... ORDER BY id DESC LIMIT size OFFSET (page - 1) * size.  SQLite takes *)
(* a negative offset for none.                                             *)
SQLPage(p, size) ==
  LET offset == Wrapped((p - 1) * size) IN
  {id \in FirstRow..inserted : LET before == inserted - id IN
     before >= offset /\ before < size + IF offset < 0 THEN 0 ELSE offset}

Page(p, size) == IF pager = "sql" THEN SQLPage(p, size) ELSE MemoryPage(p, size)

-----------------------------------------------------------------------------
(* InsertEndpointResult: the SQL store deletes old rows, down to           *)
(* KeptResults, only when there are more than ResultSlack above.           *)
InsertOne ==
  /\ inserted < MaxInserted
  /\ inserted' = inserted + 1
  /\ keptRows' = IF keptRows + 1 > KeptResults + ResultSlack THEN KeptResults ELSE keptRows + 1
  /\ UNCHANGED <<pager, newest, page, pageSize, read>>

(* Any request; nobody reads on from there.                                *)
AskForPage ==
  /\ newest = 0
  /\ \E p, s \in Integer64 \cup {NotANumber} :
       /\ page' = PageOf(p)
       /\ pageSize' = PageSizeOf(PageOf(p), s)
  /\ read' = Page(page', pageSize')
  /\ UNCHANGED <<pager, inserted, keptRows, newest>>

BeginReading ==
  /\ newest = 0 /\ inserted > 0
  /\ page' = 1
  /\ pageSize' \in 1..KeptResults
  /\ newest' = inserted
  /\ read' = Page(1, pageSize')
  /\ UNCHANGED <<pager, inserted, keptRows>>

ReadNextPage ==
  /\ newest # 0 /\ page * pageSize <= KeptResults + ResultSlack
  /\ page' = page + 1
  /\ read' = read \cup Page(page', pageSize)
  /\ UNCHANGED <<pager, inserted, keptRows, newest, pageSize>>

PagingInit ==
  /\ pager \in {"memory", "sql"}
  /\ inserted = 0 /\ keptRows = 0 /\ newest = 0 /\ page = 1 /\ pageSize = 1 /\ read = {}
PagingIdle == PagingInit /\ pager = "memory"

PagingNext == InsertOne \/ AskForPage \/ BeginReading \/ ReadNextPage

-----------------------------------------------------------------------------
(* Whatever a request asks for, with integers that wrap around, the slice  *)
(* of the memory store is one that Go can take (memory/util.go:28, 39).    *)
(* A request that does not wrap gets the same from either store, except    *)
(* that the SQL store may add results that memory no longer has, the ones  *)
(* that it has not deleted yet.  And a reader who goes from page to page   *)
(* misses no result that was there when it began and still is, whatever    *)
(* was inserted and evicted meanwhile.                                     *)
PagesMissNothing ==
  /\ LET indexes == Indexes(InMemory, page, pageSize) IN
       indexes[1] >= 0 /\ indexes[2] >= 0 => indexes[1] <= indexes[2] /\ indexes[2] <= InMemory
  /\ page * pageSize < HalfWord =>
       MemoryPage(page, pageSize) = SQLPage(page, pageSize) \cap (FirstInMemory..inserted)
  /\ {id \in FirstKept..newest : \E r \in read : r <= id} \subseteq read
  /\ newest # 0 /\ Page(page, pageSize) = {} => FirstKept..newest \subseteq read
=============================================================================
