------------------------------ MODULE OwnerSearch ------------------------------
(***************************************************************************)
(* The owner search: handleWHOISOwnerSearch pages through the records of   *)
(* one owner with LIMIT and OFFSET, the most recently seen first, while    *)
(* lookups insert and update records; with no record at all the first page *)
(* comes from a reverse-WHOIS provider (reverse.go).  The client follows   *)
(* the pagination to its last page.                                        *)
(***************************************************************************)
EXTENDS Naturals, FiniteSets, SequencesExt

CONSTANTS
  Rows,          \* the queries that may be stored, in the order of their row ids
  PageSize,         \* records to a page
  Provided,      \* what the provider lists, if one is configured
  MaxUpserts,    \* bound: upserts
  MaxSearches    \* bound: searches begun

ASSUME OwnerSearchAssumption ==
  /\ Rows \subseteq Nat \ {0} /\ IsFiniteSet(Rows) /\ IsFiniteSet(Provided)
  /\ PageSize \in 1..500 /\ MaxUpserts \in Nat /\ MaxSearches \in Nat

VARIABLES
  row,       \* row[q]: last_seen, and whether the owner's name is in it; 0: not stored
  clock,     \* seconds
  search,    \* the client: the page it asks for, what it has been shown, where it stands
  touched,   \* history variable: the records upserted since the client began
  receded,   \* history variable: a record lost the owner's name or went back in time, or a
             \* count failed
  upserts, searches

searchVars == <<row, clock, search, touched, receded, upserts, searches>>

Absent == [seen |-> 0, owned |-> FALSE]
Matching == {q \in Rows : row[q].owned}
NoSearch == [at |-> "idle", page |-> 0, shown |-> {}, local |-> {}, pages |-> 0]

\* last_seen in ascending order.
MutantSearchByOwner(limit, offset) ==
  LET first(q, r) == row[q].seen < row[r].seen \/ (row[q].seen = row[r].seen /\ q < r)
      place(q) == Cardinality({r \in Matching : first(r, q)}) + 1
  IN  {q \in Matching : place(q) \in (offset + 1)..(offset + limit)}

\* SearchByOwner: ORDER BY last_seen DESC LIMIT ? OFFSET ?
SearchByOwner(limit, offset) ==
  LET first(q, r) == row[q].seen > row[r].seen \/ (row[q].seen = row[r].seen /\ q < r)
      place(q) == Cardinality({r \in Matching : first(r, q)}) + 1
  IN  {q \in Matching : place(q) \in (offset + 1)..(offset + limit)}

CountByOwner == Cardinality(Matching)
Pages(total) == (total + PageSize - 1) \div PageSize
-----------------------------------------------------------------------------
SearchInit ==
  /\ row = [q \in Rows |-> Absent]
  /\ clock = 1
  /\ search = NoSearch
  /\ touched = {} /\ receded = FALSE
  /\ upserts = 0 /\ searches = 0

\* UpsertRecord: the row is written with a time read before the database was waited for.
Upsert(q, owned, stamp) ==
  /\ upserts < MaxUpserts
  /\ upserts' = upserts + 1
  /\ row' = [row EXCEPT ![q] = [seen |-> stamp, owned |-> owned]]
  /\ touched' = touched \cup {q}
  /\ receded' = (receded \/ (row[q].owned /\ (~owned \/ stamp < row[q].seen)))
  /\ UNCHANGED <<clock, search, searches>>

Second ==
  /\ clock <= MaxUpserts
  /\ clock' = clock + 1
  /\ UNCHANGED <<row, search, touched, receded, upserts, searches>>

\* The client asks for the first page.
BeginSearch ==
  /\ search.at \in {"idle", "done"} /\ searches < MaxSearches
  /\ searches' = searches + 1
  /\ search' = [NoSearch EXCEPT !.at = "search", !.page = 1]
  /\ touched' = {} /\ receded' = FALSE
  /\ UNCHANGED <<row, clock, upserts>>

\* The handler searches the records ...
SearchRecords ==
  /\ search.at = "search"
  /\ search' = [search EXCEPT !.at = "count",
       !.local = SearchByOwner(PageSize, (search.page - 1) * PageSize)]
  /\ UNCHANGED <<row, clock, touched, receded, upserts, searches>>

\* ... counts them (a failed count leaves the number on this page), asks the provider,
\* on the first page and without records only, and answers.
CountRecords(counted, reached) ==
  LET asks == search.local = {} /\ search.page = 1 /\ reached
      external == IF asks THEN Provided ELSE {}
      total == CASE asks -> Cardinality(external)
                 [] ~asks /\ counted -> CountByOwner
                 [] OTHER -> Cardinality(search.local)
  IN
  /\ search.at = "count"
  /\ search' = [search EXCEPT !.shown = @ \cup search.local \cup external,
       !.local = {}, !.pages = Pages(total),
       !.at = IF search.page < Pages(total) THEN "next" ELSE "done"]
  /\ receded' = (receded \/ ~counted)
  /\ UNCHANGED <<row, clock, touched, upserts, searches>>

\* The client asks for the next page.
NextPage ==
  /\ search.at = "next"
  /\ search' = [search EXCEPT !.at = "search", !.page = @ + 1]
  /\ UNCHANGED <<row, clock, touched, receded, upserts, searches>>

SearchNext ==
  \/ Second \/ BeginSearch \/ SearchRecords \/ NextPage
  \/ \E q \in Rows, owned \in BOOLEAN, late \in {0, 1} : clock > late /\ Upsert(q, owned, clock - late)
  \/ \E counted, reached \in BOOLEAN : CountRecords(counted, reached)

SearchSpec == SearchInit /\ [][SearchNext]_searchVars
-----------------------------------------------------------------------------
SearchTypeOK ==
  /\ row \in [Rows -> [seen : 0..clock, owned : BOOLEAN]]
  /\ clock \in 1..(MaxUpserts + 1)
  /\ search.at \in {"idle", "search", "count", "next", "done"}
  /\ search.local \subseteq Rows /\ search.shown \subseteq Rows \cup Provided
  /\ touched \subseteq Rows /\ receded \in BOOLEAN
  /\ upserts \in 0..MaxUpserts /\ searches \in 0..MaxSearches

\* The pages move under the client while it reads them, and still it misses nothing that
\* stands: once it has read the last page it has been shown every record of the owner
\* that was not upserted meanwhile, unless a count of the records failed, or some record
\* lost the owner's name or was written with an earlier time, which moves the others up
\* a place past it (SearchByOwner, CountByOwner, handleWHOISOwnerSearch).
NothingStandingMissed ==
  search.at = "done" /\ ~receded => Matching \ touched \subseteq search.shown
=============================================================================
