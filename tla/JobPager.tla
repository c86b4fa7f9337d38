------------------------------ MODULE JobPager ------------------------------
(***************************************************************************)
(* The pages and the selection of the job explorer, over a listing that    *)
(* every refetch, optimistic command or filter may replace.                *)
(*                                                                         *)
(* A row is a number, and a newer one is larger: the listing's order.      *)
(***************************************************************************)
EXTENDS Naturals, FiniteSets

CONSTANTS
  MaxRow,
  PageSizes

VARIABLES
  listing,    (* The rows of the cached listing.                           *)
  narrow,     (* The rows the queue filter and the search keep.            *)
  cursor, pageSize,
  selection   (* The ids whose box is checked, listed or not.              *)

pagerVars == <<listing, narrow, cursor, pageSize, selection>>

AllRows == 1..MaxRow

PagerTypeOK ==
  /\ listing \subseteq AllRows /\ narrow \subseteq AllRows
  /\ cursor \in Nat /\ pageSize \in PageSizes
  /\ selection \subseteq AllRows

PagerInit ==
  /\ listing \in SUBSET AllRows /\ narrow = AllRows
  /\ cursor = 0 /\ pageSize \in PageSizes /\ selection = {}

Filtered == listing \cap narrow

(* The position of a row in the filtered list, newest first.               *)
Before(j) == Cardinality({i \in Filtered : i > j})

(* filtered.slice(cursor, cursor + pageSize).                              *)
Page == {j \in Filtered : cursor <= Before(j) /\ Before(j) < cursor + pageSize}

CanPrevious == cursor # 0
CanNext == cursor + pageSize < Cardinality(Filtered)

Previous ==
  /\ CanPrevious
  /\ cursor' = IF cursor > pageSize THEN cursor - pageSize ELSE 0
  /\ UNCHANGED <<listing, narrow, pageSize, selection>>

NextPage ==
  /\ CanNext
  /\ cursor' = cursor + pageSize
  /\ UNCHANGED <<listing, narrow, pageSize, selection>>

SetPageSizeInPlace(n) ==
  /\ pageSize' = n /\ UNCHANGED cursor
  /\ UNCHANGED <<listing, narrow, selection>>

SetPageSize(n) ==
  /\ pageSize' = n /\ cursor' = 0
  /\ UNCHANGED <<listing, narrow, selection>>

(* The selects and the search box go back to the first page.               *)
Narrow(S) ==
  /\ narrow' = S /\ cursor' = 0
  /\ UNCHANGED <<listing, pageSize, selection>>

(* The crosses on the badges and "Clear filters" do not.                   *)
ClearBadge ==
  /\ narrow # AllRows /\ narrow' = AllRows
  /\ UNCHANGED <<listing, cursor, pageSize, selection>>

(* A row's box, or the box in the header, which is for the page alone.     *)
Select ==
  /\ \/ \E j \in Page : selection' = IF j \in selection THEN selection \ {j} ELSE selection \cup {j}
     \/ selection' = IF Page \subseteq selection THEN selection \ Page ELSE selection \cup Page
  /\ UNCHANGED <<listing, narrow, cursor, pageSize>>

(* The bulk menu forgets the selection, and a delete hides at once every   *)
(* listed row of it, those of other pages and filters too.                 *)
SelectedRows == listing \cap selection

Bulk ==
  /\ selection # {} /\ selection' = {}
  /\ \/ UNCHANGED listing
     \/ listing' = listing \ SelectedRows
  /\ UNCHANGED <<narrow, cursor, pageSize>>

(* The listing is fetched again, rolled back, or that of another filter.   *)
Relist ==
  /\ \E S \in SUBSET AllRows : listing' = S
  /\ UNCHANGED <<narrow, cursor, pageSize, selection>>

PagerNext ==
  \/ Previous \/ NextPage \/ ClearBadge \/ Select \/ Bulk \/ Relist
  \/ \E n \in PageSizes : SetPageSize(n)
  \/ \E S \in SUBSET AllRows : Narrow(S)

-----------------------------------------------------------------------------
(* Turning a page never shows a row of the page it leaves, and "Next" is   *)
(* offered only when there is more to show (the pager of jobs/page.tsx),   *)
(* whatever the list, the filters and the page size were before: the       *)
(* cursor is always at the start of a page.                                *)
TurningShowsOtherRows ==
  [][/\ Previous \/ NextPage => Page' \cap Page = {}
     /\ NextPage => Page' # {}]_pagerVars
=============================================================================
