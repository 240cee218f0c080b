------------------------ MODULE WorkforceViewProofs ------------------------
(***************************************************************************)
(* The table's types, and what may take it to a page that is not there,    *)
(* for any agents, teams, searches, columns and sizes of a page.           *)
(***************************************************************************)
EXTENDS WorkforceView, FiniteSetTheorems, TLAPS

-----------------------------------------------------------------------------
(* How many pages there are *)

\* The agents listed are finitely many.
LEMMA FilteredFinite ==
    IsFiniteSet(filteredAgents) /\ Cardinality(filteredAgents) \in Nat
<1>1. 1 \in Int /\ NumAgents \in Int
  BY TableAssumption
<1>2. IsFiniteSet(Agents)
  BY <1>1, FS_Interval, Zenon DEF Agents
<1>3. filteredAgents \subseteq Agents
  BY DEF filteredAgents
<1> QED BY <1>2, <1>3, FS_Subset, FS_CardinalityType

\* There is a page at least, whatever is listed.
LEMMA PagesCounted ==
    ASSUME pageSize \in PageSizes
    PROVE  totalPages \in Nat /\ 1 <= totalPages
<1>1. pageSize \in Nat \ {0}
  BY TableAssumption
<1>2. Cardinality(filteredAgents) \in Nat
  BY FilteredFinite
<1>3. ASSUME NEW n \in Nat \ {0}, NEW k \in Nat \ {0}
      PROVE  (n + k - 1) \div k \in Nat /\ 1 <= (n + k - 1) \div k
  OBVIOUS
<1> QED BY <1>1, <1>2, <1>3 DEF totalPages

-----------------------------------------------------------------------------
(* Types *)

\* The filters, the order and the page keep their types.
THEOREM TableTypeCorrect == Spec => []TypeOK
<1>1. Init => TypeOK
  BY TableAssumption DEF Init, TypeOK, Unmounted, Tabs, SortFields
<1>2. TypeOK /\ [Next]_vars => TypeOK'
  <2> SUFFICES ASSUME TypeOK, [Next]_vars PROVE TypeOK'
    OBVIOUS
  <2> USE DEF TypeOK
  <2>1. CASE Refresh
    BY <2>1 DEF Refresh, filters, order, paging
  <2>2. ASSUME NEW tab \in Tabs, SelectTab(tab) PROVE TypeOK'
    <3>1. tab \in Tabs /\ status' = status /\ activeViewTab' = tab
      BY <2>2 DEF SelectTab
    <3>2. CASE activeViewTab = "workforce" /\ tab # "workforce"
      <4>1. Unmounted(statusFilter', teamFilter', searchQuery', sortField', sortAsc',
                      currentPage', pageSize', viewMode')
        BY <2>2, <3>2 DEF SelectTab
      <4>2. "id" \in SortFields /\ FirstPageSize \in PageSizes
        BY TableAssumption DEF SortFields
      <4> QED BY <3>1, <4>1, <4>2 DEF Unmounted
    <3>3. CASE UNCHANGED <<filters, order, paging, viewMode>>
      BY <3>1, <3>3 DEF filters, order, paging
    <3> QED BY <2>2, <3>2, <3>3 DEF SelectTab
  <2>3. ASSUME NEW st \in Cards, ToggleStatus(st) PROVE TypeOK'
    BY <2>3 DEF ToggleStatus, Mounted, order, paging
  <2>4. ASSUME NEW team \in Teams \cup {"All"}, PickTeam(team) PROVE TypeOK'
    BY <2>4 DEF PickTeam, Mounted, order
  <2>5. ASSUME NEW matched \in Searches, Search(matched) PROVE TypeOK'
    BY <2>5, TableAssumption DEF Search, Mounted, order
  <2>6. ASSUME NEW field \in SortFields, HandleSort(field) PROVE TypeOK'
    BY <2>6 DEF HandleSort, Mounted, filters, paging
  <2>7. ASSUME NEW size \in PageSizes, PickPageSize(size) PROVE TypeOK'
    BY <2>7 DEF PickPageSize, Mounted, filters, order
  <2>8. CASE Previous
    BY <2>8 DEF Previous, Mounted, filters, order
  <2>9. CASE NextPage
    BY <2>9 DEF NextPage, Mounted, filters, order
  <2>10. ASSUME NEW view \in {"table", "grid"}, PickView(view) PROVE TypeOK'
    BY <2>10 DEF PickView, Mounted, filters, order, paging
  <2>11. CASE UNCHANGED vars
    BY <2>11 DEF vars, filters, order, paging
  <2> QED BY <2>1, <2>2, <2>3, <2>4, <2>5, <2>6, <2>7, <2>8, <2>9, <2>10, <2>11 DEF Next
<1> QED BY <1>1, <1>2, PTL DEF Spec

-----------------------------------------------------------------------------
(* Stranding *)

\* What is listed, and on how many pages, follows from the data, the filters and
\* the size of a page.
LEMMA SamePages ==
    UNCHANGED <<status, filters, pageSize>> => totalPages' = totalPages
BY DEF filters, totalPages, filteredAgents

\* PagesCounted of the next state
LEMMA PagesCountedNext ==
    ASSUME pageSize' \in PageSizes
    PROVE  totalPages' \in Nat /\ 1 <= totalPages'
<1>1. pageSize' \in Nat \ {0}
  BY TableAssumption
<1>2. Cardinality(filteredAgents') \in Nat
  <2>1. 1 \in Int /\ NumAgents \in Int
    BY TableAssumption
  <2>2. IsFiniteSet(Agents)
    BY <2>1, FS_Interval, Zenon DEF Agents
  <2>3. filteredAgents' \subseteq Agents
    BY DEF filteredAgents
  <2> QED BY <2>2, <2>3, FS_Subset, FS_CardinalityType
<1>3. ASSUME NEW n \in Nat \ {0}, NEW k \in Nat \ {0}
      PROVE  (n + k - 1) \div k \in Nat /\ 1 <= (n + k - 1) \div k
  OBVIOUS
<1> QED BY <1>1, <1>2, <1>3 DEF totalPages

\* Nothing but a status card and new data leaves the table on a page that is not
\* there (the controls of WorkforceView.tsx:190-411).
THEOREM StrandedByStatusOnly == Spec => OnlyStatusStrands
<1> DEFINE Strands == currentPage <= totalPages /\ currentPage' > totalPages'
           Excused == statusFilter' # statusFilter \/ status' # status
<1>1. TypeOK /\ TypeOK' /\ [Next]_vars => (Strands => Excused)
  <2> SUFFICES ASSUME TypeOK, TypeOK', [Next]_vars, Strands, ~Excused PROVE FALSE
    OBVIOUS
  <2>1. /\ totalPages \in Nat /\ totalPages' \in Nat /\ 1 <= totalPages'
        /\ currentPage \in Nat /\ currentPage' \in Nat
    BY PagesCounted, PagesCountedNext DEF TypeOK
  <2>2. currentPage' # 1
    BY <2>1
  <2>3. UNCHANGED <<filters, pageSize>> => currentPage' > currentPage
    BY <2>1, SamePages
  <2>4. CASE UNCHANGED <<filters, paging>>
    BY <2>1, <2>3, <2>4 DEF paging
  <2>5. CASE Previous
    BY <2>1, <2>3, <2>5 DEF Previous, Mounted
  <2>6. CASE NextPage
    <3>1. UNCHANGED <<filters, pageSize>> /\ UNCHANGED status
      BY <2>6 DEF NextPage, Mounted
    <3>2. currentPage' = currentPage + 1 /\ currentPage < totalPages
      BY <2>6 DEF NextPage
    <3> QED BY <2>1, <3>1, <3>2, SamePages
  <2>7. ASSUME NEW tab \in Tabs, SelectTab(tab) PROVE FALSE
    BY <2>2, <2>4, <2>7 DEF SelectTab, Unmounted
  <2>8. ASSUME NEW st \in Cards, ToggleStatus(st) PROVE FALSE
    BY <2>4, <2>8 DEF ToggleStatus, filters
  <2>9. ASSUME NEW team \in Teams \cup {"All"}, PickTeam(team) PROVE FALSE
    BY <2>2, <2>9 DEF PickTeam
  <2>10. ASSUME NEW matched \in Searches, Search(matched) PROVE FALSE
    BY <2>2, <2>10 DEF Search
  <2>11. ASSUME NEW field \in SortFields, HandleSort(field) PROVE FALSE
    BY <2>4, <2>11 DEF HandleSort
  <2>12. ASSUME NEW size \in PageSizes, PickPageSize(size) PROVE FALSE
    BY <2>2, <2>12 DEF PickPageSize
  <2>13. ASSUME NEW view \in {"table", "grid"}, PickView(view) PROVE FALSE
    BY <2>4, <2>13 DEF PickView
  <2>14. CASE Refresh \/ UNCHANGED vars
    BY <2>4, <2>14 DEF Refresh, vars
  <2> QED BY <2>5, <2>6, <2>7, <2>8, <2>9, <2>10, <2>11, <2>12, <2>13, <2>14 DEF Next
<1> QED BY <1>1, TableTypeCorrect, PTL DEF Spec, OnlyStatusStrands

-----------------------------------------------------------------------------
(* Paging: the order of the rows is total, so that the index of a row is a  *)
(* bijection onto the places of the list, which the pages cut into pieces.  *)

\* Every agent has a key to sort by.
LEMMA SortKeysAreNumbers ==
    ASSUME TypeOK, NEW a \in Agents
    PROVE  SortKey(a) \in Int /\ a \in Int
<1>1. a \in Int
  BY DEF Agents
<1>2. CASE sortField = "status"
  <2>1. status[a] \in Statuses /\ Statuses \subseteq DOMAIN Rank
    BY TableAssumption DEF TypeOK
  <2>2. \A st \in DOMAIN Rank : Rank[st] \in Int
    BY DEF Rank
  <2> QED BY <1>1, <1>2, <2>1, <2>2 DEF SortKey
<1>3. CASE sortField # "status"
  <2>1. sortField \in DOMAIN Columns
    BY <1>3 DEF TypeOK, SortFields
  <2>2. Columns[sortField] \in [Agents -> Nat]
    BY <2>1, TableAssumption
  <2> QED BY <1>1, <1>3, <2>2 DEF SortKey
<1> QED BY <1>2, <1>3

\* The order of the rows is irreflexive, transitive and total.
LEMMA RowsOrdered ==
    ASSUME TypeOK, NEW a \in Agents, NEW b \in Agents, NEW c \in Agents
    PROVE  /\ ~Before(a, a)
           /\ Before(a, b) /\ Before(b, c) => Before(a, c)
           /\ a # b => Before(a, b) \/ Before(b, a)
<1>1. /\ SortKey(a) \in Int /\ SortKey(b) \in Int /\ SortKey(c) \in Int
      /\ a \in Int /\ b \in Int /\ c \in Int
  BY SortKeysAreNumbers
<1> QED BY <1>1 DEF Before

\* An agent's place is within the list, and below that of the agents after it.
LEMMA Places ==
    ASSUME TypeOK, NEW a \in filteredAgents
    PROVE  /\ Index(a) \in 0 .. Cardinality(filteredAgents) - 1
           /\ \A b \in filteredAgents : Before(a, b) => Index(a) < Index(b)
<1> DEFINE Preds(x) == {b \in filteredAgents : Before(b, x)}
<1>1. filteredAgents \subseteq Agents
  BY DEF filteredAgents
<1>2. ASSUME NEW x \in filteredAgents
      PROVE  /\ IsFiniteSet(Preds(x)) /\ Index(x) \in Nat
             /\ Index(x) = Cardinality(Preds(x))
             /\ Cardinality(Preds(x) \cup {x}) = Index(x) + 1
  <2>1. Preds(x) \in SUBSET filteredAgents
    OBVIOUS
  <2>2. IsFiniteSet(Preds(x)) /\ Cardinality(Preds(x)) \in Nat
    BY <2>1, FilteredFinite, FS_Subset, FS_CardinalityType
  <2>3. x \notin Preds(x)
    BY <1>1, RowsOrdered
  <2>4. Index(x) = Cardinality(Preds(x))
    BY DEF Index
  <2> QED BY <2>2, <2>3, <2>4, FS_AddElement
<1>3. Preds(a) \cup {a} \in SUBSET filteredAgents
  OBVIOUS
<1>4. ASSUME NEW b \in filteredAgents, Before(a, b)
      PROVE  Preds(a) \cup {a} \in SUBSET Preds(b)
  BY <1>1, <1>4, RowsOrdered
<1> HIDE DEF Preds
<1>5. Index(a) \in Nat /\ Cardinality(Preds(a) \cup {a}) = Index(a) + 1
  BY <1>2
<1>6. Cardinality(Preds(a) \cup {a}) <= Cardinality(filteredAgents)
  BY <1>3, FilteredFinite, FS_Subset
<1>7. ASSUME NEW b \in filteredAgents, Before(a, b) PROVE Index(a) < Index(b)
  <2>1. IsFiniteSet(Preds(b)) /\ Index(b) \in Nat /\ Index(b) = Cardinality(Preds(b))
    BY <1>2
  <2>2. Cardinality(Preds(a) \cup {a}) <= Cardinality(Preds(b))
    BY <1>4, <1>7, <2>1, FS_Subset
  <2> QED BY <1>5, <2>1, <2>2
<1>8. Index(a) \in 0 .. Cardinality(filteredAgents) - 1
  BY <1>5, <1>6, FilteredFinite
<1> QED BY <1>7, <1>8

\* Two agents have two places.
LEMMA PlacesDiffer ==
    ASSUME TypeOK, NEW a \in filteredAgents, NEW b \in filteredAgents, Index(a) = Index(b)
    PROVE  a = b
<1>1. a \in Agents /\ b \in Agents
  BY DEF filteredAgents
<1>2. ASSUME a # b PROVE FALSE
  <2>1. Before(a, b) \/ Before(b, a)
    BY <1>1, <1>2, RowsOrdered
  <2>2. Index(a) < Index(b) \/ Index(b) < Index(a)
    BY <2>1, Places
  <2>3. Index(a) \in Int
    BY Places, FilteredFinite
  <2> QED BY <2>2, <2>3
<1> QED BY <1>2

\* Every place is somebody's.
LEMMA PlacesTaken ==
    ASSUME TypeOK, NEW i \in 0 .. Cardinality(filteredAgents) - 1
    PROVE  \E a \in filteredAgents : Index(a) = i
<1> DEFINE n == Cardinality(filteredAgents)
           place == [a \in filteredAgents |-> Index(a)]
<1>1. n \in Nat /\ IsFiniteSet(filteredAgents)
  BY FilteredFinite
<1>2. 0 \in Int /\ n - 1 \in Int /\ (IF 0 > n - 1 THEN 0 ELSE (n - 1) - 0 + 1) = n
  BY <1>1
<1>3. IsFiniteSet(0 .. n - 1) /\ Cardinality(0 .. n - 1) = n
  BY <1>2, FS_Interval
<1>4. place \in [filteredAgents -> 0 .. n - 1]
  BY Places
<1>5. place \in Injection(filteredAgents, 0 .. n - 1)
  BY <1>4, PlacesDiffer DEF Injection, IsInjective
<1>6. place \in Surjection(filteredAgents, 0 .. n - 1)
  BY <1>3, <1>5, FS_Injection
<1> QED BY <1>6 DEF Surjection

\* Rounding up and down, in terms of products
LEMMA Rounding ==
    ASSUME NEW n \in Nat, NEW k \in Nat \ {0}
    PROVE  /\ n \div k \in Nat
           /\ (n \div k) * k <= n
           /\ n < (n \div k) * k + k
<1>1. n = k * (n \div k) + (n % k) /\ n % k \in 0 .. k - 1 /\ n \div k \in Nat
  OBVIOUS
<1> QED BY <1>1

\* Products with a positive number are ordered as the numbers are.
LEMMA Products ==
    ASSUME NEW x \in Nat, NEW y \in Nat, NEW k \in Nat \ {0}
    PROVE  x * k < y * k <=> x < y
OBVIOUS

\* The first place of a page, as a product
LEMMA Predecessor ==
    ASSUME NEW x \in Nat, NEW k \in Nat
    PROVE  (x - 1) * k = x * k - k /\ x * k \in Nat
OBVIOUS

\* The pages reach to the end of the list, and all but the last lie within it.
LEMMA PagesReach ==
    ASSUME TypeOK
    PROVE  /\ pageSize \in Nat \ {0}
           /\ Cardinality(filteredAgents) <= totalPages * pageSize
           /\ totalPages > 1 => (totalPages - 1) * pageSize < Cardinality(filteredAgents)
<1> DEFINE n == Cardinality(filteredAgents)
<1>1. pageSize \in Nat \ {0}
  BY TableAssumption DEF TypeOK
<1>2. n \in Nat
  BY FilteredFinite
<1>3. CASE n = 0
  BY <1>1, <1>3 DEF totalPages
<1>4. CASE n # 0
  <2>1. totalPages = (n + pageSize - 1) \div pageSize
    BY <1>4 DEF totalPages
  <2> HIDE DEF n
  <2>2. n + pageSize - 1 \in Nat
    BY <1>1, <1>2
  <2>3. /\ totalPages \in Nat
        /\ totalPages * pageSize <= n + pageSize - 1
        /\ n + pageSize - 1 < totalPages * pageSize + pageSize
    BY <1>1, <2>1, <2>2, Rounding
  <2>4. (totalPages - 1) * pageSize = totalPages * pageSize - pageSize
        /\ totalPages * pageSize \in Nat
    BY <1>1, <2>3, Predecessor
  <2>5. n <= totalPages * pageSize /\ (totalPages - 1) * pageSize < n
    BY <1>1, <1>2, <2>3, <2>4
  <2> QED BY <1>1, <2>5 DEF n
<1> QED BY <1>3, <1>4

\* Every agent listed is on a page.
LEMMA PagesCover ==
    ASSUME TypeOK, NEW a \in filteredAgents
    PROVE  \E p \in 1..totalPages : a \in Page(p)
<1> DEFINE i == Index(a)
           q == i \div pageSize
<1>1. pageSize \in Nat \ {0} /\ Cardinality(filteredAgents) <= totalPages * pageSize
  BY PagesReach
<1>2. totalPages \in Nat /\ Cardinality(filteredAgents) \in Nat
  BY PagesCounted, FilteredFinite DEF TypeOK
<1>3. i \in 0 .. Cardinality(filteredAgents) - 1
  BY Places
<1> HIDE DEF i
<1>4. i \in Nat /\ i < totalPages * pageSize
  <2>1. totalPages * pageSize \in Nat
    BY <1>1, <1>2
  <2> QED BY <1>1, <1>2, <1>3, <2>1
<1>5. q \in Nat /\ q * pageSize <= i /\ i < q * pageSize + pageSize
  BY <1>1, <1>4, Rounding
<1> HIDE DEF q
<1>6. q * pageSize \in Nat /\ totalPages * pageSize \in Nat
  BY <1>1, <1>2, <1>5
<1>7. q * pageSize < totalPages * pageSize
  BY <1>4, <1>5, <1>6
<1>8. q < totalPages
  BY <1>1, <1>2, <1>5, <1>7, Products
<1>9. q + 1 \in 1..totalPages /\ (q + 1) - 1 = q
  BY <1>2, <1>5, <1>8
<1>10. i \in q * pageSize .. q * pageSize + pageSize - 1
  BY <1>1, <1>4, <1>5, <1>6
<1>11. a \in Page(q + 1)
  BY <1>9, <1>10 DEF Page, i
<1> QED BY <1>9, <1>11

\* Two pages have no agent in common.
LEMMA PagesDisjoint ==
    ASSUME TypeOK, NEW p \in Nat \ {0}, NEW q \in Nat, p < q
    PROVE  Page(p) \cap Page(q) = {}
<1> SUFFICES ASSUME NEW a \in filteredAgents, NEW i \in Nat, i = Index(a),
                    i \in (p - 1) * pageSize .. (p - 1) * pageSize + pageSize - 1,
                    i \in (q - 1) * pageSize .. (q - 1) * pageSize + pageSize - 1
             PROVE  FALSE
  <2>1. \A a \in filteredAgents : Index(a) \in Nat
    BY Places, FilteredFinite
  <2> QED BY <2>1 DEF Page
<1>1. pageSize \in Nat \ {0}
  BY PagesReach
<1>2. (p - 1) * pageSize = p * pageSize - pageSize /\ p * pageSize \in Nat
  BY <1>1, Predecessor
<1>3. i < p * pageSize
  BY <1>1, <1>2
<1>4. q - 1 \in Nat /\ ~(q - 1 < p)
  OBVIOUS
<1>5. ~((q - 1) * pageSize < p * pageSize)
  BY <1>1, <1>4, Products
<1>6. (q - 1) * pageSize \in Nat
  BY <1>1, <1>4
<1> QED BY <1>2, <1>3, <1>5, <1>6

\* A page before the last is full.
LEMMA PagesFull ==
    ASSUME TypeOK, NEW p \in 1 .. totalPages - 1
    PROVE  Cardinality(Page(p)) = pageSize
<1> DEFINE n == Cardinality(filteredAgents)
           start == (p - 1) * pageSize
           places == start .. start + pageSize - 1
           place == [a \in Page(p) |-> Index(a)]
<1>1. pageSize \in Nat \ {0} /\ totalPages \in Nat /\ p \in Nat /\ n \in Nat
  BY PagesReach, PagesCounted, FilteredFinite DEF TypeOK
<1>2. (totalPages - 1) * pageSize < n
  BY <1>1, PagesReach
<1>3. start = p * pageSize - pageSize /\ p * pageSize \in Nat /\ start \in Nat
  <2>1. p - 1 \in Nat
    BY <1>1
  <2> QED BY <1>1, <2>1, Predecessor
<1>4. p * pageSize <= (totalPages - 1) * pageSize
  <2>1. totalPages - 1 \in Nat /\ ~(totalPages - 1 < p)
    BY <1>1
  <2>2. ~((totalPages - 1) * pageSize < p * pageSize)
    BY <1>1, <2>1, Products
  <2>3. (totalPages - 1) * pageSize \in Nat
    BY <1>1, <2>1
  <2> QED BY <1>3, <2>2, <2>3
<1> HIDE DEF start
<1>5. ASSUME NEW i \in places PROVE i \in 0 .. n - 1
  <2>1. (totalPages - 1) * pageSize \in Int
    BY <1>1
  <2> QED BY <1>1, <1>2, <1>3, <1>4, <2>1
<1>6. IsFiniteSet(places) /\ Cardinality(places) = pageSize
  <2>1. start \in Int /\ start + pageSize - 1 \in Int /\ ~(start > start + pageSize - 1)
        /\ (start + pageSize - 1) - start + 1 = pageSize
    BY <1>1, <1>3
  <2> QED BY <2>1, FS_Interval
<1>7. Page(p) = {a \in filteredAgents : Index(a) \in places}
  BY DEF Page, start
<1> HIDE DEF places, n
<1>8. place \in [Page(p) -> places] /\ Page(p) \subseteq filteredAgents
  BY <1>7
<1>9. place \in Injection(Page(p), places)
  BY <1>8, PlacesDiffer DEF Injection, IsInjective
<1>10. place \in Surjection(Page(p), places)
  <2>1. ASSUME NEW i \in places PROVE \E a \in Page(p) : place[a] = i
    <3>1. PICK a \in filteredAgents : Index(a) = i
      BY <1>5, PlacesTaken DEF n
    <3>2. a \in Page(p)
      BY <1>7, <3>1
    <3> QED BY <3>1, <3>2
  <2> QED BY <1>8, <2>1 DEF Surjection
<1> QED BY <1>6, <1>9, <1>10, FS_Injection

\* A page there is shows somebody, if anybody is listed.
LEMMA PagesInhabited ==
    ASSUME TypeOK, filteredAgents # {}, NEW p \in 1..totalPages
    PROVE  Page(p) # {}
<1> DEFINE n == Cardinality(filteredAgents)
           start == (p - 1) * pageSize
<1>1. pageSize \in Nat \ {0} /\ totalPages \in Nat /\ p \in Nat /\ p - 1 \in Nat /\ n \in Nat
  BY PagesReach, PagesCounted, FilteredFinite DEF TypeOK
<1>2. n > 0
  BY FilteredFinite, FS_EmptySet, <1>1
<1>3. start \in Nat
  BY <1>1
<1>4. start < n
  <2>1. CASE p < totalPages
    <3>1. totalPages - 1 \in Nat /\ ~(totalPages - 1 < p - 1) /\ totalPages > 1
      BY <1>1, <2>1
    <3>2. ~((totalPages - 1) * pageSize < start)
      BY <1>1, <3>1, Products
    <3>3. (totalPages - 1) * pageSize < n /\ (totalPages - 1) * pageSize \in Nat
      BY <1>1, <3>1, PagesReach
    <3> HIDE DEF start, n
    <3> QED BY <1>1, <1>3, <3>2, <3>3
  <2>2. CASE p = totalPages /\ totalPages > 1
    BY <2>2, PagesReach
  <2>3. CASE p = totalPages /\ totalPages = 1
    <3>1. start = 0
      BY <1>1, <2>3
    <3> QED BY <1>2, <3>1
  <2> QED BY <1>1, <2>1, <2>2, <2>3
<1>5. PICK a \in filteredAgents : Index(a) = start
  <2> HIDE DEF start
  <2>1. start \in 0 .. Cardinality(filteredAgents) - 1
    BY <1>1, <1>3, <1>4
  <2> QED BY <2>1, PlacesTaken
<1>6. start \in start .. start + pageSize - 1
  <2> HIDE DEF start
  <2> QED BY <1>1, <1>3
<1>7. a \in Page(p)
  BY <1>5, <1>6 DEF Page
<1> QED BY <1>7

\* The pages share out the agents listed, whatever the order and its ties
\* (WorkforceView.tsx:93-111).
THEOREM PagesShareTheList == Spec => []PagesShareOut
<1>1. TypeOK => PagesShareOut
  <2> SUFFICES ASSUME TypeOK PROVE PagesShareOut
    OBVIOUS
  <2>1. UNION {Page(p) : p \in 1..totalPages} = filteredAgents
    BY PagesCover DEF Page
  <2>2. totalPages \in Nat
    BY PagesCounted DEF TypeOK
  <2>3. ASSUME NEW p \in 1 .. totalPages - 1, NEW q \in p + 1 .. totalPages
        PROVE  Page(p) \cap Page(q) = {}
    <3>1. p \in Nat \ {0} /\ q \in Nat /\ p < q
      BY <2>2
    <3> QED BY <3>1, PagesDisjoint
  <2>4. ASSUME currentPage <= totalPages, Shown = {} PROVE filteredAgents = {}
    <3>1. currentPage \in 1..totalPages
      BY <2>2, <2>4 DEF TypeOK
    <3> QED BY <2>4, <3>1, PagesInhabited DEF Shown
  <2> QED BY <2>1, <2>3, <2>4, PagesFull DEF PagesShareOut
<1> QED BY <1>1, TableTypeCorrect, PTL
=============================================================================
