--------------------------- MODULE WorkforceView ---------------------------
(***************************************************************************)
(* The agent table of the dashboard                                        *)
(* (dashboard/src/components/WorkforceView.tsx) in the tabs of App.tsx:    *)
(* filters, a sort order and pages over a list of agents that every tick   *)
(* of the dialer replaces.  Leaving the tab unmounts the table and with it *)
(* all that was chosen.                                                    *)
(***************************************************************************)
EXTENDS Integers, FiniteSets

CONSTANTS
    NumAgents,   \* 50 in the code
    Team,        \* the team of each agent
    Statuses,    \* those an agent of the data may have
    Searches,    \* what is typed in the search field: the set of agents it matches
    PageSizes, FirstPageSize,  \* {10, 25, 50} and 10
    Columns      \* of each column that does not change, the order of its values

Agents == 1..NumAgents
Teams == {Team[a] : a \in Agents}
Tabs == {"overview", "workforce", "audit"}

\* The statuses there is a card of, also when no agent has them
Cards == {"AVAILABLE", "CONNECTED", "DIALING", "WRAP_UP", "RESERVED", "PAUSED", "OFFLINE"}

SortFields == DOMAIN Columns \cup {"status"}

\* The alphabetical order of the statuses
Rank == [AVAILABLE |-> 1, CONNECTED |-> 2, DIALING |-> 3, PAUSED |-> 4, WRAP_UP |-> 5]

ASSUME TableAssumption ==
    /\ NumAgents \in Nat
    /\ Team \in [Agents -> STRING]
    /\ Statuses \subseteq DOMAIN Rank
    /\ Searches \subseteq SUBSET Agents
    /\ PageSizes \subseteq Nat \ {0} /\ FirstPageSize \in PageSizes
    /\ "id" \in DOMAIN Columns
    /\ \A c \in DOMAIN Columns : Columns[c] \in [Agents -> Nat]

ASSUME NoTeamCalledAll == {"All", "ALL"} \cap Teams = {}

VARIABLES
    status,         \* of each agent, in the data shown
    activeViewTab,
    statusFilter, teamFilter,
    searchQuery,    \* the agents it matches; all of them when it is blank
    sortField, sortAsc, currentPage, pageSize, viewMode

filters == <<statusFilter, teamFilter, searchQuery>>
order == <<sortField, sortAsc>>
paging == <<currentPage, pageSize>>
vars == <<status, activeViewTab, filters, order, paging, viewMode>>

-----------------------------------------------------------------------------
(* What is listed *)

filteredAgents ==
    {a \in Agents : /\ statusFilter \in {"ALL", status[a]}
                    /\ teamFilter \in {"ALL", Team[a]}
                    /\ a \in searchQuery}

SortKey(a) == IF sortField = "status" THEN Rank[status[a]] ELSE Columns[sortField][a]

\* Array.prototype.sort is stable, in both directions.
Before(a, b) ==
    \/ IF sortAsc THEN SortKey(a) < SortKey(b) ELSE SortKey(a) > SortKey(b)
    \/ SortKey(a) = SortKey(b) /\ a < b

\* The index of an agent in sortedAgents, from 0
Index(a) == Cardinality({b \in filteredAgents : Before(b, a)})

\* Mutant of totalPages: the last page, not full, is not counted.
totalPagesFull ==
    LET full == Cardinality(filteredAgents) \div pageSize IN IF full = 0 THEN 1 ELSE full

\* The length divided by the size of a page, rounded up, and 1 for an empty list
totalPages ==
    LET n == Cardinality(filteredAgents)
    IN  IF n = 0 THEN 1 ELSE (n + pageSize - 1) \div pageSize

\* slice(start, start + pageSize)
Page(p) ==
    LET start == (p - 1) * pageSize
    IN  {a \in filteredAgents : Index(a) \in start .. start + pageSize - 1}

\* The table shows a page and the grid everything.
Shown == IF viewMode = "table" THEN Page(currentPage) ELSE filteredAgents

-----------------------------------------------------------------------------
\* What the table is mounted with
Unmounted(sf, tf, sq, field, asc, page, size, view) ==
    /\ sf = "ALL" /\ tf = "ALL" /\ sq = Agents
    /\ field = "id" /\ asc = TRUE
    /\ page = 1 /\ size = FirstPageSize
    /\ view = "table"

Init ==
    /\ status \in [Agents -> Statuses]
    /\ activeViewTab = "overview"
    /\ Unmounted(statusFilter, teamFilter, searchQuery, sortField, sortAsc,
                 currentPage, pageSize, viewMode)

\* A tick or a reset of the dialer brings new data, whatever the tab.
Refresh ==
    /\ status' \in [Agents -> Statuses]
    /\ UNCHANGED <<activeViewTab, filters, order, paging, viewMode>>

SelectTab(tab) ==
    /\ activeViewTab' = tab
    /\ IF activeViewTab = "workforce" /\ tab # "workforce"
       THEN Unmounted(statusFilter', teamFilter', searchQuery', sortField', sortAsc',
                      currentPage', pageSize', viewMode')
       ELSE UNCHANGED <<filters, order, paging, viewMode>>
    /\ UNCHANGED status

-----------------------------------------------------------------------------
(* The controls of the table *)

Mounted == activeViewTab = "workforce" /\ UNCHANGED <<status, activeViewTab>>

\* A status card, also of a status no agent has, and "Reset Filter"; the page is kept.
ToggleStatus(st) ==
    /\ Mounted
    /\ statusFilter' = IF statusFilter = st THEN "ALL" ELSE st
    /\ UNCHANGED <<teamFilter, searchQuery, order, paging, viewMode>>

\* The select shows its first option when no option is its value, and fires when
\* another one than that shown is picked.
TeamShown == IF teamFilter \in Teams THEN teamFilter ELSE "All"

PickTeam(team) ==
    /\ Mounted
    /\ team # TeamShown
    /\ teamFilter' = team
    /\ currentPage' = 1
    /\ UNCHANGED <<statusFilter, searchQuery, order, pageSize, viewMode>>

\* Mutant of Search: the page is kept.
SearchInPlace(matched) ==
    /\ Mounted
    /\ searchQuery' = matched
    /\ UNCHANGED <<statusFilter, teamFilter, order, paging, viewMode>>

Search(matched) ==
    /\ Mounted
    /\ searchQuery' = matched
    /\ currentPage' = 1
    /\ UNCHANGED <<statusFilter, teamFilter, order, pageSize, viewMode>>

\* The headers are there in the table only.
HandleSort(field) ==
    /\ Mounted /\ viewMode = "table"
    /\ sortField' = field
    /\ sortAsc' = IF sortField = field THEN ~sortAsc ELSE TRUE
    /\ UNCHANGED <<filters, paging, viewMode>>

PickPageSize(size) ==
    /\ Mounted /\ viewMode = "table"
    /\ pageSize' = size
    /\ currentPage' = 1
    /\ UNCHANGED <<filters, order, viewMode>>

\* Mutant of Previous: the button is never disabled.
PreviousFreely ==
    /\ Mounted /\ viewMode = "table"
    /\ currentPage' = currentPage - 1
    /\ UNCHANGED <<filters, order, pageSize, viewMode>>

Previous ==
    /\ Mounted /\ viewMode = "table"
    /\ currentPage # 1
    /\ currentPage' = currentPage - 1
    /\ UNCHANGED <<filters, order, pageSize, viewMode>>

NextPage ==
    /\ Mounted /\ viewMode = "table"
    /\ currentPage < totalPages
    /\ currentPage' = currentPage + 1
    /\ UNCHANGED <<filters, order, pageSize, viewMode>>

PickView(view) ==
    /\ Mounted
    /\ viewMode' = view
    /\ UNCHANGED <<filters, order, paging>>

Next ==
    \/ Refresh
    \/ \E tab \in Tabs : SelectTab(tab)
    \/ \E st \in Cards : ToggleStatus(st)
    \/ \E team \in Teams \cup {"All"} : PickTeam(team)
    \/ \E matched \in Searches : Search(matched)
    \/ \E field \in SortFields : HandleSort(field)
    \/ \E size \in PageSizes : PickPageSize(size)
    \/ Previous \/ NextPage
    \/ \E view \in {"table", "grid"} : PickView(view)

Spec == Init /\ [][Next]_vars

TypeOK ==
    /\ status \in [Agents -> Statuses]
    /\ activeViewTab \in Tabs
    /\ statusFilter \in {"ALL"} \cup Cards
    /\ teamFilter \in {"ALL", "All"} \cup Teams
    /\ searchQuery \in SUBSET Agents
    /\ sortField \in SortFields
    /\ sortAsc \in BOOLEAN
    /\ currentPage \in Nat \ {0}
    /\ pageSize \in PageSizes
    /\ viewMode \in {"table", "grid"}

-----------------------------------------------------------------------------
\* The pages share out the agents listed, none left out, none twice, and all but
\* the last are full, whatever the order and its ties; so "No agents found matching
\* search criteria." (WorkforceView.tsx:317) is true on every page there is.
PagesShareOut ==
    /\ UNION {Page(p) : p \in 1..totalPages} = filteredAgents
    /\ \A p \in 1 .. totalPages - 1 :
          /\ Cardinality(Page(p)) = pageSize
          /\ \A q \in p + 1 .. totalPages : Page(p) \cap Page(q) = {}
    /\ (currentPage <= totalPages /\ Shown = {}) => filteredAgents = {}

\* The table is left on a page that is not there, hence empty, by a status card or by
\* new data (WorkforceView.tsx:205) and by nothing else: every other control goes back
\* to page 1 or stays inside.
OnlyStatusStrands ==
    [][(currentPage <= totalPages /\ currentPage' > totalPages')
            => (statusFilter' # statusFilter \/ status' # status)]_vars

\* While the select shows "All Teams" (WorkforceView.tsx:255) no agent is left out on
\* account of its team.
AllTeamsListed ==
    TeamShown = "All" =>
        \A a \in searchQuery : statusFilter \in {"ALL", status[a]} => a \in filteredAgents
=============================================================================
