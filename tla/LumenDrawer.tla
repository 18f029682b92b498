----------------------------- MODULE LumenDrawer -----------------------------
(***************************************************************************)
(* One window of lumen-drawer: the apps it knows, the search entry with    *)
(* GTK's delayed search_changed, SearchDb and its results, the paged grid  *)
(* with its dots, and the debounced reload when apps come or go.           *)
(* Closing the reveal after a launch is left to DrawerReveal.              *)
(***************************************************************************)
EXTENDS Integers, Sequences, FiniteSets, SequencesExt

CONSTANTS
    Apps,            \* every app, in order of name
    Installed,       \* the sets of apps that may be installed, the first first
    Queries,         \* texts one can type, other than ""
    Prefix, Fuzzy,   \* query -> apps whose name starts with it / matches it
    PerPage          \* DrawerConfig.per_page

ASSUME DrawerConstants ==
    /\ Apps \in Seq(STRING)
    /\ Installed \in Seq(SUBSET ToSet(Apps)) /\ Installed # <<>>
    /\ Queries \subseteq STRING \ {""} /\ PerPage \in Nat \ {0}
    /\ \A q \in Queries : Prefix[q] \subseteq ToSet(Apps)
                          /\ Fuzzy[q] \subseteq ToSet(Apps)

VARIABLES
    running,         \* the process is there
    version,         \* which of Installed it is now
    apps,            \* the apps the drawer has loaded
    refresh,         \* refresh_source: a reload is due
    query,           \* text of the search entry
    pending,         \* search_changed is due
    db,              \* SearchDb: active, last_query, filtered
    tiles,           \* apps bound to SearchResults
    view,            \* visible child: "grid" or "results"
    grid,            \* PagedGrid: page_count, active_page
    dots             \* PageDots: number, active, visible

ui     == <<query, pending, db, tiles, view, grid, dots>>
drawer == <<running, version, apps, refresh, ui>>

\* The apps of a set by name, which is by place: the k-th is the one at the k-th place.
InOrder(as) ==
    LET places == {i \in DOMAIN Apps : Apps[i] \in as}
    IN  [k \in 1 .. Cardinality(places) |->
            Apps[CHOOSE i \in places : Cardinality({j \in places : j <= i}) = k]]

\* index(): names that start with the query, then other matches, one page.
Index(q, as) ==
    LET all == InOrder(as \intersect Prefix[q])
               \o InOrder((as \intersect Fuzzy[q]) \ Prefix[q])
    IN SubSeq(all, 1, IF Len(all) < PerPage THEN Len(all) ELSE PerPage)

NoSearch == [active |-> FALSE, last |-> "", filtered |-> <<>>]

\* set_query() with the apps `as`.
SetQuery(d, text, as) ==
    IF text = "" THEN NoSearch
    ELSE IF d.active /\ text = d.last THEN d
    ELSE [active |-> TRUE, last |-> text, filtered |-> Index(text, as)]

PagedGrid(as) ==
    [count |-> IF as = {} THEN 1 ELSE (Cardinality(as) + PerPage - 1) \div PerPage,
     page  |-> 0]

PageDots(n, visible) == [count |-> n, active |-> 0, visible |-> visible]

SetActive(ds, page) == IF page < ds.count THEN [ds EXCEPT !.active = page] ELSE ds

\* scroll_to_page(), and the dots that follow page_changed.
ScrollTo(page) ==
    /\ page \in 0 .. grid.count - 1 /\ page # grid.page
    /\ grid' = [grid EXCEPT !.page = page]
    /\ dots' = SetActive(dots, page)

\* sync_query()
SyncQuery ==
    /\ db' = SetQuery(db, query, apps)
    /\ tiles' = IF db'.active THEN db'.filtered ELSE tiles
    /\ view' = IF db'.active THEN "results" ELSE "grid"
    /\ dots' = [dots EXCEPT !.visible = ~db'.active /\ grid.count > 1]

\* reset_view(): clearing the entry emits search_changed at once.
ResetView ==
    /\ query' = "" /\ pending' = FALSE
    /\ db' = SetQuery(db, "", apps)
    /\ grid' = [grid EXCEPT !.page = 0]
    /\ view' = "grid"
    /\ dots' = [SetActive(dots, 0) EXCEPT !.visible = grid.count > 1]

DrawerInit ==
    /\ running = FALSE /\ version = 1 /\ apps = {} /\ refresh = FALSE
    /\ query = "" /\ pending = FALSE /\ db = NoSearch /\ tiles = <<>>
    /\ view = "grid" /\ grid = PagedGrid({}) /\ dots = PageDots(0, FALSE)

\* activate(): the window is built with what is installed now.
Activate ==
    /\ ~running
    /\ running' = TRUE
    /\ apps' = Installed[version]
    /\ grid' = PagedGrid(apps')
    /\ dots' = PageDots(grid'.count, TRUE)
    /\ UNCHANGED <<version, refresh, query, pending, db, tiles, view>>

\* rebuild_windows(): monitors changed; a due reload stays due.
RebuildWindows ==
    /\ running
    /\ apps' = Installed[version]
    /\ query' = "" /\ pending' = FALSE /\ db' = NoSearch /\ tiles' = <<>> /\ view' = "grid"
    /\ grid' = PagedGrid(apps')
    /\ dots' = PageDots(grid'.count, TRUE)
    /\ UNCHANGED <<running, version, refresh>>

Crash ==
    /\ running
    /\ running' = FALSE /\ apps' = {} /\ refresh' = FALSE
    /\ query' = "" /\ pending' = FALSE /\ db' = NoSearch /\ tiles' = <<>>
    /\ view' = "grid" /\ grid' = PagedGrid({}) /\ dots' = PageDots(0, FALSE)
    /\ UNCHANGED version

\* A key changes the entry's text; a text that is cleared is synced at once.
Type(text) ==
    /\ text # query
    /\ query' = text /\ pending' = TRUE
    /\ UNCHANGED <<running, version, apps, refresh, db, tiles, view, grid, dots>>

Clear ==
    /\ query # ""
    /\ query' = "" /\ pending' = FALSE
    /\ db' = SetQuery(db, "", apps) /\ view' = "grid"
    /\ dots' = [dots EXCEPT !.visible = grid.count > 1]
    /\ UNCHANGED <<running, version, apps, refresh, tiles, grid>>

SearchChanged ==
    /\ pending /\ pending' = FALSE
    /\ SyncQuery
    /\ UNCHANGED <<running, version, apps, refresh, query, grid>>

\* Enter: sync_query(); launch_first() if there is a result.
EnterFinds   == query # "" /\ SetQuery(db, query, apps).filtered # <<>>
EnterLaunches ==
    /\ EnterFinds
    /\ tiles' = SetQuery(db, query, apps).filtered
    /\ query' = "" /\ pending' = FALSE
    /\ db' = SetQuery(SetQuery(db, query, apps), "", apps)
    /\ grid' = [grid EXCEPT !.page = 0]
    /\ view' = "grid"
    /\ dots' = [SetActive(dots, 0) EXCEPT !.visible = grid.count > 1]
    /\ UNCHANGED <<running, version, apps, refresh>>

EnterSearches ==
    /\ ~EnterFinds
    /\ SyncQuery
    /\ UNCHANGED <<running, version, apps, refresh, query, pending, grid>>

\* A launch by a tile or by Alt+digit, and Escape, reset the view.
Launchable ==
    \/ view = "grid" /\ apps # {}
    \/ db.active /\ tiles # <<>>

Dismiss == ResetView /\ UNCHANGED <<running, version, apps, refresh, tiles>>

\* Left and Right; a dot or a swipe.
TurnPage ==
    /\ \/ ~db.active /\ \E p \in {grid.page - 1, grid.page + 1} : ScrollTo(p)
       \/ dots.visible /\ \E p \in 0 .. dots.count - 1 : ScrollTo(p)
    /\ UNCHANGED <<running, version, apps, refresh, query, pending, db, tiles, view>>

\* Apps are installed or removed; every change re-arms the one timer.
AppsChange ==
    /\ version < Len(Installed) /\ version' = version + 1
    /\ refresh' = running
    /\ UNCHANGED <<running, apps, ui>>

\* A slip: the database keeps the query of the old apps.
ReloadKeepsSearch ==
    /\ refresh /\ refresh' = FALSE
    /\ apps' = Installed[version]
    /\ grid' = PagedGrid(apps')
    /\ dots' = PageDots(grid'.count, grid'.count > 1)
    /\ UNCHANGED <<running, version, query, pending, db, tiles, view>>

Reload ==
    /\ refresh /\ refresh' = FALSE
    /\ apps' = Installed[version]
    /\ db' = NoSearch
    /\ grid' = PagedGrid(apps')
    /\ dots' = PageDots(grid'.count, grid'.count > 1)
    /\ query' = "" /\ pending' = FALSE /\ view' = "grid"
    /\ UNCHANGED <<running, version, tiles>>

\* A slip: the view is reset when the focus is lost.
OnFocusLost(any) ==
    /\ IF any THEN UNCHANGED <<query, pending, db, view, grid, dots>> ELSE ResetView
    /\ UNCHANGED <<running, version, apps, refresh, tiles>>

\* focus_changed(any): a window that takes the focus resets the view.
OnFocusChanged(any) ==
    /\ IF any THEN ResetView ELSE UNCHANGED <<query, pending, db, view, grid, dots>>
    /\ UNCHANGED <<running, version, apps, refresh, tiles>>
=============================================================================
