---------------------------- MODULE RepoSelector ----------------------------
(***************************************************************************)
(* The dialog that selects repositories and organizations                  *)
(* (web/src/components/repo-selector-dialog.tsx).  It works on a draft     *)
(* that is lost when it closes; its list of repositories is a cache that   *)
(* survives, and every fetch makes new objects: the same repository is     *)
(* another object afterwards, so only keys identify one.                   *)
(***************************************************************************)
EXTENDS Naturals, Sequences, SequencesExt

CONSTANTS
    Keys,       \* repoKey: the repositories and organizations of the user
    Queries,    \* the texts of the search field, each the set of keys it matches
    NoList      \* repos: nothing fetched yet

ASSUME RepoSelectorAssumption ==
    /\ IsFiniteSet(Keys)
    /\ Keys \in Queries /\ Queries \subseteq SUBSET Keys

VARIABLES
    selected,     \* the form's selection, a sequence of objects
    repos,        \* the cached answer of GET /github/repos
    offered,      \* history: the keys fetched so far
    open, rightPanel, leftSelected, rightSelected,
    searchQuery, debouncedQuery,
    ticking       \* the debounce timer of 150 ms runs

draft == <<rightPanel, leftSelected, rightSelected, searchQuery, debouncedQuery, ticking>>
selectorVars == <<selected, repos, offered, open, draft>>

\* A repository as an object of one fetch; two fetches in a row differ.
Object == [key : Keys, fetch : {0, 1}]

KeysOf(seq) == {seq[i].key : i \in DOMAIN seq}

SelectorTypeOK ==
    /\ selected \in Seq(Object) /\ rightPanel \in Seq(Object)
    /\ repos = NoList \/ repos \in SUBSET Object
    /\ offered \subseteq Keys
    /\ open \in BOOLEAN /\ ticking \in BOOLEAN
    /\ leftSelected \subseteq Keys /\ rightSelected \subseteq Keys
    /\ searchQuery \in Queries /\ debouncedQuery \in Queries

\* The draft of a panel that mounts with the given selection.
Draft(seq) ==
    /\ rightPanel' = seq /\ leftSelected' = {} /\ rightSelected' = {}
    /\ searchQuery' = Keys /\ debouncedQuery' = Keys /\ ticking' = open'

SelectorInit ==
    /\ selected = <<>> /\ repos = NoList /\ offered = {}
    /\ open = FALSE /\ rightPanel = <<>> /\ leftSelected = {} /\ rightSelected = {}
    /\ searchQuery = Keys /\ debouncedQuery = Keys /\ ticking = FALSE

-----------------------------------------------------------------------------
\* Slip: what is on the right is told by the object, not by its key.
LeftItemsByObject ==
    IF repos = NoList THEN {}
    ELSE {r \in repos : r \notin ToSet(rightPanel) /\ r.key \in debouncedQuery}

\* What the left panel shows, organizations and repositories.
LeftItems ==
    IF repos = NoList THEN {}
    ELSE {r \in repos : r.key \notin KeysOf(rightPanel) /\ r.key \in debouncedQuery}

\* The entries of a list at the given positions, in their order.
Kept(seq, at) ==
    LET upTo[i \in 0..Len(seq)] ==
          IF i = 0 THEN <<>>
          ELSE IF i \in at THEN Append(upTo[i - 1], seq[i]) ELSE upTo[i - 1]
    IN  upTo[Len(seq)]

Toggle(set, k) == IF k \in set THEN set \ {k} ELSE set \cup {k}

OpenDialog ==
    /\ ~open
    /\ open' = TRUE
    /\ Draft(selected)
    /\ UNCHANGED <<selected, repos, offered>>

\* The first fetch after the dialog opens, and Refresh; the user's access may
\* have changed since.  A fetch that fails leaves the list as it is.
Fetch ==
    /\ open
    /\ \E S \in SUBSET Keys, n \in {0, 1} :
          /\ repos # NoList => \A r \in repos : r.fetch # n
          /\ repos' = {[key |-> k, fetch |-> n] : k \in S}
          /\ offered' = offered \cup S
    /\ UNCHANGED <<selected, open, draft>>

Type ==
    /\ open
    /\ searchQuery' \in Queries \ {searchQuery}
    /\ ticking' = TRUE
    /\ UNCHANGED <<selected, repos, offered, open, rightPanel, leftSelected,
                   rightSelected, debouncedQuery>>

DebounceFires ==
    /\ ticking
    /\ ticking' = FALSE /\ debouncedQuery' = searchQuery
    /\ UNCHANGED <<selected, repos, offered, open, rightPanel, leftSelected,
                   rightSelected, searchQuery>>

\* Slip: the tick remembers the object instead of its key.
ToggleLeftObject ==
    /\ open
    /\ \E r \in LeftItems : leftSelected' = Toggle(leftSelected, r)
    /\ UNCHANGED <<selected, repos, offered, open, rightPanel, rightSelected,
                   searchQuery, debouncedQuery, ticking>>

ToggleLeft ==
    /\ open
    /\ \E r \in LeftItems : leftSelected' = Toggle(leftSelected, r.key)
    /\ UNCHANGED <<selected, repos, offered, open, rightPanel, rightSelected,
                   searchQuery, debouncedQuery, ticking>>

ToggleRight ==
    /\ open
    /\ \E k \in KeysOf(rightPanel) : rightSelected' = Toggle(rightSelected, k)
    /\ UNCHANGED <<selected, repos, offered, open, rightPanel, leftSelected,
                   searchQuery, debouncedQuery, ticking>>

\* Only what is on display moves; the ticks of hidden entries are dropped.  The
\* order of the list is one fixed order.
MoveRight ==
    /\ open /\ leftSelected # {}
    /\ rightPanel' = rightPanel \o SetToSeq({r \in LeftItems : r.key \in leftSelected})
    /\ leftSelected' = {}
    /\ UNCHANGED <<selected, repos, offered, open, rightSelected, searchQuery,
                   debouncedQuery, ticking>>

MoveLeft ==
    /\ open /\ rightSelected # {}
    /\ rightPanel' = Kept(rightPanel, {i \in DOMAIN rightPanel : rightPanel[i].key \notin rightSelected})
    /\ rightSelected' = {}
    /\ UNCHANGED <<selected, repos, offered, open, leftSelected, searchQuery,
                   debouncedQuery, ticking>>

\* Slip: the button is not disabled when the right panel is empty.
ConfirmAny ==
    /\ open
    /\ selected' = rightPanel
    /\ open' = FALSE /\ Draft(<<>>)
    /\ UNCHANGED <<repos, offered>>

Confirm ==
    /\ open /\ rightPanel # <<>>
    /\ selected' = rightPanel
    /\ open' = FALSE /\ Draft(<<>>)
    /\ UNCHANGED <<repos, offered>>

Cancel ==
    /\ open
    /\ open' = FALSE /\ Draft(<<>>)
    /\ UNCHANGED <<selected, repos, offered>>

SelectorNext ==
    \/ OpenDialog \/ Fetch \/ Type \/ DebounceFires \/ ToggleLeft \/ ToggleRight
    \/ MoveRight \/ MoveLeft \/ Confirm \/ Cancel

-----------------------------------------------------------------------------
\* No scope is selected twice, in the draft or in the form, although the list
\* is fetched again, by other objects, while entries of it are on the right: a
\* scope selected twice would be a batch and get two runners of one mode.
DistinctSelection ==
    /\ Len(rightPanel) = Cardinality(KeysOf(rightPanel))
    /\ Len(selected) = Cardinality(KeysOf(selected))

Abstract == INSTANCE ScopeSelection WITH chosen <- KeysOf(selected)

\* The dialog implements the selection step of the form.
SelectionPromise == Abstract!Spec
=============================================================================
