------------------------------- MODULE Explore -------------------------------
(***************************************************************************)
(* The list of programmes (explore.tsx) with its search, its tabs and the  *)
(* filter sheet (FilterSheet.tsx).  The sheet edits a draft that starts    *)
(* from the filters in force and replaces them when it is applied; the     *)
(* income bracket filters nothing and goes to the onboarding's answers.    *)
(*                                                                         *)
(* Abstracted: a search term is known by the programmes whose texts        *)
(* contain it; an age limit that is missing is 0 or NoLimit.               *)
(***************************************************************************)
EXTENDS Integers, Sequences, FiniteSets

CONSTANTS
    Cards,            \* the programmes of the list (see IsCard)
    Terms,            \* bound: for each search term, the programmes it is found in
    FilterRegions, FilterAges, FilterBrackets   \* bound: the choices of the sheet that are pressed

NoLimit == 200
IsCard(c) ==
    /\ c.id \in STRING /\ c.type \in STRING /\ c.regions \subseteq STRING
    /\ c.min \in 0..NoLimit /\ c.max \in c.min..NoLimit
    /\ c.status \in {"open", "always_open", "closed"} /\ c.days \in Seq(Int) /\ Len(c.days) <= 1

\* AGE_RANGE_OPTIONS, from all ages to 40 and more
AgeRanges == <<[min |-> 0, max |-> NoLimit], [min |-> 18, max |-> 24], [min |-> 25, max |-> 29],
               [min |-> 30, max |-> 34], [min |-> 35, max |-> 39], [min |-> 40, max |-> NoLimit]>>
TabOptions == {"all", "scholarship", "youth policy", "welfare"}
Nationwide == ""

ASSUME ExploreAssumption ==
    /\ \A c \in Cards : IsCard(c)
    /\ "" \in DOMAIN Terms /\ Terms[""] = {c.id : c \in Cards}
    /\ FilterRegions \subseteq STRING /\ FilterAges \subseteq DOMAIN AgeRanges /\ FilterBrackets \subseteq 1..10

VARIABLES
    filters,      \* the filters in force
    filterSheet,        \* the filter sheet: open, and its draft
    search,       \* the search term
    listing,      \* the query of the list
    ownBracket    \* useOnboardingStore's incomeBracket, 0 when unset

exploreVars == <<filters, filterSheet, search, listing, ownBracket>>

FilterValues == [region: FilterRegions \cup {Nationwide}, category: TabOptions,
                 age: DOMAIN AgeRanges, bracket: 0..10]
DefaultFilters == [region |-> Nationwide, category |-> "all", age |-> 1, bracket |-> 0]

ExploreTypeOK ==
    /\ filters \in FilterValues /\ filterSheet \in [open: BOOLEAN, draft: FilterValues]
    /\ search \in DOMAIN Terms /\ ownBracket \in 0..10
    /\ listing \in [data: BOOLEAN, error: BOOLEAN, reading: BOOLEAN]

ExploreInit ==
    /\ filters = DefaultFilters /\ filterSheet = [open |-> FALSE, draft |-> DefaultFilters]
    /\ search = "" /\ ownBracket = 0
    /\ listing = [data |-> FALSE, error |-> FALSE, reading |-> TRUE]

-----------------------------------------------------------------------------
(* The list                                                                *)

TypeLabel(type) ==
    CASE type \in {"support", "youth_policy"} -> "youth policy"
      [] OTHER -> type

\* programStatusLabel
StatusLabel(c) ==
    IF c.status = "always_open" THEN "always"
    ELSE IF c.status = "closed" THEN "closed"
    ELSE IF \A n \in DOMAIN c.days : c.days[n] > 30 THEN "open"
    ELSE IF c.days[1] <= 0 THEN "closed" ELSE "D-days"

\* apiProgramToCard, and the coloured badge of a card
ExploreCard(c) == [id |-> c.id, category |-> TypeLabel(c.type), status |-> StatusLabel(c)]
ProgramCard(c)   == [card |-> ExploreCard(c), bright |-> ExploreCard(c).status \in {"open", "always"}]

InCategory(c, f) == f.category = "all" \/ TypeLabel(c.type) = f.category
InRegion(c, f)   == f.region = Nationwide \/ c.regions = {} \/ f.region \in c.regions
\* Mutant: the limits have to lie within the range.
WithinAgeRange(c, f) == c.min >= AgeRanges[f.age].min /\ c.max <= AgeRanges[f.age].max

InAgeRange(c, f) == c.min <= AgeRanges[f.age].max /\ c.max >= AgeRanges[f.age].min

AllCards == IF listing.data THEN Cards ELSE {}
FilteredPrograms ==
    {c \in AllCards : InCategory(c, filters) /\ InRegion(c, filters) /\ InAgeRange(c, filters)
                      /\ (search = "" \/ c.id \in Terms[search])}

ExploreScreen ==
    (IF listing.error THEN {"banner"} ELSE {})
    \cup (IF filterSheet.open THEN {"sheet"} ELSE IF listing.reading /\ ~listing.data THEN {"skeleton"}
          ELSE {"list", "search", "tabs", "chips"} \cup (IF FilteredPrograms = {} THEN {"empty"} ELSE {}))

ActiveFilterCount(f) ==
    Cardinality({x \in {"region", "category", "age", "bracket"} : f[x] # DefaultFilters[x]})

\* The chips above the list that are marked, and the tab that is
FilterChips == {x \in {"region", "age", "bracket"} : filters[x] # DefaultFilters[x]}
ActiveTab   == {t \in TabOptions : t = filters.category}

\* The sheet: the chip that is marked in each section, and the number on its button
FilterSheet == [marked |-> filterSheet.draft, count |-> ActiveFilterCount(filterSheet.draft)]

-----------------------------------------------------------------------------
(* Steps                                                                   *)

ProgramsArrive ==
    /\ listing.reading
    /\ \/ listing' = [data |-> TRUE, error |-> FALSE, reading |-> FALSE]
       \/ listing' = [listing EXCEPT !.error = TRUE, !.reading = FALSE]
    /\ UNCHANGED <<filters, filterSheet, search, ownBracket>>

\* The tab is opened again after five minutes.
RefreshPrograms ==
    /\ ~listing.reading
    /\ listing' = [listing EXCEPT !.reading = TRUE, !.error = @ /\ listing.data]
    /\ UNCHANGED <<filters, filterSheet, search, ownBracket>>

SetSearch(term) ==
    /\ "search" \in ExploreScreen /\ search' = term
    /\ UNCHANGED <<filters, filterSheet, listing, ownBracket>>

ChangeTab(tab) ==
    /\ "tabs" \in ExploreScreen /\ filters' = [filters EXCEPT !.category = tab]
    /\ UNCHANGED <<filterSheet, search, listing, ownBracket>>

OpenFilterSheet ==
    /\ "chips" \in ExploreScreen /\ filterSheet' = [open |-> TRUE, draft |-> filters]
    /\ UNCHANGED <<filters, search, listing, ownBracket>>

SetDraft(draft) ==
    /\ "sheet" \in ExploreScreen /\ filterSheet' = [filterSheet EXCEPT !.draft = draft]
    /\ UNCHANGED <<filters, search, listing, ownBracket>>

\* A chip of the sheet; the brackets also come from the income guide.
ChooseInSheet ==
    \/ \E r \in FilterRegions \cup {Nationwide} : SetDraft([filterSheet.draft EXCEPT !.region = r])
    \/ \E c \in TabOptions : SetDraft([filterSheet.draft EXCEPT !.category = c])
    \/ \E a \in FilterAges : SetDraft([filterSheet.draft EXCEPT !.age = a])
    \/ \E b \in FilterBrackets \cup {0} : SetDraft([filterSheet.draft EXCEPT !.bracket = b])

ResetDraft == SetDraft(DefaultFilters)

CloseSheet ==
    /\ "sheet" \in ExploreScreen /\ filterSheet' = [filterSheet EXCEPT !.open = FALSE]
    /\ UNCHANGED <<filters, search, listing, ownBracket>>

\* A bracket that is taken back stays in the answers.
HandleApplyFilters ==
    /\ "sheet" \in ExploreScreen
    /\ filters' = filterSheet.draft /\ filterSheet' = [filterSheet EXCEPT !.open = FALSE]
    /\ ownBracket' = IF filterSheet.draft.bracket = 0 THEN ownBracket ELSE filterSheet.draft.bracket
    /\ UNCHANGED <<search, listing>>

ExploreNext ==
    \/ ProgramsArrive \/ RefreshPrograms
    \/ \E t \in DOMAIN Terms : SetSearch(t)
    \/ \E t \in TabOptions : ChangeTab(t)
    \/ OpenFilterSheet \/ ChooseInSheet \/ ResetDraft \/ CloseSheet \/ HandleApplyFilters

ExploreSpec == ExploreInit /\ [][ExploreNext]_exploreVars

-----------------------------------------------------------------------------
(* Properties                                                              *)

\* filteredPrograms: the list is exactly the programmes that somebody of the chosen ages may
\* apply for, of the chosen region or nationwide, of the category and with the term; and the
\* chips and the tab above it mark as many filters as the sheet will say there are.
FilterFindsWhoQualifies ==
    "list" \in ExploreScreen =>
        LET ages == AgeRanges[filters.age].min..AgeRanges[filters.age].max
        IN  /\ \A c \in AllCards :
                   c \in FilteredPrograms <=>
                       /\ \E age \in ages : age \in c.min..c.max
                       /\ filters.region \in c.regions \cup {Nationwide} \/ c.regions = {}
                       /\ filters.category = "all" \/ ProgramCard(c).card.category \in ActiveTab
                       /\ c.id \in Terms[search]
            /\ Cardinality(FilterChips) + Cardinality(ActiveTab \ {"all"}) = ActiveFilterCount(filters)
=============================================================================
