-------------------------------- MODULE WhatIf --------------------------------
(***************************************************************************)
(* The condition simulator (region-compare.tsx): the recommendations for   *)
(* the profile of the onboarding are compared with those for a profile in  *)
(* which some conditions are changed, and every programme is shown as      *)
(* gained, lost or kept.                                                   *)
(*                                                                         *)
(* Both answers come through react-query's cache, one entry per profile    *)
(* and side, and arrive in any order.  An entry whose request failed has   *)
(* no data, which the screen takes for an answer without programmes.       *)
(*                                                                         *)
(* The onboarding has an age and the request a year of birth.  Without an  *)
(* age, or with an age of 0, the screen shows 24; the request of a profile *)
(* without one is that of 2001.                                            *)
(*                                                                         *)
(* Abstracted: a recommendation is a programme, with its monthly estimate; *)
(* the year and the server's answer for a profile do not change.           *)
(***************************************************************************)
EXTENDS Integers, FiniteSets, FiniteSetsExt

CONSTANTS
    Answered,       \* the onboarding answers the screen may be opened with
    Year,           \* the year it is
    Options,        \* bound: for each condition, the values its chips offer
    Offers,         \* the programmes the server recommends for each profile
    MonthlyOf,      \* the monthly estimate of each programme, in 10000 won
    MaxSimulated    \* bound: entries of the cache, less one

ConditionNames == {"region", "enrollment", "employment", "age", "income"}
Unset == "unset"    \* an override that is null; the age's is 0
NoAge == -1         \* an age that is no number

\* ProfileInput: what the request carries
ProfileFields == (ConditionNames \ {"age"}) \cup {"birth"}

\* buildCurrentProfile: the onboarding stores a region's code, the table is by its label.
LabelToCode == [label_seoul |-> "seoul", label_busan |-> "busan", label_daegu |-> "daegu",
                label_national |-> "national"]
BirthYear(age) == IF age = NoAge THEN 2001 ELSE Year - age
CurrentProfile(a) ==
    [f \in ProfileFields |->
        CASE f = "birth"  -> BirthYear(a["age"])
          [] f = "region" -> IF a[f] \in DOMAIN LabelToCode THEN LabelToCode[a[f]] ELSE "national"
          [] OTHER        -> a[f]]

ASSUME WhatIfAssumption ==
    /\ Year \in Nat /\ DOMAIN Options = ConditionNames /\ Options["age"] \subseteq Nat
    /\ \A a \in Answered : a["age"] \in Nat \cup {NoAge} /\ CurrentProfile(a) \in DOMAIN Offers
    /\ \A p \in DOMAIN Offers : Offers[p] \subseteq DOMAIN MonthlyOf
    /\ IsFiniteSet(DOMAIN MonthlyOf) /\ MonthlyOf \in [DOMAIN MonthlyOf -> Nat] /\ MaxSimulated \in Nat

VARIABLES
    answered,    \* the onboarding answers
    overrides,   \* the changed conditions
    expanded,    \* the section that is open
    simCache     \* the entries of the two queries: data, error, request under way

simVars == <<answered, overrides, expanded, simCache>>

NoOverrides == [c \in ConditionNames |-> IF c = "age" THEN 0 ELSE Unset]
Changed(c)  == overrides[c] # NoOverrides[c]

Current == CurrentProfile(answered)

\* applyOverrides: so many years later is to be born so many years earlier.
SimProfile ==
    [f \in ProfileFields |->
        IF f = "birth" THEN IF Changed("age") THEN Current[f] - overrides["age"] ELSE Current[f]
        ELSE IF Changed(f) THEN overrides[f] ELSE Current[f]]

SimActive == overrides # NoOverrides

CurrentKey  == <<"current", Current>>
\* Mutant: one entry for all changes.
OverrideKeyShared == <<"override", Current>>

OverrideKey == <<"override", SimProfile>>
SimKeys == {"current", "override"} \X DOMAIN Offers

Unasked == [data |-> FALSE, error |-> FALSE, asked |-> FALSE]

SimTypeOK ==
    /\ answered \in Answered /\ expanded \in ConditionNames \cup {Unset}
    /\ DOMAIN overrides = ConditionNames
    /\ \A c \in ConditionNames : overrides[c] \in Options[c] \cup {NoOverrides[c]}
    /\ DOMAIN simCache \subseteq SimKeys
    /\ \A k \in DOMAIN simCache : simCache[k] \in [data: BOOLEAN, error: BOOLEAN, asked: BOOLEAN]

Entry(k) == IF k \in DOMAIN simCache THEN simCache[k] ELSE Unasked

SetEntry(k, entry) ==
    simCache' = [j \in DOMAIN simCache \cup {k} |-> IF j = k THEN entry ELSE simCache[j]]

\* A query that is mounted reads what it has no data of, or none of the last five minutes.
Mount(k) ==
    \/ Entry(k).data /\ UNCHANGED simCache
    \/ SetEntry(k, [Entry(k) EXCEPT !.asked = TRUE, !.error = @ /\ Entry(k).data])

SimInit ==
    /\ answered \in Answered /\ overrides = NoOverrides /\ expanded = "region"
    /\ simCache = [k \in {CurrentKey} |-> [Unasked EXCEPT !.asked = TRUE]]

-----------------------------------------------------------------------------
(* What the screen shows                                                   *)

\* isLoading: a query without data has a request under way.
Loading(k) == Entry(k).asked /\ ~Entry(k).data
SimLoading == Loading(CurrentKey) \/ (SimActive /\ Loading(OverrideKey))

\* hasError: the offline banner, above whatever else is shown
Banner == Entry(CurrentKey).error \/ (SimActive /\ Entry(OverrideKey).error)

Items(k) == IF Entry(k).data THEN Offers[k[2]] ELSE {}
CurrentItems == Items(CurrentKey)
SimItems == IF SimActive THEN Items(OverrideKey) ELSE CurrentItems

\* classifyItems
Classified ==
    IF ~SimActive THEN [lose |-> {}, gain |-> {}, keep |-> {}]
    ELSE [lose |-> CurrentItems \ SimItems, gain |-> SimItems \ CurrentItems,
          keep |-> CurrentItems \cap SimItems]

\* estimateMonthlyFromItems, and the difference in the banner of amounts
Monthly(items) == MapThenSumSet(LAMBDA i : MonthlyOf[i], items)
MonthlyDifference == Monthly(SimItems) - Monthly(CurrentItems)

\* ResultItemCard: the amount, if one is known
ResultCard(i) == [program |-> i, amount |-> {MonthlyOf[i]} \ {0}]

\* The sections of the results: only those that are not empty, with
\* the number of their cards.
ResultSections ==
    {[category |-> c, count |-> Cardinality(Classified[c]), cards |-> {ResultCard(i) : i \in Classified[c]}] :
        c \in {d \in DOMAIN Classified : Classified[d] # {}}}

\* ChipSelector: the chip of the value that is simulated; the age's chips are the years added.
ActiveChip(c) == {v \in Options[c] : v = IF c = "age" THEN overrides[c] ELSE SimProfile[c]}

\* currentAge, whatever year of birth is asked for
ShownAge == IF answered["age"] \in {NoAge, 0} THEN 24 ELSE answered["age"]

\* ConditionSection: the current value, the changed one if there is one, and the chips of
\* the section that is open
SectionShows(c) ==
    [from  |-> IF c = "age" THEN ShownAge ELSE Current[c],
     to    |-> IF ~Changed(c) THEN {} ELSE {IF c = "age" THEN ShownAge + overrides[c] ELSE overrides[c]},
     chips |-> IF expanded = c THEN Options[c] ELSE {}, active |-> ActiveChip(c)]

SimScreen ==
    IF SimActive THEN IF SimLoading THEN "spinner" ELSE "results"
    ELSE IF SimLoading THEN "nothing" ELSE "prompt"

SimOffers == {"presets", "sections"} \cup (IF SimActive THEN {"reset"} ELSE {})

-----------------------------------------------------------------------------
(* Steps                                                                   *)

Override(changed) ==
    /\ overrides' = changed /\ UNCHANGED <<answered, expanded>>
    /\ IF changed = NoOverrides THEN UNCHANGED simCache
       ELSE LET key == OverrideKey' IN
            /\ key[2] \in DOMAIN Offers
            /\ key \in DOMAIN simCache \/ Cardinality(DOMAIN simCache) <= MaxSimulated
            /\ Mount(key)

\* A chip: the current value takes the change back, and so do an income of null and no year.
ChooseChip(c, v) ==
    LET change == IF c = "age" THEN v ELSE IF v \in {Current[c], "null"} THEN Unset ELSE v IN
    /\ expanded = c /\ "sections" \in SimOffers
    /\ Override([overrides EXCEPT ![c] = change])

\* A preset changes its condition, also to the value it has already.
Presets == {<<"enrollment", "graduated">>, <<"employment", "employed">>, <<"region", "seoul">>,
            <<"region", "daegu">>, <<"income", "5">>}
ApplyScenario(preset) ==
    /\ "presets" \in SimOffers /\ preset[2] \in Options[preset[1]]
    /\ Override([overrides EXCEPT ![preset[1]] = preset[2]])

ResetOverrides == "reset" \in SimOffers /\ Override(NoOverrides)

ToggleSection(c) ==
    /\ expanded' = IF expanded = c THEN Unset ELSE c
    /\ UNCHANGED <<answered, overrides, simCache>>

\* The screen is left and opened again, with the onboarding changed meanwhile or not.
ReopenSimulator(a) ==
    /\ answered' = a /\ overrides' = NoOverrides /\ expanded' = "region"
    /\ \/ CurrentKey' \in DOMAIN simCache
       \/ Cardinality(DOMAIN simCache) <= MaxSimulated
    /\ Mount(CurrentKey')

\* An answer arrives in its own entry, whatever is looked at by now.
SimAnswers(k) ==
    /\ Entry(k).asked
    /\ SetEntry(k, [Unasked EXCEPT !.data = TRUE])
    /\ UNCHANGED <<answered, overrides, expanded>>

\* The request failed three times; older data stay.
SimFails(k) ==
    /\ Entry(k).asked
    /\ SetEntry(k, [Entry(k) EXCEPT !.asked = FALSE, !.error = TRUE])
    /\ UNCHANGED <<answered, overrides, expanded>>

SimNext ==
    \/ \E c \in ConditionNames : ToggleSection(c) \/ \E v \in Options[c] : ChooseChip(c, v)
    \/ \E p \in Presets : ApplyScenario(p)
    \/ ResetOverrides \/ \E a \in Answered : ReopenSimulator(a)
    \/ \E k \in DOMAIN simCache : SimAnswers(k) \/ SimFails(k)

SimSpec == SimInit /\ [][SimNext]_simVars

-----------------------------------------------------------------------------
(* Properties                                                              *)

\* region-compare.tsx: without the banner, the results are those of the conditions on the
\* screen and no earlier ones - what is gained is recommended for the changed profile only,
\* what is lost for the current one only, and the amounts differ by what these pay.  The
\* year of birth is that of the age on the screen when the onboarding has one; otherwise the
\* screen says 24 and its years more, and the results are those of BirthYear and its years less.
ResultsOfThisProfile ==
    SimScreen = "results" /\ ~Banner =>
        LET shown(c) == IF SectionShows(c).to = {} THEN SectionShows(c).from
                        ELSE CHOOSE v \in SectionShows(c).to : TRUE
            birth == IF ShownAge = answered["age"] THEN Year - shown("age")
                     ELSE BirthYear(answered["age"]) - overrides["age"]
            conditions == [f \in ProfileFields |-> IF f = "birth" THEN birth ELSE shown(f)]
            cards(category) == {card.program : card \in
                UNION {s.cards : s \in {r \in ResultSections : r.category = category}}}
            gained == Offers[conditions] \ Offers[Current]
            lost   == Offers[Current] \ Offers[conditions]
        IN  /\ cards("gain") = gained /\ cards("lose") = lost
            /\ MonthlyDifference = Monthly(gained) - Monthly(lost)
=============================================================================
