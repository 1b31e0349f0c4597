----------------------------- MODULE Recommend -----------------------------
(***************************************************************************)
(* The recommendation preview: POST /api/v1/recommend/preview              *)
(* (crates/api/src/routes/recommend.rs), which filters the programs,       *)
(* evaluates their eligibility rules and scores them                       *)
(* (crates/core/src/rule_engine.rs).                                       *)
(*                                                                         *)
(* The service keeps no state: what changes is what it is asked.  A user   *)
(* fills in and corrects the profile, time passes, programs are published  *)
(* and withdrawn, and every preview replaces the list on the screen.       *)
(*                                                                         *)
(* What is abstracted: strings are numbered in lexicographic order; time   *)
(* is counted in half days, so that whole days can be rounded down; a rule *)
(* tree is a conjunction of clauses, each a disjunction of conditions, as  *)
(* every rule that the migrations install is.  evaluate discards the truth *)
(* value of the tree and keeps its leaves.  Floats are fractions.          *)
(***************************************************************************)
EXTENDS Integers, Sequences, FiniteSets, FiniteSetsExt

CONSTANTS
    Programs,       \* the programs in the catalogue
    Catalogue,      \* Catalogue[p]: its row, see ProgramRow
    Leaves,         \* the leaf conditions of all rules
    Condition,      \* Condition[l]: the condition of leaf l
    Clauses,        \* Clauses[p]: the clauses of p's rule; {} without a usable rule
    Fields,         \* the profile fields that extract_field knows
    Answers,        \* Answers[f]: what the user may put in field f
    InitialProfile, \* the profile at the start
    SubstringOf,    \* the pairs of strings of which the first is in the second
    Absent,         \* no answer, no date, no age limit
    NewYear,        \* the time at which the next year begins
    BaseYear,       \* the year before that
    MaxNow,         \* bound: half days that pass
    MaxToggles      \* bound: programs published or withdrawn

Values == [type: {"number", "string", "bool"}, of: Int]

\* rule_json's "value": a scalar, an array, or (when it is left out) null.
Expectations == [array: BOOLEAN, of: Seq(Values)]

Ops == {"eq", "ne", "in", "not_in", "between", "gte", "lte", "gt", "lt",
        "contains", "is_true", "is_false", "is_null", "is_not_null"}

Conditions == [field: STRING, op: Ops, value: Expectations, weight: Nat \ {0}]

ProgramRow == [regions: SUBSET Int,
               min_age: Int \cup {Absent}, max_age: Int \cup {Absent},
               deadline_at: Int \cup {Absent},
               application_end_at: Int \cup {Absent},
               monthly: Nat, semester: Nat, once: Nat,
               scholarship: BOOLEAN]

Profiles == [Fields -> Values \cup {Absent}]

ASSUME RecommendAssumption ==
    /\ IsFiniteSet(Programs) /\ IsFiniteSet(Leaves)
    /\ Catalogue \in [Programs -> ProgramRow]
    /\ Condition \in [Leaves -> Conditions]
    /\ Clauses \in [Programs -> SUBSET ((SUBSET Leaves) \ {{}})]
    /\ Answers \in [Fields -> SUBSET (Values \cup {Absent})]
    /\ InitialProfile \in Profiles
    /\ {"birth_year", "region_code", "income_bracket", "enrollment_status"} \subseteq Fields
    \* birth_year and region_code are required and have their types.
    /\ \A v \in Answers["birth_year"] \cup {InitialProfile["birth_year"]} :
           v # Absent /\ v.type = "number"
    /\ \A v \in Answers["region_code"] \cup {InitialProfile["region_code"]} :
           v # Absent /\ v.type = "string"
    /\ Absent \notin Values \cup Int
    /\ NewYear \in Nat /\ BaseYear \in Nat /\ MaxNow \in Nat /\ MaxToggles \in Nat

VARIABLES
    profile,    \* the profile input as the user has filled it in so far
    now,        \* the current time
    active,     \* the programs with is_active
    toggles,    \* how often a program was published or withdrawn
    items,      \* the list on the screen: the last preview's items
    asked       \* history: what that preview was computed from

vars == <<profile, now, active, toggles, items, asked>>

\* What a preview depends on.
Query == [profile: Profiles, now: 0..MaxNow, active: SUBSET Programs]

-----------------------------------------------------------------------------
(* rule_engine.rs                                                          *)

\* extract_field: "region" is another name of region_code; a field that the
\* profile does not have is never set.
Extract(f, field) ==
    LET name == IF field = "region" THEN "region_code" ELSE field
    IN  IF name \in Fields THEN f[name] ELSE Absent

Incomparable == 2147483647          \* i32::MAX

\* cmp_values of two scalars
CmpScalars(a, b) ==
    IF a.type = b.type /\ a.type \in {"number", "string"}
    THEN IF a.of < b.of THEN -1 ELSE IF a.of > b.of THEN 1 ELSE 0
    ELSE Incomparable

\* cmp_values against an expectation: arrays and null are incomparable, too.
Cmp(a, e) == IF ~e.array /\ Len(e.of) = 1 THEN CmpScalars(a, e.of[1]) ELSE Incomparable

Equals(a, e)   == ~e.array /\ e.of = <<a>>
Contained(a, e) == e.array /\ \E n \in DOMAIN e.of : e.of[n] = a
Within(a, e)   ==
    /\ e.array /\ Len(e.of) = 2
    /\ CmpScalars(a, e.of[1]) >= 0 /\ CmpScalars(a, e.of[2]) <= 0
HasPart(a, e) ==
    /\ a.type = "string" /\ ~e.array /\ Len(e.of) = 1
    /\ e.of[1].type = "string" /\ <<e.of[1].of, a.of>> \in SubstringOf

\* eval_op; a value that is there is never null.
EvalOp(a, op, e) ==
    CASE op = "eq"          -> Equals(a, e)
      [] op = "ne"          -> ~Equals(a, e)
      [] op = "in"          -> Contained(a, e)
      [] op = "not_in"      -> ~Contained(a, e)
      [] op = "between"     -> Within(a, e)
      [] op = "gte"         -> Cmp(a, e) >= 0
      [] op = "lte"         -> Cmp(a, e) <= 0
      [] op = "gt"          -> Cmp(a, e) > 0
      [] op = "lt"          -> Cmp(a, e) < 0
      [] op = "contains"    -> HasPart(a, e)
      [] op = "is_true"     -> a = [type |-> "bool", of |-> 1]
      [] op = "is_false"    -> a = [type |-> "bool", of |-> 0]
      [] op = "is_null"     -> FALSE
      [] op = "is_not_null" -> TRUE

\* Mutant: a field without an answer is evaluated like a null value, which
\* differs from everything.
HoldsOrNegated(f, l) ==
    LET c == Condition[l] a == Extract(f, c.field) IN
    IF a = Absent THEN c.op \in {"ne", "not_in", "is_null"} ELSE EvalOp(a, c.op, c.value)

Holds(f, l) ==
    LET c == Condition[l] a == Extract(f, c.field) IN
    a # Absent /\ EvalOp(a, c.op, c.value)

LeavesOf(p) == UNION Clauses[p]

\* walk: every leaf is matched, failed or unknown.
Matched(f, p) == {l \in LeavesOf(p) : Holds(f, l)}
Unknown(f, p) == {l \in LeavesOf(p) : ~Holds(f, l) /\ Extract(f, Condition[l].field) = Absent}
Failed(f, p)  == LeavesOf(p) \ (Matched(f, p) \cup Unknown(f, p))

\* walk's result, which evaluate does not use: does the tree pass?
Passes(f, p) == \A c \in Clauses[p] : \E l \in c : Holds(f, l)

Weight(L) == MapThenSumSet(LAMBDA l : Condition[l].weight, L)

\* The benefit's monthly equivalent, times 12: max(monthly, semester / 6, once / 12).
YearlyBenefit(p) ==
    LET c == Catalogue[p] IN Max({12 * c.monthly, 2 * c.semester, c.once})

BenefitPoints(p) ==
    IF YearlyBenefit(p) >= 12 * 500000 THEN 20
    ELSE IF YearlyBenefit(p) >= 12 * 300000 THEN 17
    ELSE IF YearlyBenefit(p) >= 12 * 100000 THEN 13
    ELSE IF YearlyBenefit(p) > 0 THEN 8
    ELSE 0

DaysLeft(date, t) == (date - t) \div 2

\* Mutant: a program counts as expired on its last day.
UrgencyWithoutLastDay(date, t) ==
    IF date # Absent /\ DaysLeft(date, t) <= 0 THEN 0
    ELSE IF date # Absent /\ DaysLeft(date, t) <= 7 THEN 15 ELSE 10

\* Mutant: the points are counted by the day.
UrgencyByDay(date, t) == IF date = Absent THEN 10 ELSE 15 - DaysLeft(date, t)

Urgency(date, t) ==
    IF date = Absent THEN 10
    ELSE IF DaysLeft(date, t) < 0 THEN 0
    ELSE IF DaysLeft(date, t) <= 7 THEN 15
    ELSE IF DaysLeft(date, t) <= 30 THEN 12
    ELSE IF DaysLeft(date, t) <= 60 THEN 9
    ELSE 6

RegionPoints(p) == IF Catalogue[p].regions # {} THEN 10 ELSE 5

-----------------------------------------------------------------------------
(* recommend.rs                                                            *)

AskedFields == Fields \cup {Condition[l].field : l \in Leaves}

Item == [program: Programs,
         byRules: BOOLEAN,              \* evaluated, or scored inline
         matched: SUBSET Leaves, failed: SUBSET Leaves, unknown: SUBSET Leaves,
         urgency: {0, 6, 9, 10, 12, 15, 20},
         missing: SUBSET AskedFields]   \* missing_checks, by field

\* inline_score, the fallback without rules
InlineUrgency(date, t) ==
    IF date = Absent THEN 10
    ELSE IF DaysLeft(date, t) <= 30 THEN 20
    ELSE IF DaysLeft(date, t) <= 60 THEN 15
    ELSE 10

InlinePoints(p) ==
    30 + (IF Catalogue[p].regions # {} THEN 30 ELSE 0)
       + (IF YearlyBenefit(p) >= 12 * 300000 THEN 20
          ELSE IF YearlyBenefit(p) >= 12 * 100000 THEN 15 ELSE 10)

InlineMissing(f, p) ==
    {g \in {"income_bracket", "enrollment_status"} : Catalogue[p].scholarship /\ f[g] = Absent}

\* Mutant: only the conditions that could be evaluated count.
RuleScoreOfKnown(i) ==
    LET total == Weight(i.matched \cup i.failed)
        fixed == BenefitPoints(i.program) + i.urgency + RegionPoints(i.program) + 5
    IN  IF total > 0 THEN [match |-> Weight(i.matched), total |-> total, fixed |-> fixed]
        ELSE [match |-> 0, total |-> 1, fixed |-> fixed]

\* match_percentage (match out of total) and the other points of compute_final_score
RuleScore(i) ==
    LET total == Weight(i.matched \cup i.failed \cup i.unknown)
        fixed == BenefitPoints(i.program) + i.urgency + RegionPoints(i.program) + 5
    IN  IF total > 0 THEN [match |-> Weight(i.matched), total |-> total, fixed |-> fixed]
        ELSE [match |-> 0, total |-> 1, fixed |-> fixed]

InlineScore(i) == [match |-> 0, total |-> 1, fixed |-> InlinePoints(i.program) + i.urgency]

ScoreOf(i) == IF i.byRules THEN RuleScore(i) ELSE InlineScore(i)

\* score.clamp(0, 100) and score.min(100): the score as a fraction
Score(i) ==
    LET s == ScoreOf(i)
        points == 40 * s.match + s.fixed * s.total
    IN  [num |-> IF points > 100 * s.total THEN 100 * s.total ELSE points, den |-> s.total]

AtLeast(s, t) == s.num * t.den >= t.num * s.den

\* The SQL's COALESCE(deadline_at, application_end_at)
ClosingDate(p) ==
    IF Catalogue[p].deadline_at # Absent THEN Catalogue[p].deadline_at
    ELSE Catalogue[p].application_end_at

Year(t) == BaseYear + (IF t >= NewYear THEN 1 ELSE 0)
Age(q)  == Year(q.now) - q.profile["birth_year"].of

\* The SELECT's WHERE clause and the hard filters by region and age
Candidate(q, p) ==
    LET c == Catalogue[p] IN
    /\ p \in q.active
    /\ ClosingDate(p) = Absent \/ ClosingDate(p) > q.now
    /\ c.regions = {} \/ q.profile["region_code"].of \in c.regions
    /\ c.min_age = Absent \/ Age(q) >= c.min_age
    /\ c.max_age = Absent \/ Age(q) <= c.max_age

\* Mutant: a single failed condition hides the program.
IncludedUnlessFailed(f, p) == Clauses[p] = {} \/ Failed(f, p) = {}

\* "Skip programs where every evaluated rule failed"
Included(f, p) == Clauses[p] = {} \/ Matched(f, p) # {} \/ Unknown(f, p) # {}

Listed(q) == {p \in Programs : Candidate(q, p) /\ Included(q.profile, p)}

ItemFor(q, p) ==
    [program |-> p,
     byRules |-> Clauses[p] # {},
     matched |-> Matched(q.profile, p),
     failed  |-> Failed(q.profile, p),
     unknown |-> Unknown(q.profile, p),
     urgency |-> IF Clauses[p] # {} THEN Urgency(Catalogue[p].deadline_at, q.now)
                 ELSE InlineUrgency(Catalogue[p].deadline_at, q.now),
     missing |-> IF Clauses[p] # {} THEN {Condition[l].field : l \in Unknown(q.profile, p)}
                 ELSE InlineMissing(q.profile, p)]

\* ORDER BY deadline_at ASC NULLS LAST
EarlierRow(p, r) ==
    LET d == Catalogue[p].deadline_at e == Catalogue[r].deadline_at IN
    d # Absent /\ (e = Absent \/ d < e)

\* A stable sort by descending score of the rows in that order
InOrder(x, y) ==
    /\ AtLeast(x.score, y.score)
    /\ AtLeast(y.score, x.score) => ~EarlierRow(y.item.program, x.item.program)

Rankings(q) ==
    LET scored == {[item |-> i, score |-> Score(i)] : i \in {ItemFor(q, p) : p \in Listed(q)}}
        orders == {s \in [1..Cardinality(scored) -> scored] :
                      /\ \A m, n \in DOMAIN s : m < n => InOrder(s[m], s[n])
                      /\ scored = {s[n] : n \in DOMAIN s}}
    IN  {[n \in DOMAIN s |-> s[n].item] : s \in orders}

-----------------------------------------------------------------------------

ValidYear(q) == q.profile["birth_year"].of \in 1920..Year(q.now)

TypeOK ==
    /\ profile \in Profiles
    /\ now \in 0..MaxNow
    /\ active \in SUBSET Programs
    /\ toggles \in 0..MaxToggles
    /\ items \in Seq(Item)
    /\ asked \in Query

Current == [profile |-> profile, now |-> now, active |-> active]

Init ==
    /\ profile = InitialProfile
    /\ now = 0
    /\ active = Programs
    /\ toggles = 0
    /\ asked = Current
    /\ ValidYear(Current)
    /\ items \in Rankings(Current)

\* The user answers a question, corrects an answer or takes it back.
Edit(g) ==
    /\ \E v \in Answers[g] \ {profile[g]} : profile' = [profile EXCEPT ![g] = v]
    /\ UNCHANGED <<now, active, toggles, items, asked>>

\* preview; an invalid year of birth is answered with an error instead.
Preview ==
    /\ ValidYear(Current)
    /\ items' \in Rankings(Current)
    /\ asked' = Current
    /\ UNCHANGED <<profile, now, active, toggles>>

HalfDayPasses ==
    /\ now < MaxNow
    /\ now' = now + 1
    /\ UNCHANGED <<profile, active, toggles, items, asked>>

\* An administrator publishes or withdraws a program.
Toggle(p) ==
    /\ toggles < MaxToggles
    /\ toggles' = toggles + 1
    /\ active' = IF p \in active THEN active \ {p} ELSE active \cup {p}
    /\ UNCHANGED <<profile, now, items, asked>>

Next ==
    \/ \E g \in Fields : Edit(g)
    \/ Preview
    \/ HalfDayPasses
    \/ \E p \in Programs : Toggle(p)

Spec == Init /\ [][Next]_vars

-----------------------------------------------------------------------------
(* Properties                                                              *)

\* q answers more questions than r does, and differs in nothing else.
AnswersMore(q, r) ==
    /\ q.now = r.now /\ q.active = r.active
    /\ \A g \in Fields : r.profile[g] # Absent => q.profile[g] = r.profile[g]

\* "Filling this in makes the recommendation more exact": when the user only
\* adds answers, no program's score falls, and none leaves the list unless all
\* of its conditions have turned out to fail.
AnswersOnlyHelp ==
    [][asked' # asked /\ AnswersMore(asked', asked) =>
        \A m \in DOMAIN items :
            LET p == items[m].program IN
            \/ \E n \in DOMAIN items' : items'[n].program = p /\ AtLeast(Score(items'[n]), Score(items[m]))
            \/ Clauses[p] # {} /\ \A l \in LeavesOf(p) :
                    l \in Failed(asked'.profile, p)]_vars

\* A program whose rule tree the user satisfies, and that is open to the user's
\* region and age, is on the list: leaving out the truth value of the tree hides
\* nothing.
EligibleAreListed ==
    \A p \in Programs :
        Candidate(asked, p) /\ Passes(asked.profile, p)
            => \E n \in DOMAIN items : items[n].program = p

\* A match_percentage of 100 means that the rule tree passes.
FullMatchIsEligible ==
    \A n \in DOMAIN items : items[n].byRules =>
        LET s == ScoreOf(items[n]) IN
        s.match = s.total => Passes(asked.profile, items[n].program)

\* For the same profile a program that stays on the list does not lose points
\* as time goes by: the filter by date and the points for urgency agree on
\* when a program is over.
TimeOnlyRaises ==
    [][asked'.profile = asked.profile /\ asked'.now > asked.now =>
        \A m \in DOMAIN items : \A n \in DOMAIN items' :
            items[m].program = items'[n].program => AtLeast(Score(items'[n]), Score(items[m]))]_vars
=============================================================================
