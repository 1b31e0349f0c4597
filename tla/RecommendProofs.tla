-------------------------- MODULE RecommendProofs --------------------------
(***************************************************************************)
(* Proofs about the recommendation preview: types, that an eligible        *)
(* program is always on the list, that adding answers to the profile never *)
(* takes back a condition that was met, and, with the facts about sums of  *)
(* SetSums, what may happen to a score: a full match is an eligible        *)
(* program, time does not lower a score, and neither does an answer.       *)
(***************************************************************************)
EXTENDS Recommend, SetSums, FiniteSetTheorems, TLAPS

\* What a preview leaves on the screen is a ranking of what it was asked.
ItemsInv == items \in Rankings(asked)

-----------------------------------------------------------------------------
(* The items of a ranking                                                  *)

LEMMA ItemForType ==
    ASSUME NEW q \in Query, NEW p \in Programs
    PROVE  ItemFor(q, p) \in Item
<1>1. LeavesOf(p) \subseteq Leaves
  BY RecommendAssumption DEF RecommendAssumption, LeavesOf
<1>2. /\ Matched(q.profile, p) \in SUBSET Leaves
      /\ Unknown(q.profile, p) \in SUBSET Leaves
      /\ Failed(q.profile, p) \in SUBSET Leaves
  BY <1>1 DEF Matched, Unknown, Failed
<1>3. {Condition[l].field : l \in Unknown(q.profile, p)} \in SUBSET AskedFields
  BY <1>2 DEF AskedFields
<1>4. InlineMissing(q.profile, p) \in SUBSET AskedFields
  <2>1. InlineMissing(q.profile, p) \subseteq {"income_bracket", "enrollment_status"}
    BY Zenon DEF InlineMissing
  <2>2. {"income_bracket", "enrollment_status"} \subseteq Fields
    BY RecommendAssumption DEF RecommendAssumption
  <2> QED BY <2>1, <2>2 DEF AskedFields
<1>5. \A d : Urgency(d, q.now) \in {0, 6, 9, 10, 12, 15, 20}
  BY DEF Urgency
<1>6. \A d : InlineUrgency(d, q.now) \in {0, 6, 9, 10, 12, 15, 20}
  BY DEF InlineUrgency
<1> QED BY <1>2, <1>3, <1>4, <1>5, <1>6 DEF ItemFor, Item

\* A ranking lists one item for each program that the query admits, and no other.
LEMMA RankingItems ==
    ASSUME NEW q \in Query, NEW s \in Rankings(q)
    PROVE  /\ s \in Seq(Item)
           /\ \A n \in DOMAIN s : \E p \in Listed(q) : s[n] = ItemFor(q, p)
           /\ \A p \in Listed(q) : \E n \in DOMAIN s : s[n] = ItemFor(q, p)
<1> DEFINE found  == {ItemFor(q, p) : p \in Listed(q)}
           scored == {[item |-> i, score |-> Score(i)] : i \in found}
<1>1. Listed(q) \subseteq Programs
  BY DEF Listed
<1>2. IsFiniteSet(scored)
  <2>1. IsFiniteSet(Listed(q))
    BY <1>1, FS_Subset, RecommendAssumption DEF RecommendAssumption
  <2> DEFINE record == [p \in Listed(q) |-> [item |-> ItemFor(q, p), score |-> Score(ItemFor(q, p))]]
  <2>2. record \in [Listed(q) -> scored]
    BY Zenon
  <2>3. \A t \in scored : \E p \in Listed(q) : record[p] = t
    BY Zenon
  <2>4. record \in Surjection(Listed(q), scored)
    BY <2>2, <2>3, Zenon DEF Surjection
  <2> QED BY <2>1, <2>4, FS_Surjection, Zenon
<1>3. Cardinality(scored) \in Nat
  BY <1>2, FS_CardinalityType
<1>4. PICK o \in [1..Cardinality(scored) -> scored] :
        /\ scored = {o[n] : n \in DOMAIN o}
        /\ s = [n \in DOMAIN o |-> o[n].item]
  BY DEF Rankings
<1>5. DOMAIN s = 1..Cardinality(scored) /\ DOMAIN o = 1..Cardinality(scored)
  BY <1>4
<1>6. \A n \in DOMAIN s : s[n] \in found
  BY <1>4, <1>5
<1>7. \A i \in found : \E n \in DOMAIN s : s[n] = i
  <2> SUFFICES ASSUME NEW i \in found PROVE \E n \in DOMAIN s : s[n] = i
    OBVIOUS
  <2>1. PICK n \in DOMAIN o : o[n] = [item |-> i, score |-> Score(i)]
    BY <1>4
  <2>2. s[n] = i
    BY <2>1, <1>4
  <2> QED BY <2>2, <1>5
<1>8. found \subseteq Item
  BY <1>1, ItemForType
<1>9. s \in Seq(Item)
  <2>1. s \in [1..Cardinality(scored) -> Item]
    BY <1>4, <1>5, <1>6, <1>8, Zenon
  <2> HIDE DEF scored
  <2> QED BY <2>1, <1>3
<1> HIDE DEF scored
<1> QED BY <1>6, <1>7, <1>9

-----------------------------------------------------------------------------
(* The invariant                                                           *)

LEMMA CurrentIsQuery == TypeOK => Current \in Query
  BY DEF TypeOK, Current, Query

LEMMA InitInv == Init => TypeOK /\ ItemsInv
<1> SUFFICES ASSUME Init PROVE TypeOK /\ ItemsInv
  OBVIOUS
<1>1. /\ profile \in Profiles /\ now \in 0..MaxNow
      /\ active \in SUBSET Programs /\ toggles \in 0..MaxToggles
  BY RecommendAssumption DEF Init, RecommendAssumption
<1>2. asked \in Query
  BY <1>1 DEF Init, Current, Query
<1>3. ItemsInv
  BY DEF Init, ItemsInv
<1>4. items \in Seq(Item)
  BY <1>2, <1>3, RankingItems DEF ItemsInv
<1> QED BY <1>1, <1>2, <1>3, <1>4 DEF TypeOK

LEMMA NextInv == TypeOK /\ ItemsInv /\ [Next]_vars => TypeOK' /\ ItemsInv'
<1> SUFFICES ASSUME TypeOK, ItemsInv, [Next]_vars PROVE TypeOK' /\ ItemsInv'
  OBVIOUS
<1>1. ASSUME NEW g \in Fields, Edit(g) PROVE TypeOK' /\ ItemsInv'
  <2>1. profile' \in Profiles
    <3>1. PICK v \in Answers[g] : profile' = [profile EXCEPT ![g] = v]
      BY <1>1 DEF Edit
    <3>2. v \in Values \cup {Absent}
      BY <3>1, RecommendAssumption DEF RecommendAssumption
    <3>3. profile \in Profiles
      BY DEF TypeOK
    <3> QED BY <3>1, <3>2, <3>3 DEF Profiles
  <2>2. UNCHANGED <<now, active, toggles, asked, items>>
    BY <1>1 DEF Edit
  <2>3. ItemsInv'
    BY <2>2 DEF ItemsInv
  <2> QED BY <2>1, <2>2, <2>3 DEF TypeOK
<1>2. CASE Preview
  <2>1. Current \in Query
    BY CurrentIsQuery
  <2>2. items' \in Seq(Item)
    BY <1>2, <2>1, RankingItems DEF Preview
  <2>3. TypeOK'
    BY <1>2, <2>1, <2>2 DEF Preview, TypeOK
  <2> QED BY <1>2, <2>3 DEF Preview, ItemsInv
<1>3. CASE HalfDayPasses
  <2>1. now' \in 0..MaxNow
    BY <1>3, RecommendAssumption DEF RecommendAssumption, HalfDayPasses, TypeOK
  <2> QED BY <1>3, <2>1 DEF HalfDayPasses, TypeOK, ItemsInv
<1>4. ASSUME NEW p \in Programs, Toggle(p) PROVE TypeOK' /\ ItemsInv'
  <2>1. toggles' \in 0..MaxToggles
    BY <1>4, RecommendAssumption DEF RecommendAssumption, Toggle, TypeOK
  <2>2. active' \in SUBSET Programs
    BY <1>4 DEF Toggle, TypeOK
  <2> QED BY <1>4, <2>1, <2>2 DEF Toggle, TypeOK, ItemsInv
<1>5. CASE UNCHANGED vars
  BY <1>5 DEF vars, TypeOK, ItemsInv
<1> QED BY <1>1, <1>2, <1>3, <1>4, <1>5 DEF Next

\* Every state of the preview's callers has its types, and the list on the
\* screen is a ranking of what the last preview was asked.
THEOREM PreviewInvariant == Spec => [](TypeOK /\ ItemsInv)
<1> QED BY InitInv, NextInv, PTL DEF Spec

\* The types declared hold in every state.
THEOREM TypeCorrect == Spec => []TypeOK
<1> QED BY PreviewInvariant, PTL

-----------------------------------------------------------------------------
(* Eligible programs are listed                                            *)

\* A rule tree that passes has a matched condition, unless it has no clauses.
LEMMA PassingIsIncluded ==
    ASSUME NEW f, NEW p \in Programs, Passes(f, p)
    PROVE  Included(f, p)
<1> SUFFICES ASSUME Clauses[p] # {} PROVE Included(f, p)
  BY DEF Included
<1>1. PICK c \in Clauses[p] : TRUE
  OBVIOUS
<1>2. PICK l \in c : Holds(f, l)
  BY <1>1 DEF Passes
<1>3. l \in Matched(f, p)
  BY <1>1, <1>2 DEF Matched, LeavesOf
<1> QED BY <1>3 DEF Included

\* A program that is open to the user and whose rule tree passes is on the
\* list (preview, the filter by match_percentage).
THEOREM EligibleListed == Spec => []EligibleAreListed
<1>1. TypeOK /\ ItemsInv => EligibleAreListed
  <2> SUFFICES ASSUME TypeOK, ItemsInv, NEW p \in Programs,
                      Candidate(asked, p), Passes(asked.profile, p)
               PROVE  \E n \in DOMAIN items : items[n].program = p
    BY DEF EligibleAreListed
  <2>1. p \in Listed(asked)
    BY PassingIsIncluded DEF Listed
  <2>2. PICK n \in DOMAIN items : items[n] = ItemFor(asked, p)
    BY <2>1, RankingItems DEF TypeOK, ItemsInv
  <2> QED BY <2>2 DEF ItemFor
<1> QED BY <1>1, PreviewInvariant, PTL

-----------------------------------------------------------------------------
(* Answers keep matches                                                    *)

\* Between two previews of which the second only has more answers, the met
\* conditions stay met and the failed ones failed: only unknown ones change.
AnswersKeepMatches ==
    [][AnswersMore(asked', asked) =>
        \A m \in DOMAIN items : \A n \in DOMAIN items' :
            items[m].program = items'[n].program =>
                /\ items[m].matched \subseteq items'[n].matched
                /\ items[m].failed \subseteq items'[n].failed
                /\ items'[n].unknown \subseteq items[m].unknown]_vars

LEMMA ExtractKept ==
    ASSUME NEW q, NEW r, AnswersMore(q, r), NEW field,
           Extract(r.profile, field) # Absent
    PROVE  Extract(q.profile, field) = Extract(r.profile, field)
  BY DEF Extract, AnswersMore

LEMMA EvaluationKept ==
    ASSUME NEW q, NEW r, AnswersMore(q, r), NEW p
    PROVE  /\ Matched(r.profile, p) \subseteq Matched(q.profile, p)
           /\ Failed(r.profile, p) \subseteq Failed(q.profile, p)
           /\ Unknown(q.profile, p) \subseteq Unknown(r.profile, p)
<1>1. ASSUME NEW l, Extract(r.profile, Condition[l].field) # Absent
      PROVE  /\ Extract(q.profile, Condition[l].field) # Absent
             /\ Holds(q.profile, l) <=> Holds(r.profile, l)
  BY <1>1, ExtractKept DEF Holds
<1>2. \A l : Holds(r.profile, l) => Extract(r.profile, Condition[l].field) # Absent
  BY DEF Holds
<1> QED BY <1>1, <1>2 DEF Matched, Failed, Unknown

\* Answering the questions of the list (missing_checks) only decides conditions
\* that were unknown; rule_engine.rs, evaluate.
THEOREM AnswersKeep == Spec => AnswersKeepMatches
<1> DEFINE Kept == \A m \in DOMAIN items : \A n \in DOMAIN items' :
                       items[m].program = items'[n].program =>
                           /\ items[m].matched \subseteq items'[n].matched
                           /\ items[m].failed \subseteq items'[n].failed
                           /\ items'[n].unknown \subseteq items[m].unknown
<1>1. TypeOK /\ ItemsInv /\ TypeOK' /\ ItemsInv' => (AnswersMore(asked', asked) => Kept)
  <2> SUFFICES ASSUME TypeOK, ItemsInv, TypeOK', ItemsInv', AnswersMore(asked', asked),
                      NEW m \in DOMAIN items, NEW n \in DOMAIN items',
                      items[m].program = items'[n].program
               PROVE  /\ items[m].matched \subseteq items'[n].matched
                      /\ items[m].failed \subseteq items'[n].failed
                      /\ items'[n].unknown \subseteq items[m].unknown
    OBVIOUS
  <2>1. PICK p \in Listed(asked) : items[m] = ItemFor(asked, p)
    BY RankingItems DEF TypeOK, ItemsInv
  <2>2. PICK r \in Listed(asked') : items'[n] = ItemFor(asked', r)
    BY RankingItems DEF TypeOK, ItemsInv
  <2>3. p = r
    BY <2>1, <2>2 DEF ItemFor
  <2>4. /\ Matched(asked.profile, p) \subseteq Matched(asked'.profile, p)
        /\ Failed(asked.profile, p) \subseteq Failed(asked'.profile, p)
        /\ Unknown(asked'.profile, p) \subseteq Unknown(asked.profile, p)
    BY EvaluationKept, Zenon
  <2> QED BY <2>1, <2>2, <2>3, <2>4 DEF ItemFor
<1> QED BY <1>1, PreviewInvariant, PTL DEF AnswersKeepMatches

-----------------------------------------------------------------------------
(* Sums of weights                                                         *)

WeightOf == [l \in Leaves |-> Condition[l].weight]

LEMMA WeightIsTotal ==
    ASSUME NEW L \in SUBSET Leaves
    PROVE  Weight(L) = Total(WeightOf, L)
<1> DEFINE H(f) == [s \in SUBSET L |-> IF s = {} THEN 0
                        ELSE Condition[CHOOSE x \in s : TRUE].weight + f[s \ {CHOOSE x \in s : TRUE}]]
           F == CHOOSE f : f = H(f)
<1>1. Weight(L) = F[L]
    BY DEF Weight, MapThenSumSet, MapThenFoldSet
<1>2. ASSUME NEW f PROVE H(f) = Unfolded(WeightOf, L, f)
  <2>1. ASSUME NEW s \in SUBSET L, s # {}
        PROVE  Condition[CHOOSE x \in s : TRUE].weight = WeightOf[Pick(s)]
      BY <2>1, Picked DEF Pick, WeightOf
  <2> QED
      BY <2>1 DEF Unfolded, Pick
<1>3. IsFiniteSet(L)
    BY FS_Subset, RecommendAssumption DEF RecommendAssumption
<1>4. F = H(F)
  <2> DEFINE G == Iter(WeightOf, L)
  <2>1. G = Unfolded(WeightOf, L, G)
      BY <1>3, IterExists
  <2>2. G = H(G)
      BY <1>2, <2>1
  <2> HIDE DEF G, H
  <2> QED
      BY <2>2
<1>5. F = Unfolded(WeightOf, L, F)
    BY <1>2, <1>4
<1> HIDE DEF F
<1> QED
    BY <1>1, <1>3, <1>5, TotalIs

LEMMA LeavesFinite == IsFiniteSet(Leaves) /\ Weighs(WeightOf, Leaves) /\ \A l \in Leaves : WeightOf[l] # 0
  BY RecommendAssumption DEF RecommendAssumption, Weighs, WeightOf, Conditions

LEMMA RuleLeaves ==
    ASSUME NEW p \in Programs
    PROVE  LeavesOf(p) \in SUBSET Leaves
  BY RecommendAssumption DEF RecommendAssumption, LeavesOf

\* evaluate: every leaf is in one of the three lists.
LEMMA ThreeLists ==
    ASSUME NEW f, NEW p
    PROVE  /\ Matched(f, p) \cup Failed(f, p) \cup Unknown(f, p) = LeavesOf(p)
           /\ Matched(f, p) \subseteq LeavesOf(p)
  BY DEF Matched, Failed, Unknown

LEMMA WeightType == \A L \in SUBSET Leaves : Weight(L) \in Nat
  BY WeightIsTotal, LeavesFinite, TotalType

LEMMA WeightGrows ==
    ASSUME NEW L \in SUBSET Leaves, NEW K \in SUBSET L
    PROVE  Weight(K) <= Weight(L)
<1>1. IsFiniteSet(L) /\ Weighs(WeightOf, L) /\ K \in SUBSET Leaves
  BY LeavesFinite, FS_Subset DEF Weighs
<1>2. Total(WeightOf, K) <= Total(WeightOf, L)
  BY <1>1, TotalGrows
<1> QED BY <1>1, <1>2, WeightIsTotal

\* Every condition weighs something: only all of them weigh as much as all.
LEMMA FullWeight ==
    ASSUME NEW L \in SUBSET Leaves, NEW K \in SUBSET L, Weight(K) = Weight(L)
    PROVE  K = L
<1>1. IsFiniteSet(L) /\ Weighs(WeightOf, L) /\ K \in SUBSET Leaves /\ \A l \in L : WeightOf[l] # 0
  BY LeavesFinite, FS_Subset DEF Weighs
<1>2. Total(WeightOf, K) = Total(WeightOf, L)
  BY <1>1, WeightIsTotal
<1> QED BY <1>1, <1>2, TotalIsAll

\* compute_final_score: what a match counts in an item that was evaluated
LEMMA MatchOfItem ==
    ASSUME NEW q, NEW p \in Programs, NEW i, i = ItemFor(q, p), i.byRules
    PROVE  LET s == ScoreOf(i)  total == Weight(LeavesOf(p))
           IN  /\ s.total = IF total > 0 THEN total ELSE 1
               /\ s.match = IF total > 0 THEN Weight(Matched(q.profile, p)) ELSE 0
               /\ s.fixed = BenefitPoints(p) + i.urgency + RegionPoints(p) + 5
<1>1. i.matched \cup i.failed \cup i.unknown = LeavesOf(p)
  BY ThreeLists DEF ItemFor
<1>2. i.program = p /\ i.matched = Matched(q.profile, p)
  BY DEF ItemFor
<1>3. ScoreOf(i) = RuleScore(i)
  BY DEF ScoreOf
<1> DEFINE total == Weight(LeavesOf(p))
           fixed == BenefitPoints(p) + i.urgency + RegionPoints(p) + 5
           matched == Weight(Matched(q.profile, p))
<1>4. ScoreOf(i) = IF total > 0 THEN [match |-> matched, total |-> total, fixed |-> fixed]
                   ELSE [match |-> 0, total |-> 1, fixed |-> fixed]
  BY <1>1, <1>2, <1>3, Zenon DEF RuleScore
<1> HIDE DEF total, fixed, matched
<1>5. CASE total > 0
  BY <1>4, <1>5 DEF total, fixed, matched
<1>6. CASE ~(total > 0)
  BY <1>4, <1>6 DEF total, fixed, matched
<1> QED BY <1>5, <1>6

\* match_percentage, when it is 100, means that every condition was met; then the tree passes.
THEOREM FullMatch == Spec => []FullMatchIsEligible
<1>1. TypeOK /\ ItemsInv => FullMatchIsEligible
  <2> SUFFICES ASSUME TypeOK, ItemsInv, NEW n \in DOMAIN items, items[n].byRules,
                      ScoreOf(items[n]).match = ScoreOf(items[n]).total
               PROVE  Passes(asked.profile, items[n].program)
    BY DEF FullMatchIsEligible
  <2>1. PICK p \in Listed(asked) : items[n] = ItemFor(asked, p)
    BY RankingItems DEF TypeOK, ItemsInv
  <2>2. p \in Programs /\ items[n].program = p
    BY <2>1 DEF Listed, ItemFor
  <2> DEFINE i == items[n]  s == ScoreOf(i)  total == Weight(LeavesOf(p))
  <2>3. /\ s.total = IF total > 0 THEN total ELSE 1
        /\ s.match = IF total > 0 THEN Weight(Matched(asked.profile, p)) ELSE 0
    BY <2>1, <2>2, MatchOfItem
  <2>4. total > 0 /\ Weight(Matched(asked.profile, p)) = total
    BY <2>3
  <2>5. Matched(asked.profile, p) = LeavesOf(p)
    BY <2>2, <2>4, RuleLeaves, ThreeLists, FullWeight
  <2>6. ASSUME NEW c \in Clauses[p] PROVE \E l \in c : Holds(asked.profile, l)
    <3>1. c # {}
      BY <2>2, RecommendAssumption DEF RecommendAssumption
    <3>2. PICK l \in c : TRUE
      BY <3>1
    <3>3. l \in Matched(asked.profile, p)
      BY <2>5, <3>2 DEF LeavesOf
    <3> QED BY <3>2, <3>3 DEF Matched
  <2> QED BY <2>2, <2>6 DEF Passes
<1> QED BY <1>1, PreviewInvariant, PTL

-----------------------------------------------------------------------------
(* Scores                                                                  *)

LEMMA Times == \A a, b, d \in Nat : a <= b => a * d <= b * d
OBVIOUS

LEMMA YearlyType == \A p \in Programs : YearlyBenefit(p) \in Nat
<1> SUFFICES ASSUME NEW p \in Programs PROVE YearlyBenefit(p) \in Nat
  OBVIOUS
<1> DEFINE a == 12 * Catalogue[p].monthly  b == 2 * Catalogue[p].semester  c == Catalogue[p].once
<1>1. a \in Nat /\ b \in Nat /\ c \in Nat
  <2>1. Catalogue[p] \in ProgramRow
    BY RecommendAssumption DEF RecommendAssumption
  <2> QED BY <2>1 DEF ProgramRow
<1>2. YearlyBenefit(p) = Max({a, b, c})
  BY DEF YearlyBenefit
<1> HIDE DEF a, b, c
<1>3. IsFiniteSet({a, b, c})
  <2>1. IsFiniteSet({} \cup {a})
    BY FS_EmptySet, FS_AddElement
  <2>2. IsFiniteSet(({} \cup {a}) \cup {b})
    BY <2>1, FS_AddElement
  <2>3. IsFiniteSet((({} \cup {a}) \cup {b}) \cup {c})
    BY <2>2, FS_AddElement
  <2>4. (({} \cup {a}) \cup {b}) \cup {c} = {a, b, c}
    OBVIOUS
  <2> QED BY <2>3, <2>4
<1>4. Max({a, b, c}) \in {a, b, c}
  BY <1>1, <1>3, LargestNumber
<1> QED BY <1>1, <1>2, <1>4

LEMMA BenefitType == \A p \in Programs : BenefitPoints(p) \in Nat
BY SMT DEF BenefitPoints

\* A fraction with the same denominator and no smaller numerator, after the clamping to 100
LEMMA ClampedGrows ==
    ASSUME NEW m \in Nat, NEW n \in Nat, NEW f \in Nat, NEW g \in Nat, NEW d \in Nat, m <= n, f <= g
    PROVE  LET low == 40 * m + f * d  high == 40 * n + g * d
               num(x) == IF x > 100 * d THEN 100 * d ELSE x
           IN  num(high) * d >= num(low) * d
<1> DEFINE low == 40 * m + f * d  high == 40 * n + g * d
           num(x) == IF x > 100 * d THEN 100 * d ELSE x
<1>1. f * d <= g * d /\ f * d \in Nat /\ g * d \in Nat
  BY Times
<1>2. low \in Nat /\ high \in Nat /\ low <= high
  BY <1>1
<1> HIDE DEF low, high
<1>3. num(low) \in Nat /\ num(high) \in Nat /\ num(low) <= num(high)
  BY <1>2
<1> HIDE DEF num
<1>4. num(low) * d <= num(high) * d /\ num(low) * d \in Nat /\ num(high) * d \in Nat
  BY <1>3, Times
<1> QED BY <1>4 DEF low, high, num

LEMMA PointsType ==
    ASSUME NEW p \in Programs
    PROVE  BenefitPoints(p) \in Nat /\ RegionPoints(p) \in Nat /\ InlinePoints(p) \in Nat
<1>1. RegionPoints(p) \in Nat
  BY DEF RegionPoints
<1>2. InlinePoints(p) \in Nat
  BY SMT DEF InlinePoints
<1> QED BY <1>1, <1>2, BenefitType

LEMMA UrgencyType ==
    ASSUME NEW q, NEW p
    PROVE  ItemFor(q, p).urgency \in Nat
<1>1. \A d : Urgency(d, q.now) \in Nat
  BY DEF Urgency
<1>2. \A d : InlineUrgency(d, q.now) \in Nat
  BY DEF InlineUrgency
<1> QED BY <1>1, <1>2 DEF ItemFor

\* score of an item by its parts: a match out of a total, and the other points
LEMMA ScoreParts ==
    ASSUME NEW i, NEW m \in Nat, NEW f \in Nat, NEW d \in Nat,
           ScoreOf(i).match = m, ScoreOf(i).total = d, ScoreOf(i).fixed = f
    PROVE  /\ Score(i).den = d
           /\ Score(i).num = IF 40 * m + f * d > 100 * d THEN 100 * d ELSE 40 * m + f * d
  BY DEF Score

\* When no condition that was met is lost and the points for urgency do not
\* fall, the score does not fall.
LEMMA ScoreGrows ==
    ASSUME NEW q, NEW r, NEW p \in Programs,
           Matched(r.profile, p) \subseteq Matched(q.profile, p),
           ItemFor(r, p).urgency <= ItemFor(q, p).urgency
    PROVE  AtLeast(Score(ItemFor(q, p)), Score(ItemFor(r, p)))
<1> DEFINE i == ItemFor(r, p)  j == ItemFor(q, p)
           u == i.urgency  v == j.urgency
<1>1. u \in Nat /\ v \in Nat /\ u <= v
  BY UrgencyType
<1>2. i.program = p /\ j.program = p /\ i.byRules = (Clauses[p] # {}) /\ j.byRules = (Clauses[p] # {})
  BY DEF ItemFor
<1>3. SUFFICES \E m, n, f, g, d \in Nat :
          /\ m <= n /\ f <= g
          /\ ScoreOf(i).match = m /\ ScoreOf(i).total = d /\ ScoreOf(i).fixed = f
          /\ ScoreOf(j).match = n /\ ScoreOf(j).total = d /\ ScoreOf(j).fixed = g
  <2>1. PICK m, n, f, g, d \in Nat :
          /\ m <= n /\ f <= g
          /\ ScoreOf(i).match = m /\ ScoreOf(i).total = d /\ ScoreOf(i).fixed = f
          /\ ScoreOf(j).match = n /\ ScoreOf(j).total = d /\ ScoreOf(j).fixed = g
    BY <1>3
  <2> HIDE DEF i, j
  <2> DEFINE low == 40 * m + f * d  high == 40 * n + g * d
             num(x) == IF x > 100 * d THEN 100 * d ELSE x
  <2>2. Score(i).den = d /\ Score(i).num = num(low)
    BY <2>1, ScoreParts
  <2>3. Score(j).den = d /\ Score(j).num = num(high)
    BY <2>1, ScoreParts
  <2>4. num(high) * d >= num(low) * d
    BY <2>1, ClampedGrows
  <2> HIDE DEF low, high, num
  <2>5. AtLeast(Score(j), Score(i))
    BY <2>2, <2>3, <2>4 DEF AtLeast
  <2> QED BY <2>5 DEF i, j
<1>4. CASE Clauses[p] # {}
  <2> DEFINE total == Weight(LeavesOf(p))
             a == Weight(Matched(r.profile, p))  b == Weight(Matched(q.profile, p))
             x == BenefitPoints(p)  y == RegionPoints(p)
  <2>1. total \in Nat /\ a \in Nat /\ b \in Nat /\ a <= b
    <3>1. LeavesOf(p) \in SUBSET Leaves
      BY RuleLeaves
    <3>2. Matched(q.profile, p) \in SUBSET Leaves /\ Matched(r.profile, p) \in SUBSET Leaves
      BY <3>1, ThreeLists
    <3> QED BY <3>1, <3>2, WeightType, WeightGrows
  <2>2. x \in Nat /\ y \in Nat
    BY PointsType
  <2>3. i.byRules /\ j.byRules
    BY <1>4 DEF ItemFor
  <2>4. /\ ScoreOf(i).total = IF total > 0 THEN total ELSE 1
        /\ ScoreOf(i).match = IF total > 0 THEN a ELSE 0
        /\ ScoreOf(i).fixed = x + u + y + 5
    BY <2>3, MatchOfItem
  <2>5. /\ ScoreOf(j).total = IF total > 0 THEN total ELSE 1
        /\ ScoreOf(j).match = IF total > 0 THEN b ELSE 0
        /\ ScoreOf(j).fixed = x + v + y + 5
    BY <2>3, MatchOfItem
  <2> HIDE DEF i, j, u, v, total, a, b, x, y
  <2> DEFINE d == IF total > 0 THEN total ELSE 1
             m == IF total > 0 THEN a ELSE 0
             n == IF total > 0 THEN b ELSE 0
  <2>6. d \in Nat /\ m \in Nat /\ n \in Nat /\ m <= n
    BY <2>1
  <2>7. x + u + y + 5 \in Nat /\ x + v + y + 5 \in Nat /\ x + u + y + 5 <= x + v + y + 5
    BY <1>1, <2>2
  <2> QED BY <2>4, <2>5, <2>6, <2>7
<1>5. CASE Clauses[p] = {}
  <2> DEFINE x == InlinePoints(p)
  <2>1. x \in Nat
    BY PointsType
  <2>2. ScoreOf(i) = [match |-> 0, total |-> 1, fixed |-> x + u]
    BY <1>2, <1>5 DEF ScoreOf, InlineScore
  <2>3. ScoreOf(j) = [match |-> 0, total |-> 1, fixed |-> x + v]
    BY <1>2, <1>5 DEF ScoreOf, InlineScore
  <2> HIDE DEF i, j, u, v, x
  <2>4. x + u \in Nat /\ x + v \in Nat /\ x + u <= x + v
    BY <1>1, <2>1
  <2> QED BY <2>2, <2>3, <2>4
<1> QED BY <1>4, <1>5

-----------------------------------------------------------------------------
(* Time                                                                    *)

LEMMA WholeDays ==
    ASSUME NEW d \in Int, NEW t \in Int, NEW u \in Int, t <= u
    PROVE  /\ DaysLeft(d, t) \in Int /\ DaysLeft(d, u) \in Int
           /\ DaysLeft(d, u) <= DaysLeft(d, t)
           /\ d >= u => DaysLeft(d, u) >= 0
  BY DEF DaysLeft

\* compute_final_score and inline_score: the points for urgency rise until the program is over.
LEMMA UrgencyRises ==
    ASSUME NEW q \in Query, NEW r \in Query, NEW p \in Programs,
           r.now <= q.now, Candidate(q, p)
    PROVE  ItemFor(r, p).urgency <= ItemFor(q, p).urgency
<1> DEFINE date == Catalogue[p].deadline_at
<1>1. q.now \in Int /\ r.now \in Int
  BY RecommendAssumption DEF RecommendAssumption, Query
<1>2. date = Absent \/ (date # Absent /\ date \in Int /\ date > q.now)
  <2>1. date \in Int \cup {Absent}
    BY RecommendAssumption DEF RecommendAssumption, ProgramRow
  <2> QED BY <2>1 DEF Candidate, ClosingDate
<1>3. /\ Urgency(date, r.now) <= Urgency(date, q.now)
      /\ InlineUrgency(date, r.now) <= InlineUrgency(date, q.now)
  <2> HIDE DEF date
  <2>1. CASE date = Absent
    BY <2>1 DEF Urgency, InlineUrgency
  <2>2. CASE date # Absent /\ date \in Int /\ date > q.now
    <3> DEFINE k == DaysLeft(date, r.now)  l == DaysLeft(date, q.now)
    <3>1. k \in Int /\ l \in Int /\ l <= k /\ l >= 0
      <4>1. date >= q.now
        BY <1>1, <2>2
      <4> QED BY <1>1, <2>2, <4>1, WholeDays, Zenon
    <3> HIDE DEF k, l
    <3>2. Urgency(date, r.now) = IF k < 0 THEN 0 ELSE IF k <= 7 THEN 15 ELSE IF k <= 30 THEN 12
                                 ELSE IF k <= 60 THEN 9 ELSE 6
      BY <2>2, Zenon DEF Urgency, k
    <3>3. Urgency(date, q.now) = IF l < 0 THEN 0 ELSE IF l <= 7 THEN 15 ELSE IF l <= 30 THEN 12
                                 ELSE IF l <= 60 THEN 9 ELSE 6
      BY <2>2, Zenon DEF Urgency, l
    <3>4. InlineUrgency(date, r.now) = IF k <= 30 THEN 20 ELSE IF k <= 60 THEN 15 ELSE 10
      BY <2>2, Zenon DEF InlineUrgency, k
    <3>5. InlineUrgency(date, q.now) = IF l <= 30 THEN 20 ELSE IF l <= 60 THEN 15 ELSE 10
      BY <2>2, Zenon DEF InlineUrgency, l
    <3> QED BY <3>1, <3>2, <3>3, <3>4, <3>5
  <2> QED BY <1>2, <2>1, <2>2
<1> QED BY <1>3 DEF ItemFor

\* A program that stays on the list for the same profile keeps its points: the
\* filter by date removes it before Urgency would take them back.
THEOREM TimeRaises == Spec => TimeOnlyRaises
<1> DEFINE Kept == asked'.profile = asked.profile /\ asked'.now > asked.now =>
                       \A m \in DOMAIN items : \A n \in DOMAIN items' :
                           items[m].program = items'[n].program => AtLeast(Score(items'[n]), Score(items[m]))
<1>1. TypeOK /\ ItemsInv /\ TypeOK' /\ ItemsInv' => Kept
  <2> SUFFICES ASSUME TypeOK, ItemsInv, TypeOK', ItemsInv',
                      asked'.profile = asked.profile, asked'.now > asked.now,
                      NEW m \in DOMAIN items, NEW n \in DOMAIN items',
                      items[m].program = items'[n].program
               PROVE  AtLeast(Score(items'[n]), Score(items[m]))
    OBVIOUS
  <2>1. PICK p \in Listed(asked) : items[m] = ItemFor(asked, p)
    BY RankingItems DEF TypeOK, ItemsInv
  <2>2. PICK r \in Listed(asked') : items'[n] = ItemFor(asked', r)
    BY RankingItems DEF TypeOK, ItemsInv
  <2>3. p = r
    BY <2>1, <2>2 DEF ItemFor
  <2>4. asked \in Query /\ asked' \in Query /\ p \in Programs /\ Candidate(asked', p)
    BY <2>1, <2>2, <2>3 DEF TypeOK, Listed
  <2>5. asked.now <= asked'.now
    BY <2>4, RecommendAssumption DEF Query, RecommendAssumption
  <2>6. ItemFor(asked, p).urgency <= ItemFor(asked', p).urgency
    BY <2>4, <2>5, UrgencyRises
  <2>7. Matched(asked.profile, p) \subseteq Matched(asked'.profile, p)
    OBVIOUS
  <2> QED BY <2>1, <2>2, <2>3, <2>4, <2>6, <2>7, ScoreGrows
<1> QED BY <1>1, PreviewInvariant, PTL DEF TimeOnlyRaises

-----------------------------------------------------------------------------
(* More answers                                                            *)

\* RecommendPreviewRequest: region_code and birth_year are always there.
Complete(f) == f["region_code"] # Absent /\ f["birth_year"] # Absent
RequiredInv == Complete(profile) /\ Complete(asked.profile)

LEMMA RequiredStay == TypeOK /\ RequiredInv /\ [Next]_vars => RequiredInv'
<1> SUFFICES ASSUME TypeOK, RequiredInv, [Next]_vars PROVE RequiredInv'
  OBVIOUS
<1>1. ASSUME NEW g \in Fields, Edit(g) PROVE RequiredInv'
  <2>1. PICK v \in Answers[g] : profile' = [profile EXCEPT ![g] = v]
    BY <1>1 DEF Edit
  <2>2. \A h \in {"region_code", "birth_year"} : h = g => v # Absent
    BY <2>1, RecommendAssumption DEF RecommendAssumption
  <2>3. Complete(profile')
    BY <2>1, <2>2, RecommendAssumption DEF RecommendAssumption, RequiredInv, Complete, TypeOK, Profiles
  <2> QED BY <1>1, <2>3 DEF Edit, RequiredInv
<1>2. CASE Preview
  BY <1>2 DEF Preview, Current, RequiredInv
<1>3. CASE HalfDayPasses
  BY <1>3 DEF HalfDayPasses, RequiredInv
<1>4. ASSUME NEW p \in Programs, Toggle(p) PROVE RequiredInv'
  BY <1>4 DEF Toggle, RequiredInv
<1>5. CASE UNCHANGED vars
  BY <1>5 DEF vars, RequiredInv
<1> QED BY <1>1, <1>2, <1>3, <1>4, <1>5 DEF Next

LEMMA RequiredAlways == Spec => []RequiredInv
<1>1. ASSUME Init PROVE RequiredInv
  <2>1. Complete(profile)
    BY <1>1, RecommendAssumption DEF RecommendAssumption, Init, Complete
  <2>2. asked.profile = profile
    BY <1>1 DEF Init, Current
  <2> QED BY <2>1, <2>2 DEF RequiredInv
<1> QED BY <1>1, RequiredStay, TypeCorrect, PTL DEF Spec

LEMMA CandidateStays ==
    ASSUME NEW q, NEW r, NEW p, AnswersMore(q, r), Complete(r.profile), Candidate(r, p)
    PROVE  Candidate(q, p)
<1>1. q.now = r.now /\ q.active = r.active
  BY DEF AnswersMore
<1>2. q.profile["region_code"] = r.profile["region_code"] /\ q.profile["birth_year"] = r.profile["birth_year"]
  BY RecommendAssumption DEF RecommendAssumption, AnswersMore, Complete
<1>3. Age(q) = Age(r)
  BY <1>1, <1>2 DEF Age, Year
<1> QED BY <1>1, <1>2, <1>3 DEF Candidate

\* Adding answers lowers no score, and removes a program from the list only
\* when all of its conditions have failed (preview, evaluate).
THEOREM AnswersHelp == Spec => AnswersOnlyHelp
<1> DEFINE Helped == asked' # asked /\ AnswersMore(asked', asked) =>
               \A m \in DOMAIN items :
                   LET p == items[m].program IN
                   \/ \E n \in DOMAIN items' : items'[n].program = p /\ AtLeast(Score(items'[n]), Score(items[m]))
                   \/ Clauses[p] # {} /\ \A l \in LeavesOf(p) : l \in Failed(asked'.profile, p)
<1>1. TypeOK /\ ItemsInv /\ RequiredInv /\ TypeOK' /\ ItemsInv' => Helped
  <2> SUFFICES ASSUME TypeOK, ItemsInv, RequiredInv, TypeOK', ItemsInv', AnswersMore(asked', asked),
                      NEW m \in DOMAIN items
               PROVE  LET p == items[m].program IN
                      \/ \E n \in DOMAIN items' : items'[n].program = p /\ AtLeast(Score(items'[n]), Score(items[m]))
                      \/ Clauses[p] # {} /\ \A l \in LeavesOf(p) : l \in Failed(asked'.profile, p)
    OBVIOUS
  <2>1. PICK p \in Listed(asked) : items[m] = ItemFor(asked, p)
    BY RankingItems DEF TypeOK, ItemsInv
  <2>2. items[m].program = p /\ p \in Programs
    BY <2>1 DEF ItemFor, Listed
  <2>3. CASE Included(asked'.profile, p)
    <3>1. Candidate(asked', p)
      BY <2>1, CandidateStays DEF Listed, RequiredInv
    <3>2. p \in Listed(asked')
      BY <2>2, <2>3, <3>1 DEF Listed
    <3>3. PICK n \in DOMAIN items' : items'[n] = ItemFor(asked', p)
      BY <3>2, RankingItems DEF TypeOK, ItemsInv
    <3>4. Matched(asked.profile, p) \subseteq Matched(asked'.profile, p)
      BY EvaluationKept, Zenon
    <3>5. ItemFor(asked', p).urgency = ItemFor(asked, p).urgency
      <4>1. asked'.now = asked.now
        BY DEF AnswersMore
      <4> QED BY <4>1 DEF ItemFor
    <3>6. ItemFor(asked, p).urgency <= ItemFor(asked', p).urgency
      BY <3>5, UrgencyType
    <3>7. AtLeast(Score(ItemFor(asked', p)), Score(ItemFor(asked, p)))
      BY <2>2, <3>4, <3>6, ScoreGrows
    <3>8. items'[n].program = p
      BY <3>3 DEF ItemFor
    <3> QED BY <2>1, <2>2, <3>3, <3>7, <3>8
  <2>4. CASE ~Included(asked'.profile, p)
    BY <2>2, <2>4 DEF Included, Failed
  <2> QED BY <2>3, <2>4
<1> QED BY <1>1, PreviewInvariant, RequiredAlways, PTL DEF AnswersOnlyHelp
=============================================================================
