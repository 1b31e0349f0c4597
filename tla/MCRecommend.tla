---------------------------- MODULE MCRecommend ----------------------------
(* A small instance of Recommend: three programs with rules like those of   *)
(* the seed data, and one without rules.                                    *)
EXTENDS Recommend, TLC

CONSTANTS rent, savings, training, grant
CONSTANTS l1, l2, l3, l4, l5, l6, l7, l8

\* Strings, numbered in lexicographic order
busan == 1
daegu == 2
employed == 3
unemployed == 4

Num(n)  == [type |-> "number", of |-> n]
Str(n)  == [type |-> "string", of |-> n]
Flag(n) == [type |-> "bool", of |-> n]
One(v)  == [array |-> FALSE, of |-> <<v>>]
Arr(s)  == [array |-> TRUE, of |-> s]
Null    == [array |-> FALSE, of |-> <<>>]

Cond(g, op, e, w) == [field |-> g, op |-> op, value |-> e, weight |-> w]

MCCondition ==
       l1 :> Cond("region", "in", Arr(<<Str(busan)>>), 3)
    @@ l2 :> Cond("income_bracket", "lte", One(Num(8)), 3)
    @@ l3 :> Cond("employment_status", "in", Arr(<<Str(employed)>>), 2)
    @@ l4 :> Cond("is_low_income_household", "is_true", Null, 2)
    @@ l5 :> Cond("birth_year", "between", Arr(<<Num(1992), Num(2007)>>), 2)
    @@ l6 :> Cond("employment_status", "not_in", Arr(<<Str(employed)>>), 5)
    @@ l7 :> Cond("income_bracket", "gt", One(Num(3)), 1)
    @@ l8 :> Cond("enrollment_status", "is_not_null", Null, 1)

MCClauses ==
       rent     :> {{l1}, {l2}, {l3, l4}}
    @@ savings  :> {{l5}, {l3, l7}}
    @@ training :> {{l6}, {l7, l8}}
    @@ grant    :> {}

Row(r, lo, hi, d, e, m) ==
    [regions |-> r, min_age |-> lo, max_age |-> hi, deadline_at |-> d,
     application_end_at |-> e, monthly |-> m, semester |-> 0, once |-> 0,
     scholarship |-> TRUE]

MCCatalogue ==
       rent     :> Row({busan}, Absent, Absent, 3, Absent, 200000)
    @@ savings  :> Row({}, 19, 34, 62, 40, 500000)
    @@ training :> Row({}, Absent, Absent, Absent, 2, 0)
    @@ grant    :> Row({busan, daegu}, Absent, 26, 122, Absent, 300000)

MCFields == {"birth_year", "region_code", "income_bracket", "employment_status",
             "enrollment_status", "is_low_income_household"}

MCAnswers == [g \in MCFields |->
    CASE g = "birth_year"        -> {Num(2000)}
      [] g = "region_code"       -> {Str(busan), Str(daegu)}
      [] g = "income_bracket"    -> {Absent, Num(3), Num(9)}
      [] g = "employment_status" -> {Absent, Str(employed), Str(unemployed)}
      [] g = "enrollment_status" -> {Absent}
      [] OTHER                   -> {Flag(0), Flag(1)}]

MCProfile == [g \in MCFields |->
    CASE g = "birth_year"        -> Num(2000)
      [] g = "region_code"       -> Str(busan)
      [] g = "is_low_income_household" -> Flag(0)
      [] OTHER                   -> Absent]
=============================================================================
