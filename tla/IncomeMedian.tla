---------------------------- MODULE IncomeMedian ----------------------------
(***************************************************************************)
(* constants/incomeMedian.ts of the mobile client: the estimate of the     *)
(* income bracket (1 lowest, 10 highest) from household size and income.   *)
(***************************************************************************)
EXTENDS Integers

\* Won per month, for households of 1 to 6
MEDIAN_INCOME == <<2392013, 3932658, 5025353, 6097773, 7108192, 8064805>>
MAX_TABLE_SIZE == 6

\* Mutant: the difference is taken away.
GetMedianIncomeDown(size) ==
    IF size <= MAX_TABLE_SIZE THEN MEDIAN_INCOME[size]
    ELSE MEDIAN_INCOME[6] - (size - MAX_TABLE_SIZE) * (MEDIAN_INCOME[6] - MEDIAN_INCOME[5])

\* From 7 members on the last difference is added for each of them.
GetMedianIncome(size) ==
    IF size <= MAX_TABLE_SIZE THEN MEDIAN_INCOME[size]
    ELSE MEDIAN_INCOME[6] + (size - MAX_TABLE_SIZE) * (MEDIAN_INCOME[6] - MEDIAN_INCOME[5])

\* The greatest percentage of the median that is still in bracket 1, 2, ... 9
BRACKET_THRESHOLDS == <<50, 75, 100, 120, 150, 180, 220, 300, 400>>

PercentToBracket(percent) ==
    CHOOSE b \in 1..10 : /\ b < 10 => percent <= BRACKET_THRESHOLDS[b]
                         /\ b > 1  => percent > BRACKET_THRESHOLDS[b - 1]

\* Math.round of 100 * income / median, the income in 10 000 won
PercentOfMedian(size, income) ==
    (2000000 * income + GetMedianIncome(size)) \div (2 * GetMedianIncome(size))

EstimateBracket(size, income) == PercentToBracket(PercentOfMedian(size, income))
=============================================================================
