----------------------------- MODULE Programme -----------------------------
(***************************************************************************)
(* What the mobile client derives from a programme, the user's onboarding  *)
(* answers and the document vault, without keeping any state: the          *)
(* conditions and the verdict of the pre-check (programs/[id].tsx), the    *)
(* conditions and document matches of the assistant (apply-assistant.tsx), *)
(* and the link to the application (lib/api.ts).                           *)
(*                                                                         *)
(* Abstracted: amounts and texts; a date is the days left to it; of a URL  *)
(* only its kind; a stored document carries the label of its type.         *)
(***************************************************************************)
EXTENDS Integers, Sequences, FiniteSets

CONSTANTS
    Programmes,    \* the programme of a behaviour is one of these (see IsProgramme)
    Applicants,    \* the user's onboarding answers and session (see IsApplicant)
    VaultContents  \* the types of the documents in the vault, in order

None == "none"

UrlKinds == {"none", "unsafe", "generic", "direct", "malformed"}
GuideSections == {"method", "documents", "screening"}
IsProgramme(p) ==
    /\ p.regions \subseteq STRING /\ p.ages \in {<<>>} \cup (Nat \X Nat) /\ p.campus \in BOOLEAN
    /\ p.days \in Seq(Int) /\ Len(p.days) <= 1 /\ p.official \in UrlKinds
    /\ p.steps \in Seq([hinted: BOOLEAN, url: UrlKinds]) /\ p.guide \subseteq GuideSections
IsApplicant(u) ==
    /\ u.signedIn \in BOOLEAN /\ u.region \in STRING /\ u.age \in Nat
    /\ u.enrollment \in STRING /\ u.bracket \in 0..10

ASSUME ProgrammeAssumption ==
    /\ (\A p \in Programmes : IsProgramme(p)) /\ (\A u \in Applicants : IsApplicant(u))
    /\ \A v \in VaultContents : v \in Seq(STRING)

-----------------------------------------------------------------------------
(* Documents and the pre-check                                             *)

Documents == 1..4
DocumentTypes == <<{"resident_register"}, {"income_proof"}, {}, {"health_insurance"}>>

\* DEFAULT_DOCS: those with a page that issues them, which the assistant links.
IssuedOnline == Documents \ {3}

\* getDocPrepDays: only the certificate of enrolment takes longer than a day.
PrepDays(d) == IF d = 3 THEN 3 ELSE 1
TotalPrepDays(docs) == Cardinality(docs) + (IF 3 \in docs THEN PrepDays(3) - 1 ELSE 0)

\* The detail screen takes the stored list for a record of flags by name: its keys are
\* the positions 0, 1, ..., and a position that is a document's id ticks it.
VaultTicks(vault) == {d \in Documents : d < Len(vault)}

\* isDocInVault: by type; the third name is in no table, and no stored label contains it.
InVault(d, vault) == \E n \in DOMAIN vault : vault[n] \in DocumentTypes[d]

RegionStatus(p, u) ==
    IF p.regions = {} \/ "national" \in p.regions THEN "ok"
    ELSE IF u.region = "" THEN "warn"
    ELSE IF u.region \in p.regions THEN "ok" ELSE "fail"

\* An age of 0 stands for one that was not given.
AgeStatus(p, u) ==
    IF p.ages = <<>> THEN None
    ELSE IF u.age = 0 THEN "warn"
    ELSE IF p.ages[1] <= u.age /\ u.age <= p.ages[2] THEN "ok" ELSE "fail"

EnrollmentStatus(p, u) ==
    IF ~p.campus THEN None
    ELSE IF u.enrollment \in {"enrolled", "in_school", "university"} THEN "ok" ELSE "warn"

IncomeStatus(u) == IF u.bracket # 0 THEN "ok" ELSE "warn"

Conditions(p, u) == {RegionStatus(p, u), AgeStatus(p, u), EnrollmentStatus(p, u), IncomeStatus(u)} \ {None}

\* Mutant: the documents that are ready take their time again.
TimeStatusOfTicked(p, ticked) ==
    IF \A n \in DOMAIN p.days : p.days[n] <= 0 THEN "na"
    ELSE IF p.days[1] > TotalPrepDays(ticked) + 1 THEN "ok" ELSE "warn"

TimeStatus(p, ticked) ==
    IF \A n \in DOMAIN p.days : p.days[n] <= 0 THEN "na"
    ELSE IF p.days[1] > TotalPrepDays(Documents \ ticked) + 1 THEN "ok" ELSE "warn"

\* The last section of the pre-check
DeadlineShows(p, ticked) ==
    CASE p.days = <<>>                    -> "no date"
      [] \E n \in DOMAIN p.days : p.days[n] <= 0 -> "closed"
      [] TimeStatus(p, ticked) = "warn"   -> "what takes too long"
      [] TimeStatus(p, ticked) = "ok"     -> "time enough"

\* The verdict of the pre-check, worst first: 0 fail, 1 warn, 2 pass.
Verdict(p, u, ticked) ==
    LET conditions == Conditions(p, u)
        incomplete == ticked # Documents
        late       == TimeStatus(p, ticked) = "warn"
    IN  IF "fail" \in conditions \/ (late /\ incomplete) THEN 0
        ELSE IF "warn" \in conditions \/ incomplete \/ late THEN 1 ELSE 2

\* The assistant's own conditions: all but the income count as met.
AssistantConditions(p) ==
    <<"ok">> \o (IF p.ages # <<>> THEN <<"ok">> ELSE <<>>) \o (IF p.campus THEN <<"ok">> ELSE <<>>) \o <<"warn">>

\* calcProbability: the rounded share of "ok", 5 less per "warn", within 50..98.
Probability(conditions) ==
    LET met  == Cardinality({n \in DOMAIN conditions : conditions[n] = "ok"})
        warn == Cardinality({n \in DOMAIN conditions : conditions[n] = "warn"})
        all  == Len(conditions)
        base == (200 * met + all) \div (2 * all) - 5 * warn
    IN  IF base < 50 THEN 50 ELSE IF base > 98 THEN 98 ELSE base

-----------------------------------------------------------------------------
(* What is shown of a programme                                            *)

\* regionLabel has names for ten codes and shows the others as they are (of region_scope,
\* which stands in for a list that is missing, only the nationwide one is modelled).
NamedRegions == {"national", "seoul", "busan", "daegu", "incheon", "gwangju", "daejeon", "ulsan", "sejong", "gyeonggi"}
ShownRegions(p) ==
    {<<IF r \in NamedRegions THEN "name" ELSE "code", r>> : r \in IF p.regions = {} THEN {"national"} ELSE p.regions}

\* buildSupportContent and the like: what the tabs say; the last one is the checklist.
TabContent(p, tab) ==
    CASE tab = "support"   -> {"benefit"}
      [] tab = "criteria"  -> {IF p.ages = <<>> THEN "any age" ELSE "ages", "regions", "income", "other"}
      [] tab = "how_to"    -> IF p.official = None THEN {"office"} ELSE {"site", "form", "result"}
      [] tab = "documents" -> {"checklist"}

\* ApplicationGuideCard: the sections that have a text, and those with a line below them;
\* without a section there is no card.
GuideCard(p) ==
    [sections |-> p.guide,
     lines    |-> (IF p.guide \cap {"documents", "screening"} # {} THEN p.guide \cap {"method"} ELSE {})
                  \cup (IF "screening" \in p.guide THEN p.guide \cap {"documents"} ELSE {})]

\* Step1 of the assistant: the conditions, and how it rates their probability
EligibilityStep(p) ==
    LET probability == Probability(AssistantConditions(p))
    IN  [conditions |-> AssistantConditions(p), probability |-> probability, guide |-> GuideCard(p),
         rating |-> IF probability >= 85 THEN "high" ELSE IF probability >= 65 THEN "medium" ELSE "low"]

-----------------------------------------------------------------------------
(* The link                                                                *)

Safe(url) == url \in {"generic", "direct", "malformed"}    \* http or https

\* resolveApplyUrl: the official page unless it is a portal, else a step that says
\* "apply", else one that is no portal, else the portal.
ApplyUrl(p) ==
    LET steps  == SelectSeq(p.steps, LAMBDA s : Safe(s.url))
        hinted == SelectSeq(steps, LAMBDA s : s.hinted)
        direct == SelectSeq(steps, LAMBDA s : s.url # "generic")
    IN  IF Safe(p.official) /\ p.official # "generic" THEN p.official
        ELSE IF hinted # <<>> THEN Head(hinted).url
        ELSE IF direct # <<>> THEN Head(direct).url
        ELSE IF Safe(p.official) THEN p.official ELSE None
=============================================================================
