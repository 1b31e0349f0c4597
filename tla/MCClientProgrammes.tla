-------------------------- MODULE MCClientProgrammes --------------------------
(* The screens of the mobile client about programmes, on small instances.    *)
(* They share no variable; a behaviour is one of one of them, its focus,     *)
(* while the others stay as they were at first.                              *)
EXTENDS Applications, PreCheck, Bookmarks, Stack, WhatIf, AutoFill, Explore, Home,
        Preview

VARIABLE focus

Step(hinted, url) == [hinted |-> hinted, url |-> url]
MCProgrammes == {
    [regions |-> {"busan"}, ages |-> <<19, 34>>, campus |-> TRUE, days |-> <<4>>, official |-> "generic",
     steps |-> <<Step(TRUE, "unsafe"), Step(TRUE, "direct")>>, guide |-> {"method", "screening"}],
    [regions |-> {"national"}, ages |-> <<>>, campus |-> FALSE, days |-> <<6>>, official |-> "malformed",
     steps |-> <<>>, guide |-> {}] }
MCApplicants == {
    [signedIn |-> TRUE, region |-> "busan", age |-> 24, enrollment |-> "other", bracket |-> 3],
    [signedIn |-> FALSE, region |-> "", age |-> 0, enrollment |-> "", bracket |-> 0] }
MCVaults == {<<>>, <<"income_proof", "resident_register">>}

Listing(id, provider, type, kosaf, monthly, semester, once) ==
    [id |-> id, provider |-> provider, type |-> type, kosaf |-> kosaf,
     monthly |-> monthly, semester |-> semester, once |-> once]
TuitionGrant == Listing("a", "kosaf", "scholarship", TRUE, 0, 100, 0)
WorkGrant    == Listing("b", "kosaf", "scholarship", TRUE, 5, 0, 0)
YouthAccount == Listing("c", "busan", "savings", FALSE, 10, 0, 11)
RentSupport  == Listing("d", "busan", "welfare", FALSE, 0, 3, 0)
HopeAccount  == Listing("e", "busan", "savings", FALSE, 7, 0, 0)
Anonymous    == Listing("f", "", "other", FALSE, 0, 0, 30)
MCLists == {<<TuitionGrant, WorkGrant, YouthAccount, RentSupport, HopeAccount, Anonymous>>,
            <<YouthAccount, HopeAccount, TuitionGrant>>, <<WorkGrant, Anonymous, RentSupport>>}

Onboarded(age, income) ==
    [region |-> "busan", enrollment |-> "label_enrolled", employment |-> "label_none",
     age |-> age, income |-> income]
MCAnswered == {Onboarded(24, "null"), Onboarded(NoAge, "5")}
MCOptions == [region |-> {"busan", "seoul"}, enrollment |-> {}, employment |-> {},
              age |-> {0, 1}, income |-> {"null", "5"}]
MCOffers ==
    [p \in [region: {"national", "busan", "seoul"}, enrollment: {"label_enrolled"},
            employment: {"label_none"}, birth: 2000..2002, income: {"null", "5"}] |->
        (IF p.birth = 2001 THEN {} ELSE {"youth"})
                  \cup (IF p.region = "busan" THEN {"rent"} ELSE {})
                  \cup (IF p.region = "seoul" THEN {"housing"} ELSE {})
                  \cup (IF p.income = "5" THEN {} ELSE {"grant"})]
MCMonthly == [rent |-> 20, housing |-> 30, youth |-> 7, grant |-> 35]

Card(id, type, regions, min, max, status, days) ==
    [id |-> id, type |-> type, regions |-> regions, min |-> min, max |-> max,
     status |-> status, days |-> days]
MCCards == {Card("a", "scholarship", {"busan"}, 0, 24, "open", <<40>>),
            Card("b", "support", {}, 25, 39, "always_open", <<>>),
            Card("c", "youth_policy", {"seoul"}, 18, 200, "open", <<3>>),
            Card("d", "loan", {"busan", "seoul"}, 40, 64, "closed", <<>>)}
MCTerms == [t \in {"", "x"} |-> IF t = "x" THEN {"a", "c"} ELSE {"a", "b", "c", "d"}]

Match(score, days, listed) == [score |-> score, days |-> days, listed |-> listed]
MCRecommended == [r \in {"busan", "daegu"} |->
    IF r = "busan" THEN <<Match(90, <<3>>, TRUE), Match(70, <<>>, FALSE)>>
    ELSE <<Match(85, <<30>>, TRUE)>>]

-----------------------------------------------------------------------------

\* The parts with several initial states start from one of them when they are not the focus.
One(S) == CHOOSE s \in S : TRUE

ScreensInit ==
    /\ focus \in {"application", "check", "bookmark", "stack", "what-if", "fill", "explore", "home",
                 "preview"}
    /\ AppInit      /\ (focus = "application" \/ (visit = [programme |-> One(Programmes), user |-> One(Applicants)]
                                                /\ appServer = None))
    /\ CheckInit    /\ (focus = "check" \/ subject = [programme |-> One(Programmes), user |-> One(Applicants),
                                                      vault |-> One(VaultContents)])
    /\ BookmarkInit /\ (focus = "bookmark" \/ (icon.signedIn /\ marks.row))
    /\ SimInit      /\ (focus = "what-if" \/ answered = One(Answered))
    /\ FillInit     /\ (focus = "fill" \/ fillScreen.session)
    /\ PreviewInit  /\ (focus = "preview" \/ (kept = "" /\ answer = One(PreviewRegions)))
    /\ StackInit /\ ExploreInit /\ HomeInit

ScreensNext ==
    \/ /\ focus = "application" /\ AppNext
       /\ UNCHANGED <<checkVars, bookmarkVars, stackVars, simVars, fillVars, exploreVars, homeVars, previewVars, focus>>
    \/ /\ focus = "check" /\ CheckNext
       /\ UNCHANGED <<appVars, bookmarkVars, stackVars, simVars, fillVars, exploreVars, homeVars, previewVars, focus>>
    \/ /\ focus = "bookmark" /\ BookmarkNext
       /\ UNCHANGED <<appVars, checkVars, stackVars, simVars, fillVars, exploreVars, homeVars, previewVars, focus>>
    \/ /\ focus = "stack" /\ StackNext
       /\ UNCHANGED <<appVars, checkVars, bookmarkVars, simVars, fillVars, exploreVars, homeVars, previewVars, focus>>
    \/ /\ focus = "what-if" /\ SimNext
       /\ UNCHANGED <<appVars, checkVars, bookmarkVars, stackVars, fillVars, exploreVars, homeVars, previewVars, focus>>
    \/ /\ focus = "fill" /\ FillNext
       /\ UNCHANGED <<appVars, checkVars, bookmarkVars, stackVars, simVars, exploreVars, homeVars, previewVars, focus>>
    \/ /\ focus = "explore" /\ ExploreNext
       /\ UNCHANGED <<appVars, checkVars, bookmarkVars, stackVars, simVars, fillVars, homeVars, previewVars, focus>>
    \/ /\ focus = "home" /\ HomeNext
       /\ UNCHANGED <<appVars, checkVars, bookmarkVars, stackVars, simVars, fillVars, exploreVars, previewVars, focus>>
    \/ /\ focus = "preview" /\ PreviewNext
       /\ UNCHANGED <<appVars, checkVars, bookmarkVars, stackVars, simVars, fillVars, exploreVars, homeVars, focus>>

ScreensSpec ==
    ScreensInit /\ [][ScreensNext]_<<appVars, checkVars, bookmarkVars, stackVars, simVars, fillVars,
                                     exploreVars, homeVars, previewVars, focus>>

\* The type invariant of the part in focus: every value is one its variable in the code can hold.
ScreensTypeOK ==
    CASE focus = "application" -> AppTypeOK
      [] focus = "check"       -> CheckTypeOK
      [] focus = "bookmark"    -> BookmarkTypeOK
      [] focus = "stack"       -> StackTypeOK
      [] focus = "what-if"     -> SimTypeOK
      [] focus = "fill"        -> FillTypeOK
      [] focus = "explore"     -> ExploreTypeOK
      [] focus = "home"        -> HomeTypeOK
      [] focus = "preview"     -> PreviewTypeOK
=============================================================================
