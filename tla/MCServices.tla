----------------------------- MODULE MCServices -----------------------------
(***************************************************************************)
(* Small instances of four services that share no state: counters on their *)
(* way to S3, the cache of the problem catalogue, the event files, and the *)
(* assessment of a design.  Each behaviour exercises one of them and the   *)
(* others rest.                                                            *)
(***************************************************************************)
EXTENDS AnalyticsFlush, CatalogCache, EventLog, AssessmentReview, TLC

CONSTANTS
  look, cost,    \* two criteria
  must, may,     \* two requirements
  drawn, absent, \* an element of the design, and one that it does not have
  v1, v2         \* two revisions of the brief

VARIABLE part

vars == <<flushVars, cacheVars, logVars, reviewVars, part>>

Init ==
  /\ part \in {"flush", "cache", "log", "review"}
  /\ FlushInit /\ CacheInit /\ LogInit /\ ReviewInit
  /\ part # "review" => approved = None

Next ==
  \/ part = "flush" /\ FlushNext /\ UNCHANGED <<cacheVars, logVars, reviewVars, part>>
  \/ part = "cache" /\ CacheNext /\ UNCHANGED <<flushVars, logVars, reviewVars, part>>
  \/ part = "log" /\ LogNext /\ UNCHANGED <<flushVars, cacheVars, reviewVars, part>>
  \/ part = "review" /\ ReviewNext /\ UNCHANGED <<flushVars, cacheVars, logVars, part>>

Spec == Init /\ [][Next]_vars

\* The fairness of each component, for the behaviours that exercise it.
Work(h) ==
  \/ part = "flush" /\ Flush(h) /\ UNCHANGED <<cacheVars, logVars, reviewVars, part>>
  \/ part = "cache" /\ Read(h) /\ UNCHANGED <<flushVars, logVars, reviewVars, part>>

FairSpec ==
  /\ Spec
  /\ \A h \in Handlers : WF_vars(Work(h))
  /\ WF_vars(part = "flush" /\ ExpireFlush /\ UNCHANGED <<cacheVars, logVars, reviewVars, part>>)

-----------------------------------------------------------------------------
(* What a language model may answer: up to one finding of many, with or without one *)
(* that explains a low score of the other criterion.                                *)

MCWeight == [x \in Criteria |-> IF x = look THEN 8 ELSE 3]

MCCore == [r \in Maybe(Briefs) |-> IF r = v2 THEN {must, may} ELSE {must}]

MCExtension == [r \in Maybe(Briefs) |-> IF r = v1 THEN {may} ELSE {}]

Kinded == {<<"strength", "positive">>, <<"clarification", "important">>,
           <<"extension", "improvement">>}

Grounds ==
  {<<{drawn}, {must}>>, <<{drawn}, {may}>>, <<{drawn}, {}>>, <<{absent}, {must}>>,
   <<{}, {must}>>, <<{}, {}>>}

Defects ==
  {[kind |-> "defect", severity |-> s, criterion |-> x, evidence |-> g[1],
    requirements |-> g[2], gap |-> b, advice |-> TRUE] :
      s \in {"critical", "important"}, x \in {None, look}, g \in Grounds, b \in BOOLEAN}

Remarks ==
  {[kind |-> ks[1], severity |-> ks[2], criterion |-> None, evidence |-> e,
    requirements |-> {}, gap |-> FALSE, advice |-> TRUE] :
      ks \in Kinded, e \in {{}, {drawn}}}

Findings == Defects \cup Remarks

Costly == [kind |-> "defect", severity |-> "important", criterion |-> cost,
           evidence |-> {drawn}, requirements |-> {must}, gap |-> TRUE, advice |-> TRUE]

Cover(id, s, e) == [id |-> id, status |-> s, evidence |-> e]

Covers ==
  {{Cover(must, s, e)} : s \in {"supported", "partial"}, e \in {{}, {drawn}}}
    \cup {{Cover(must, s, {})} : s \in {"missing", "unclear"}}

Coverages ==
  {{}} \cup Covers \cup {x \cup {Cover(may, "supported", {drawn})} : x \in Covers}

MCAnswers ==
  {[whole |-> FALSE, verdict |-> "strong", scores |-> [x \in Criteria |-> 96],
    findings |-> {}, coverage |-> {}]} \cup
  [whole : {TRUE}, verdict : {"strong", "revise", "unclear"},
   scores : [Criteria -> {40, 96}],
   findings : {{}, {Costly}} \cup {{f} : f \in Findings} \cup {{f, Costly} : f \in Findings},
   coverage : Coverages]

=============================================================================
