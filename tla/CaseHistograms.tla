---------------------------- MODULE CaseHistograms ----------------------------
(***************************************************************************)
(* The histograms of operator_api: aging and stagnation of the cases in    *)
(* flight, and acknowledgment, handling and resolution latency of the      *)
(* others.  Each function of the source walks list_cases once, counts the  *)
(* cases it is about by bucket and by bucket and group, and keeps the      *)
(* extreme ones.                                                           *)
(***************************************************************************)
EXTENDS CaseRecords

\* One walk over list_cases: of the cases that are measured, how many there are, in
\* each bucket, and in each bucket by group.
Histogram(measure, group) ==
    LET In(b) == {c \in DOMAIN measure : AgeBucket(measure[c]) = b}
    IN [total  |-> Cardinality(DOMAIN measure),
        bucket |-> [b \in BucketNames |-> Cardinality(In(b))],
        split  |-> [b \in BucketNames |-> CountBy(In(b), group)]]

\* The row a histogram shows beside its counts, if there is any case.
Extreme(rank, measure) ==
    {[case_id |-> c, seconds |-> measure[c]] : c \in FirstMost(rank)}

-----------------------------------------------------------------------------
(***************************************************************************)
(* What is measured, at time "at".                                         *)
(***************************************************************************)
Age(c, at) == Seconds(cases[c].opened, at)

IdleTime(c, at) == Seconds(cases[c].updated, at)

AckLatency(c) == Seconds(cases[c].opened, cases[c].acknowledged)

HandlingLatency(c) == Seconds(cases[c].acknowledged, cases[c].resolved)

ResolutionLatency(c) == Seconds(cases[c].opened, cases[c].resolved)

AckedCases(business) == {c \in CasesOf(business) : cases[c].acknowledged # 0}

\* Mutant: a case resolved as soon as it was acknowledged does not count as handled.
HandledCases_NotAtOnce(business) ==
    {c \in CasesOf(business) :
        cases[c].acknowledged # 0 /\ cases[c].acknowledged < cases[c].resolved}

HandledCases(business) ==
    {c \in CasesOf(business) : cases[c].resolved # 0 /\ cases[c].acknowledged # 0}

ResolvedCases(business) == {c \in CasesOf(business) : cases[c].resolved # 0}

\* The columns to split by.
BySeverity == [c \in DOMAIN cases |-> Severity(c)]
ByType == [c \in DOMAIN cases |-> Type(c)]
ByKind == [c \in DOMAIN cases |-> Kind(c)]
BySource == [c \in DOMAIN cases |-> PrimarySource(c)]
ByBracket == [c \in DOMAIN cases |-> PriorityBracket(Priority(c))]

-----------------------------------------------------------------------------
\* Cases in flight by age, with the oldest of them.
Aging(business, at, group) ==
    LET age == [c \in ActionableCases(business) |-> Age(c, at)]
    IN [counts |-> Histogram(age, group), oldest |-> Extreme(age, age)]

summarize_case_queue_aging(b, at) == Aging(b, at, BySeverity)
summarize_case_queue_aging_by_case_type(b, at) == Aging(b, at, ByType)
summarize_case_queue_aging_by_source_connector(b, at) == Aging(b, at, BySource)
summarize_case_queue_aging_by_entity_kind(b, at) == Aging(b, at, ByKind)
summarize_case_queue_aging_by_priority_bracket(b, at) == Aging(b, at, ByBracket)
summarize_case_queue_aging_by_severity(b, at) == Aging(b, at, BySeverity)

\* Cases in flight by the time since anybody touched them, with the most stalled.
Stagnation(business, at, group) ==
    LET idle == [c \in ActionableCases(business) |-> IdleTime(c, at)]
    IN [counts |-> Histogram(idle, group), most_stalled |-> Extreme(idle, idle)]

summarize_case_queue_stagnation(b, at) == Stagnation(b, at, BySeverity)
summarize_case_queue_stagnation_by_case_type(b, at) == Stagnation(b, at, ByType)
summarize_case_queue_stagnation_by_entity_kind(b, at) == Stagnation(b, at, ByKind)
summarize_case_queue_stagnation_by_source_connector(b, at) ==
    Stagnation(b, at, BySource)
summarize_case_queue_stagnation_by_priority_bracket(b, at) == Stagnation(b, at, ByBracket)
summarize_case_queue_stagnation_by_severity(b, at) == Stagnation(b, at, BySeverity)

\* Cases that got somewhere, by how long it took, with the fastest and slowest.
Latency(took, group) ==
    [counts  |-> Histogram(took, group),
     fastest |-> Extreme([c \in DOMAIN took |-> 0 - took[c]], took),
     slowest |-> Extreme(took, took)]

Acknowledgment(business, group) ==
    Latency([c \in AckedCases(business) |-> AckLatency(c)], group)

summarize_case_acknowledgment_latency_histogram(b) == Acknowledgment(b, BySeverity)
summarize_case_acknowledgment_latency_histogram_by_case_type(b) == Acknowledgment(b, ByType)
summarize_case_acknowledgment_latency_histogram_by_entity_kind(b) ==
    Acknowledgment(b, ByKind)
summarize_case_acknowledgment_latency_histogram_by_source_connector(b) ==
    Acknowledgment(b, BySource)
summarize_case_acknowledgment_latency_histogram_by_priority_bracket(b) ==
    Acknowledgment(b, ByBracket)

Handling(business, group) ==
    Latency([c \in HandledCases(business) |-> HandlingLatency(c)], group)

summarize_case_handling_latency_histogram(b) == Handling(b, BySeverity)
summarize_case_handling_latency_histogram_by_case_type(b) == Handling(b, ByType)
summarize_case_handling_latency_histogram_by_entity_kind(b) == Handling(b, ByKind)
summarize_case_handling_latency_histogram_by_source_connector(b) ==
    Handling(b, BySource)
summarize_case_handling_latency_histogram_by_priority_bracket(b) == Handling(b, ByBracket)

Resolution(business, group) ==
    Latency([c \in ResolvedCases(business) |-> ResolutionLatency(c)], group)

summarize_case_resolution_latency_histogram(b) == Resolution(b, BySeverity)
summarize_case_resolution_latency_histogram_by_case_type(b) == Resolution(b, ByType)
summarize_case_resolution_latency_histogram_by_entity_kind(b) == Resolution(b, ByKind)
summarize_case_resolution_latency_histogram_by_source_connector(b) ==
    Resolution(b, BySource)
summarize_case_resolution_latency_histogram_by_priority_bracket(b) ==
    Resolution(b, ByBracket)
=============================================================================
