----------------------------- MODULE MCAcquisition -----------------------------
(* An automated source and a manual one, for the runs of Acquisition.    *)
EXTENDS Acquisition, TLC

CONSTANTS API, MAN, rate, notice

Entry(access, enabled, use, redistribution) ==
    [enabled |-> enabled, access |-> access, intakeAllowed |-> access = "manual",
     namesPublisher |-> TRUE, roles |-> {"fx_context"}, use |-> use,
     redistribution |-> redistribution, reuseKnown |-> TRUE, rateKnown |-> TRUE,
     scheduled |-> FALSE, licenceReviewed |-> TRUE]

MCTerms ==
    [s \in Sources |-> IF s = MAN
                       THEN Entry("manual", FALSE, "bounded_claim_and_link_only", "link_only")
                       ELSE Entry("api", TRUE, "raw_values_permitted", "permitted")]
MCTermChoices == {<<"raw_values_permitted", "permitted">>,
                  <<"derived_values_only", "derived_only">>}
MCSourceOf == [r \in RecordIds |-> IF r = notice THEN MAN ELSE API]
MCPurposes == [s \in Sources |-> IF s = API THEN {"costs"} ELSE {"costs", "events"}]

\* Nothing on file; a first collection and a reviewed notice; the same, and the
\* collection confirmed since by a run that the record cites.
NoFiles == [runs |-> << >>, records |-> [r \in RecordIds |-> None], events |-> << >>,
            vouched |-> {}]
FirstRun == [source |-> API, status |-> "success", started |-> 0, completed |-> 0,
             supersedes |-> None, manifest |-> [r \in {rate} |-> 1], sealed |-> TRUE]
FirstReview == [source |-> MAN, status |-> "reviewed", reviewed |-> 0, related |-> {notice},
                count |-> 1, confirmed |-> TRUE,
                summary |-> [r \in {notice} |-> <<1, 0, "human_reviewed_manual">>]]
FirstRecord == [imprint |-> 1, dated |-> 0, cites |-> 1, origin |-> "live_retrieved"]
FirstNotice == [FirstRecord EXCEPT !.origin = "human_reviewed_manual"]
Collected == [runs |-> <<FirstRun>>,
              records |-> [r \in RecordIds |-> IF r = notice THEN FirstNotice ELSE FirstRecord],
              events |-> <<FirstReview>>,
              vouched |-> [record : RecordIds, imprint : {1}, at : {0}]]
Confirmed == [Collected EXCEPT !.runs = Append(@, EmptyRun(API, "not_modified", 1)),
                               !.records[rate].cites = 2]
MCStarts == {NoFiles, Collected, [Confirmed EXCEPT !.runs[2].supersedes = 1]}
=============================================================================
