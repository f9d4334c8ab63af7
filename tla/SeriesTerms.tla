------------------------------ MODULE SeriesTerms ------------------------------
(***************************************************************************)
(* The observations of a series and what is read from them: the contract   *)
(* of collectors/observations.py, the derivations of                       *)
(* analysis/indicators.py and the threshold rules of                       *)
(* analysis/thresholds.py.  Pure operators.                                *)
(*                                                                         *)
(* Periods are consecutive months.  A change is a fraction of integers, so *)
(* that a threshold is met exactly where the code's percentage meets it.   *)
(***************************************************************************)
EXTENDS PublicationTerms

\* build_observation, where it does not refuse.
ContractHolds(r) ==
    /\ r.status = "available" <=> r.value # None
    /\ r.status = "available" => r.unit # None
    /\ r.hasTime <=> r.retrieval = "retrieved"
    /\ r.dataset \in Datasets
    /\ IF r.origin \in FixtureOrigins
       THEN r.dataset # CurrentPublication /\ r.source = SyntheticSource /\ r.intended # None
       ELSE r.source # SyntheticSource

\* build_record_id, and deduplicate_observations for one record that arrives:
\* of two collections of a period the higher revision stays, the later of equals.
RecordId(r) == <<r.source, r.series, r.period>>
Deduplicated(records, r) ==
    {s \in records : RecordId(s) # RecordId(r) \/ s.revision > r.revision}
        \cup (IF \E s \in records : RecordId(s) = RecordId(r) /\ s.revision > r.revision
              THEN {} ELSE {r})

\* series_records and qualified_series_records; a lane of None restricts nothing.
SeriesRecords(records, series, lane) ==
    {r \in records : r.series = series /\ (lane # None => r.lane = lane)}

------------------------------------------------------------------------------
\* derive_series.

Available(records) == {r \in records : r.status = "available" /\ r.value # None}
Newest(records) == CHOOSE r \in records : \A s \in records : s.period <= r.period

\* _pct_change, undefined against zero.
Change(new, old) ==
    IF old.value = 0 THEN None
    ELSE [num |-> new.value - old.value, den |-> IF old.value < 0 THEN -old.value ELSE old.value]

\* _find_offset_point and the change since then: exactly so many months before.
ChangeSince(records, months) ==
    LET available == Available(records)
        current == Newest(available)
        then == {r \in available : r.period = current.period - months}
    IN IF available = {} \/ then = {} THEN None ELSE Change(current, CHOOSE r \in then : TRUE)

\* The change since the previous available period, whenever that was.
PreviousChange(records) ==
    LET available == Available(records)
        earlier == available \ {Newest(available)}
    IN IF available = {} \/ earlier = {} THEN None
       ELSE Change(Newest(available), Newest(earlier))

\* change_for_basis, of the two bases the lanes use.
ChangeFor(basis, records) ==
    LET current == Newest(Available(records))
    IN CASE Available(records) = {} -> None
         [] Available(records) # {} /\ current.monthly ->
                ChangeSince(records, IF basis = "year_over_year" THEN 12 ELSE 1)
         [] OTHER -> IF basis = "year_over_year" THEN None ELSE PreviousChange(records)

------------------------------------------------------------------------------
\* The rules, their thresholds in tenths of a percent.
RULES ==
    LET Rule(basis, higherIsWorse, at, min) ==
            [basis |-> basis, higherIsWorse |-> higherIsWorse, at |-> at, minObservations |-> min]
    IN [trade |-> Rule("year_over_year", FALSE, 75, 13),
        port |-> Rule("year_over_year", FALSE, 75, 13),
        freight |-> Rule("month_over_month", TRUE, 50, 2),
        fuel |-> Rule("month_over_month", TRUE, 30, 2),
        fx |-> Rule("month_over_month", TRUE, 20, 2)]

AtLeast(change, tenths) == change.num * 1000 >= tenths * change.den
AtMost(change, tenths) == change.num * 1000 <= -tenths * change.den

\* ThresholdRule.evaluate.
Evaluate(rule, change, used) ==
    IF change = None \/ used < rule.minObservations THEN "insufficient_evidence"
    ELSE IF AtLeast(change, rule.at)
         THEN IF rule.higherIsWorse THEN "deteriorating" ELSE "improving"
    ELSE IF AtMost(change, rule.at)
         THEN IF rule.higherIsWorse THEN "improving" ELSE "deteriorating"
    ELSE "stable"

\* Fault: every period counts towards the minimum, those with no value included.
DirectionOfAllPeriods(rule, records) ==
    Evaluate(rule, ChangeFor(rule.basis, records), Cardinality(records))

\* direction_for_derivation.
DirectionOf(rule, records) ==
    Evaluate(rule, ChangeFor(rule.basis, records), Cardinality(Available(records)))

\* evaluate_freshness: maxStale and cadence are those of the source's contract.
SeriesFreshness(records, maxStale, cadence, now) ==
    LET current == Newest(Available(records))
        reference == IF current.published # None THEN current.published ELSE current.retrieved
        boundary == IF cadence # None THEN cadence ELSE maxStale \div 2
    IN IF \A r \in records : r.origin \in FixtureOrigins THEN "not_live"
       ELSE IF Available(records) = {} THEN "no_data"
       ELSE IF reference = None THEN "no_data"
       ELSE IF now - reference <= boundary THEN "fresh"
       ELSE IF now - reference <= maxStale THEN "stale" ELSE "very_stale"

------------------------------------------------------------------------------
\* Fault: one improving reading speaks for all.
CombineOptimistic(directions) ==
    LET known == directions \ {"insufficient_evidence"}
    IN IF known = {} THEN "insufficient_evidence"
       ELSE IF "improving" \in known THEN "improving"
       ELSE IF "deteriorating" \in known THEN "deteriorating" ELSE "stable"

\* combine_directions.
Combine(directions) ==
    LET known == directions \ {"insufficient_evidence"}
    IN IF known = {} THEN "insufficient_evidence"
       ELSE IF "mixed" \in known \/ {"improving", "deteriorating"} \subseteq known THEN "mixed"
       ELSE IF "deteriorating" \in known THEN "deteriorating"
       ELSE IF "improving" \in known THEN "improving" ELSE "stable"
=============================================================================
