--------------------------- MODULE MCLaneAssessment ---------------------------
(* Two lanes that share a fuel series, one with a trade series and a chokepoint. *)
EXTENDS LaneAssessment, TLC

NameSymmetry == Permutations(Names)

Entry(use, redistribution, roles) ==
    [enabled |-> TRUE, access |-> "download", intakeAllowed |-> FALSE, namesPublisher |-> FALSE,
     roles |-> roles, use |-> use, redistribution |-> redistribution, reuseKnown |-> TRUE,
     rateKnown |-> TRUE, scheduled |-> FALSE, licenceReviewed |-> TRUE, maxStale |-> 2,
     cadence |-> 1, required |-> FALSE]
MCRegistry ==
    [CUSTOMS |-> Entry("raw_values_permitted", "permitted",
                       {"thailand_trade_flow", "domestic_fuel_or_energy_cost"}),
     FUEL |-> Entry("derived_values_only", "derived_only", {"domestic_fuel_or_energy_cost"}),
     NOTICES |-> Entry("bounded_claim_and_link_only", "link_only", {})]

MCLanes ==
    [gulf |-> [trade |-> "exports_gulf", chokepoints |-> {"hormuz"}],
     domestic |-> [trade |-> "exports_domestic", chokepoints |-> {}]]
MCSharedSeries ==
    [port_maritime_activity |-> "calls", freight_benchmark_direction |-> "benchmark",
     fuel_pressure |-> "diesel", fx_pressure |-> "usd_thb"]

Live(series, family, lane, source, value, revision) ==
    [series |-> series, family |-> family, lane |-> lane, source |-> source, value |-> value,
     revision |-> revision,
     status |-> IF value = None THEN "missing" ELSE "available", monthly |-> TRUE,
     unit |-> IF value = None THEN None ELSE "unit", country |-> "TH",
     origin |-> "live_retrieved", retrieval |-> "retrieved", hasTime |-> TRUE,
     dataset |-> CurrentPublication, intended |-> None, retrieved |-> None,
     period |-> Start, published |-> Start]
Exports(value, revision) ==
    Live("exports_gulf", "trade_observations", "gulf", "CUSTOMS", value, revision)
Diesel(source, value) == Live("diesel", "cost_observations", None, source, value, 0)
Dated(p, period) == [p EXCEPT !.period = period, !.published = period]

\* A year of exports with a month missing, two short of a reading, and a month of diesel.
MCBacklog ==
    {Dated(Diesel("CUSTOMS", 100), 11)} \cup {Dated(Exports(100, 0), m) : m \in (0..11) \ {2}}
MCFixtures ==
    {Dated([Diesel(SyntheticSource, 100) EXCEPT
        !.origin = "synthetic_test_fixture", !.retrieval = "not_retrieved", !.hasTime = FALSE,
        !.dataset = "technical_demo", !.intended = "CUSTOMS"], 11)}
MCPublications ==
    {Exports(None, 0), Exports(0, 0), Exports(100, 1), Diesel("CUSTOMS", 96), Diesel("FUEL", 100)}

Item(id, role, type) ==
    [id |-> id, role |-> role, type |-> type, source |-> "NOTICES", family |-> None,
     origin |-> "live_retrieved", retrieval |-> "retrieved", dataset |-> CurrentPublication]
Impact(status, severity) ==
    [area |-> "transport", status |-> status, severity |-> severity, cited |-> {"notice"},
     mechanism |-> TRUE, strength |-> "B"]
Direct == ChainLinks \ {"external_driver"}
Draft(class, links, declared, items, impacts, negative) ==
    [class |-> class, links |-> links, declared |-> declared, evidence |-> items,
     impacts |-> impacts, negative |-> negative, lanes |-> {"gulf"}, chokepoints |-> {"hormuz"},
     dataset |-> CurrentPublication, end |-> IF negative THEN 13 ELSE None,
     reviewRequired |-> FALSE, review |-> None, surface |-> "Main dashboard",
     lifecycle |-> "reported_event", closure |-> None, activeAsOf |-> None,
     activeBasis |-> FALSE]

Notice == {Item("notice", "confirming", "official_notice")}
Lead == {Item("lead", "discovery_only", "discovery_lead")}
Adverse == {Impact("observed", "moderate")}

\* A closure by notice, the same on a lead's word, as a driver without and with its
\* upstream link, an all-clear, and a lead with an impact of its own.
MCDrafts ==
    {Draft("direct_operational_event", Direct, "complete", Notice, Adverse, FALSE),
     Draft("direct_operational_event", Direct, "complete", Lead, Adverse, FALSE),
     Draft("external_driver", Direct, "incomplete", Notice, Adverse, FALSE),
     Draft("external_driver", ChainLinks, "complete", Notice, {}, FALSE),
     Draft("direct_operational_event", Direct, "complete", Notice,
           {Impact("no_material", "none")}, TRUE),
     Draft("discovery_lead", {}, "not_applicable", Notice, Adverse, FALSE)}
=============================================================================
