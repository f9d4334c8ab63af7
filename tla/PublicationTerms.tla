--------------------------- MODULE PublicationTerms ---------------------------
(***************************************************************************)
(* The publication rules of analysis/provenance.py: what a source's terms  *)
(* permit, which record may carry current intelligence, and which records  *)
(* may be combined into one reading.  Pure operators over a record and a   *)
(* registry (a function from source identifiers to registry entries).      *)
(***************************************************************************)
EXTENDS Integers, FiniteSets

CONSTANTS
    None,
    SyntheticSource   \* SYNTHETIC_SOURCE_ID, reserved and never a registry entry

PublishableOrigins == {"live_retrieved", "human_reviewed_manual"}
FixtureOrigins == {"synthetic_test_fixture", "historical_validation_fixture"}
EvidenceOrigins == PublishableOrigins \cup FixtureOrigins
RetrievalStatuses == {"retrieved", "not_retrieved", "retrieval_failed", "not_applicable"}
ManualRetrievalStatuses == {"not_applicable", "not_retrieved"}
CurrentPublication == "current_publication"
HistoricalValidation == "historical_validation"
Datasets == {CurrentPublication, "technical_demo", HistoricalValidation}

------------------------------------------------------------------------------
\* What a source's terms let the platform publish, and what a caller wants to.

UnpublishableUses == {"internal_validation_only", "publication_prohibited"}
PublicationUses ==
    {"raw_values_permitted", "derived_values_only", "bounded_claim_and_link_only",
     "metadata_link_only"} \cup UnpublishableUses

RawValue == "publish_raw_value"
DerivedValue == "publish_derived_value"
BoundedClaim == "publish_bounded_claim"
LinkOnly == "publish_link_only"
IntendedUses == {RawValue, DerivedValue, BoundedClaim, LinkOnly}

\* Fault: a derived-only licence covers the raw series as well.
PermittedUsesWide(disposition) ==
    CASE disposition \in {"raw_values_permitted", "derived_values_only"} -> IntendedUses
      [] disposition = "bounded_claim_and_link_only" -> {BoundedClaim, LinkOnly}
      [] disposition = "metadata_link_only" -> {LinkOnly}
      [] OTHER -> {}

PermittedUses(disposition) ==
    CASE disposition = "raw_values_permitted" -> IntendedUses
      [] disposition = "derived_values_only" -> {DerivedValue, BoundedClaim, LinkOnly}
      [] disposition = "bounded_claim_and_link_only" -> {BoundedClaim, LinkOnly}
      [] disposition = "metadata_link_only" -> {LinkOnly}
      [] OTHER -> {}

\* The dispositions a redistribution status leaves open.
Ceiling(redistribution) ==
    CASE redistribution = "permitted" -> PublicationUses
      [] redistribution = "derived_only" -> PublicationUses \ {"raw_values_permitted"}
      [] redistribution = "link_only" ->
            PublicationUses \ {"raw_values_permitted", "derived_values_only"}
      [] redistribution \in {"prohibited", "unknown"} -> UnpublishableUses
      [] OTHER -> {}

RequiredRoles(family) ==
    CASE family = "trade_observations" -> {"thailand_trade_flow"}
      [] family = "port_observations" -> {"thailand_port_or_maritime_activity"}
      [] family = "cost_observations" ->
            {"domestic_fuel_or_energy_cost", "freight_market_benchmark_or_proxy", "fx_context"}
      [] family = "indicator_observations" ->
            {"fx_context", "global_supply_chain_baseline",
             "thailand_port_or_maritime_activity", "external_driver_context"}
      [] OTHER -> {}

------------------------------------------------------------------------------
\* publication_use_problems finds nothing in a source's entry.
TermsConsistent(e) ==
    /\ e.use \in PublicationUses
    /\ e.use \in Ceiling(e.redistribution)
    /\ ~e.reuseKnown => e.use \in UnpublishableUses \cup {"metadata_link_only"}
    /\ e.enabled => e.use \notin UnpublishableUses
    /\ ~(~e.rateKnown /\ e.access \notin {"manual", "download"} /\ e.scheduled)
    /\ e.access = "manual" /\ e.intakeAllowed => e.namesPublisher

AllowedManualIntake(e) == e.access = "manual" /\ e.intakeAllowed

\* The record-intrinsic half of qualifies_for_current_publication.
ClaimsPublication(r) ==
    /\ r.dataset = CurrentPublication
    /\ r.origin \in PublishableOrigins
    /\ r.origin = "live_retrieved" => r.retrieval = "retrieved"
    /\ r.origin = "human_reviewed_manual" => r.retrieval \in ManualRetrievalStatuses
    /\ r.source \notin {None, SyntheticSource}

RolesOverlap(r, e) ==
    RequiredRoles(r.family) # {} => e.roles \cap RequiredRoles(r.family) # {}

\* Fault: a source that is no longer enabled still qualifies.
SourcePermitsDisabled(r, e, use) ==
    /\ RolesOverlap(r, e)
    /\ e.use \in PublicationUses
    /\ use \in PermittedUses(e.use)
    /\ e.licenceReviewed

\* The half that reads the registry.
SourcePermits(r, e, use) ==
    /\ e.enabled \/ (r.origin = "human_reviewed_manual" /\ AllowedManualIntake(e))
    /\ RolesOverlap(r, e)
    /\ e.use \in PublicationUses
    /\ use \in PermittedUses(e.use)
    /\ e.licenceReviewed

\* qualifies_for_current_publication.
Qualifies(r, registry, use) ==
    /\ use \in IntendedUses
    /\ ClaimsPublication(r)
    /\ r.source \in DOMAIN registry
    /\ SourcePermits(r, registry[r.source], use)

\* qualified_records.
Qualified(records, registry, use) == {r \in records : Qualifies(r, registry, use)}

------------------------------------------------------------------------------
\* series_homogeneity_problems finds nothing: whatever the records state of
\* their source, its disposition, their unit and their placement, they agree.
Agree(values) == Cardinality(values \ {None}) <= 1

DispositionOf(r, registry) ==
    IF r.source \in DOMAIN registry THEN registry[r.source].use ELSE None

Homogeneous(records, registry) ==
    \/ Cardinality(records) <= 1
    \/ /\ Agree({r.source : r \in records})
       /\ Agree({DispositionOf(r, registry) : r \in records})
       /\ Agree({r.unit : r \in records})
       /\ Agree({r.country : r \in records})
       /\ Agree({r.lane : r \in records})

------------------------------------------------------------------------------
\* provenance_problems finds nothing: the record claims no more than it can
\* support.  hasTime says that a retrieved_at is present.
ProvenanceTruthful(r) ==
    /\ r.origin \in EvidenceOrigins
    /\ r.retrieval \in RetrievalStatuses
    /\ r.dataset \in Datasets \cup {None}
    /\ r.hasTime <=> r.retrieval = "retrieved"
    /\ IF r.origin \in FixtureOrigins
       THEN /\ r.retrieval # "retrieved"
            /\ r.source = SyntheticSource
            /\ r.intended # None
            /\ r.hashScope # "source_response"
            /\ r.dataset # CurrentPublication
       ELSE /\ r.source # SyntheticSource
            /\ r.hashScope # "authored_claim_record"

\* What redistribution terms allow a reader to be shown.
RedistributionAllows(redistribution, use) ==
    \/ redistribution = "permitted"
    \/ redistribution = "derived_only" /\ use # RawValue
    \/ redistribution = "link_only" /\ use \in {BoundedClaim, LinkOnly}
==============================================================================
