------------------------------ MODULE EventTerms ------------------------------
(***************************************************************************)
(* analysis/events.py: the reasoning chain of an event, what validate_event *)
(* demands of it, whether it may be published and counts as active, and    *)
(* the direction that events give to a domain of a lane.  Pure operators.  *)
(*                                                                         *)
(* An event carries its evidence: a set of records of id, role, claim type *)
(* and provenance.  Its impacts are records of area, status, severity, the *)
(* ids they cite, their mechanism and strength.                            *)
(***************************************************************************)
EXTENDS PublicationTerms

CONSTANTS
    Registry,       \* source -> its registry entry
    ActiveWindow    \* ACTIVE_CONFIRMATION_WINDOW_DAYS

ActiveLifecycle ==
    {"reported_event", "verified_event", "operational_impact_observed", "monitoring"}

\* Fault: an event counts from its end on.
IsActiveAfterEnd(e, now) ==
    /\ e.dataset = CurrentPublication
    /\ e.lifecycle \in ActiveLifecycle
    /\ e.closure = None
    /\ e.end # None => e.end <= now
    /\ \E r \in e.evidence : Qualifies(r, Registry, BoundedClaim)
    /\ e.activeAsOf # None /\ e.activeBasis
    /\ now - e.activeAsOf <= ActiveWindow
    /\ e.activeAsOf <= now

\* is_active_at.
IsActive(e, now) ==
    /\ e.dataset = CurrentPublication
    /\ e.lifecycle \in ActiveLifecycle
    /\ e.closure = None
    /\ e.end # None => e.end >= now
    /\ \E r \in e.evidence : Qualifies(r, Registry, BoundedClaim)
    /\ e.activeAsOf # None /\ e.activeBasis
    /\ now - e.activeAsOf <= ActiveWindow
    /\ e.activeAsOf <= now

\* event_qualifies_for_current_publication.
EventQualifies(e) ==
    /\ e.dataset = CurrentPublication
    /\ \E r \in e.evidence : Qualifies(r, Registry, BoundedClaim)

------------------------------------------------------------------------------
\* The reasoning chain.

ChainLinks ==
    {"external_driver", "operational_change", "logistics_mechanism",
     "observable_indicator", "outcome"}

\* _REQUIRED_LINKS.
RequiredLinks(class) ==
    CASE class = "external_driver" -> ChainLinks
      [] class = "direct_operational_event" -> ChainLinks \ {"external_driver"}
      [] OTHER -> {}

\* evaluate_transmission_chain.
Completeness(e) ==
    IF RequiredLinks(e.class) = {} THEN "not_applicable"
    ELSE IF RequiredLinks(e.class) \subseteq e.links THEN "complete" ELSE "incomplete"

------------------------------------------------------------------------------
\* Impacts.

MaterialImpact == {"observed", "potential"}
ReviewedSeverities == {"high", "critical"}
IsMaterial(i) == i.status \in MaterialImpact /\ i.severity # "none"
ClaimsImpact(e) == \E i \in e.impacts : IsMaterial(i)

\* has_non_discovery_evidence.
BeyondDiscovery(e) == \E r \in e.evidence : r.role # "discovery_only"

\* Fault: a lead's own evidence is enough for a material impact.
EventValidOnLeads(e, known) ==
    /\ \A i \in e.impacts : i.cited \subseteq known
    /\ e.declared = Completeness(e)
    /\ ClaimsImpact(e) => Completeness(e) # "incomplete"
    /\ e.dataset = CurrentPublication /\ e.evidence # {} => EventQualifies(e)

\* validate_event; known are the identifiers of the evidence file.  Left out are
\* the hash of the clustering key, the basis of a relevance to Thailand and the
\* evidence a recorded conflict names.
EventValid(e, known) ==
    /\ {r.id : r \in e.evidence} \subseteq known
    /\ \A i \in e.impacts :
        /\ i.cited \subseteq known
        /\ i.status = "no_material" => e.negative
        /\ IsMaterial(i) => i.mechanism
        /\ i.severity \in ReviewedSeverities => i.strength \in {"A", "B"}
    /\ e.declared = Completeness(e)
    /\ ClaimsImpact(e) => Completeness(e) # "incomplete" /\ BeyondDiscovery(e)
    /\ (\E i \in e.impacts : i.severity \in ReviewedSeverities) =>
        e.reviewRequired /\ (e.surface = "Main dashboard" => e.review = "approved")
    /\ e.lifecycle = "closed" => e.closure # None
    /\ e.activeAsOf # None => e.activeBasis
    /\ e.dataset = CurrentPublication /\ e.evidence # {} => EventQualifies(e)

------------------------------------------------------------------------------
\* The direction of an event-driven domain, which reads the impact areas given.

Relevant(events, lane) == {n \in DOMAIN events : lane \in events[n].lanes}

\* The evidence cited for an adverse impact, and for a finding of none.
AdverseCited(e, areas) ==
    UNION {i.cited : i \in {i \in e.impacts : i.area \in areas /\ IsMaterial(i)}}

\* has_negative_operational_evidence, and what the finding cites.
CalmCited(e, areas) ==
    IF ~e.negative THEN {}
    ELSE UNION {i.cited : i \in {i \in e.impacts : i.area \in areas /\ i.status = "no_material"}}

Insufficient == "insufficient_evidence"

\* Fault: a negative finding is looked at before the adverse ones.
EventDirectionCalmFirst(events, lane, areas) ==
    LET relevant == Relevant(events, lane)
    IN IF \E n \in relevant : CalmCited(events[n], areas) # {} THEN "stable"
       ELSE IF \E n \in relevant : AdverseCited(events[n], areas) # {} THEN "deteriorating"
       ELSE Insufficient

\* event_domain_direction.
EventDirection(events, lane, areas) ==
    LET relevant == Relevant(events, lane)
    IN IF \A n \in relevant : events[n].class = "discovery_lead" THEN Insufficient
       ELSE IF \E n \in relevant : AdverseCited(events[n], areas) # {} THEN "deteriorating"
       ELSE IF \E n \in relevant : CalmCited(events[n], areas) # {} THEN "stable"
       ELSE Insufficient

\* The evidence identifiers published with it.
EventEvidence(events, lane, areas) ==
    LET relevant == Relevant(events, lane)
    IN CASE EventDirection(events, lane, areas) = "deteriorating" ->
                UNION {AdverseCited(events[n], areas) : n \in relevant}
         [] EventDirection(events, lane, areas) = "stable" ->
                UNION {CalmCited(events[n], areas) : n \in relevant}
         [] OTHER -> {}
=============================================================================
