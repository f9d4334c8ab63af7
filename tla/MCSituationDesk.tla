---------------------------- MODULE MCSituationDesk ----------------------------
(* The registry, the notices and the events of the run of SituationDesk. *)
EXTENDS SituationDesk

Entry(channel, group, layer, public) ==
    [channel |-> channel, group |-> group, layer |-> layer, publicClaims |-> public,
     discovery |-> FALSE, window |-> 1, enabled |-> FALSE, access |-> "manual",
     intakeAllowed |-> TRUE, namesPublisher |-> TRUE, roles |-> {},
     use |-> "bounded_claim_and_link_only", redistribution |-> "link_only", reuseKnown |-> TRUE,
     rateKnown |-> TRUE, scheduled |-> FALSE, licenceReviewed |-> TRUE]
MCRegistry == [MANUAL |-> Entry("conduit", None, "current_evidence", TRUE)]

Class == "berth_or_facility_availability"
Says(type, primary, named, start) ==
    [type |-> type, class |-> Class, subject |-> None, assertion |-> "closed",
     nodes |-> {"LCB"}, countries |-> {"TH"}, primary |-> primary, named |-> named,
     start |-> start, contradiction |-> "none", review |-> "approved", superseded |-> FALSE]
Over(nodes) == [classes |-> {Class}, nodes |-> nodes, chokepoints |-> {}, countries |-> {}]
Notice(publisher, identity, override, authority, dated, said) ==
    [source |-> "MANUAL", publisher |-> publisher, identity |-> identity, override |-> override,
     authority |-> authority, dated |-> dated, dataset |-> CurrentPublication,
     geographies |-> {"TH"}, claims |-> said]

\* A port's own notice, a notice by a port without a say over the place, and a study
\* without an authority.  The dates of the first are within Slack of both others'.
PortNotice ==
    Notice("port", "port", None, Over({"LCB"}), TRUE, <<Says("official_notice", TRUE, None, 2)>>)
OtherPort ==
    Notice("other port", None, None, Over({"SIN"}), TRUE,
           <<Says("official_notice", TRUE, TRUE, 0)>>)
Study ==
    Notice("institute", None, "structural_research", None, TRUE,
           <<Says("reported_claim", TRUE, TRUE, 4)>>)

DeskNotices == {PortNotice, OtherPort, Study}

Impacts(status, severity, basis) ==
    [area |-> "transport", status |-> status, severity |-> severity, basis |-> basis]
NotYet == {Impacts("insufficient_evidence", "none", FALSE)}

\* Damage seen with more to come, or an all-clear with its basis.
MCAssessments ==
    {[impacts |-> {Impacts("observed", "high", FALSE), Impacts("potential", "moderate", FALSE)},
      negative |-> FALSE],
     [impacts |-> {Impacts("no_material", "none", TRUE)}, negative |-> TRUE]}

MCCases ==
    [closure |-> [dataset |-> CurrentPublication, lifecycle |-> "reported_event", closure |-> None,
                  nodes |-> {"LCB"}, chokepoints |-> {}, countries |-> {"TH"}, lanes |-> {},
                  start |-> None, end |-> None, entity |-> None, impacts |-> NotYet]]

\* The operators of the run keep to what the theorems ask of them.
ASSUME ConduitsOnly /\ OneKeyPerPublisher
=============================================================================
