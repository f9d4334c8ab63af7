---------------------------- MODULE DashboardBuild ----------------------------
(***************************************************************************)
(* scripts/build_dashboard.py running beside the review decisions: it      *)
(* lists the approved directory, loads and re-checks each record, and only *)
(* then writes the payload files of the site, one after the other.         *)
(*                                                                         *)
(* Of a payload only what depends on the approved directory is kept: the   *)
(* records the AI Outlook shows.  The other payloads are known by the      *)
(* build that wrote them.                                                  *)
(***************************************************************************)
EXTENDS ReviewDecision

CONSTANTS
    Payloads,      \* the payload files in the order build_payloads returns them
    Outlook,       \* ai_outlook.json, one of them
    BuildsSettle,  \* the builder works only while no decision runs
    WritesFail,    \* the write of a payload may fail
    MaxSiteBuilds  \* bound: executions of the builder

ASSUME DashboardAssumption ==
    /\ Payloads \in Seq(STRING)
    /\ \E i \in DOMAIN Payloads : Payloads[i] = Outlook
    /\ {BuildsSettle, WritesFail} \subseteq BOOLEAN
    /\ MaxSiteBuilds \in Nat

VARIABLES
    site,       \* dashboard/public/data, payload name -> contents or Torn
    builder,    \* the local state of the execution
    siteBuilds  \* executions started so far

siteVars == <<site, builder, siteBuilds>>
allVars == <<vars, siteVars>>

\* shown is a function from the packages the outlook shows to their records.
NoRecords == << >>
IdleBuilder == [pc |-> "idle", todo |-> {}, shown |-> NoRecords, next |-> 1]

DashboardInit ==
    /\ Init
    /\ site = [f \in {Payloads[i] : i \in DOMAIN Payloads} |->
                  [build |-> 0, shown |-> NoRecords]]
    /\ builder = IdleBuilder
    /\ siteBuilds = 0

MayRun == BuildsSettle => AllIdle

\* publishable_assessment_problems finds nothing.  The other conditions it
\* checks are constants of the records main() of the decision writes: a package
\* hash is present, validation_status is "passed", superseded is false.
Publishable(record) == record.dataset = Current

\* The approved directory is listed.
ListApproved ==
    /\ builder.pc = "idle"
    /\ siteBuilds < MaxSiteBuilds
    /\ MayRun
    /\ builder' = [IdleBuilder EXCEPT !.pc = "load",
                                      !.todo = {p \in Packages : approved[p] # None}]
    /\ siteBuilds' = siteBuilds + 1
    /\ UNCHANGED <<vars, site>>

\* One listed file is loaded, and shown or withheld.
LoadRecord(p) ==
    /\ builder.pc = "load" /\ p \in builder.todo
    /\ MayRun
    /\ approved[p] \notin {None, Torn}
    /\ builder' = [builder EXCEPT
                      !.todo = @ \ {p},
                      !.shown = IF Publishable(approved[p])
                                THEN WithFile(@, p, approved[p]) ELSE @]
    /\ UNCHANGED <<vars, site, siteBuilds>>

\* A listed file has gone, or is not JSON: the build ends with nothing written.
LoadRaises(p) ==
    /\ builder.pc = "load" /\ p \in builder.todo
    /\ MayRun
    /\ approved[p] \in {None, Torn}
    /\ builder' = IdleBuilder
    /\ UNCHANGED <<vars, site, siteBuilds>>

\* Every payload is assembled; the next one is written.
WritePayload ==
    LET f == Payloads[builder.next]
    IN  /\ builder.pc = "load" /\ builder.todo = {}
        /\ MayRun
        /\ site' = [site EXCEPT ![f] =
                      [build |-> siteBuilds,
                       shown |-> IF f = Outlook THEN builder.shown ELSE NoRecords]]
        /\ builder' = IF builder.next = Len(Payloads) THEN IdleBuilder
                      ELSE [builder EXCEPT !.next = @ + 1]
        /\ UNCHANGED <<vars, siteBuilds>>

\* write_text() fails: the file is as it was or cut short, the rest unwritten.
WriteFails ==
    LET f == Payloads[builder.next]
    IN  /\ WritesFail
        /\ builder.pc = "load" /\ builder.todo = {}
        /\ MayRun
        /\ site' \in {site, [site EXCEPT ![f] = Torn]}
        /\ builder' = IdleBuilder
        /\ UNCHANGED <<vars, siteBuilds>>

BuildSite ==
    \/ ListApproved
    \/ \E p \in Packages : LoadRecord(p) \/ LoadRaises(p)
    \/ WritePayload
    \/ WriteFails

DashboardNext ==
    \/ Next /\ UNCHANGED siteVars
    \/ BuildSite

DashboardSpec == DashboardInit /\ [][DashboardNext]_allVars

------------------------------------------------------------------------------
\* What the published outlook shows; nothing while its file is torn.
Published == IF site[Outlook] = Torn THEN NoRecords ELSE site[Outlook].shown

\* Whenever the outlook is read, even while a decision is rolled back, what it
\* shows is a reply the content rules accept, bound to the version of the
\* package its record names (the gates of the decision, seen through the site).
PublishedIsReviewed ==
    \A p \in DOMAIN Published :
        /\ Published[p].assessment.binds = Published[p].version
        /\ Published[p].assessment.body \in SoundBodies

\* Every record the site shows was approved by an entry of the history: no
\* reply is published whose approval was undone or never recorded.
PublishedIsRecorded ==
    AllIdle => \A p \in DOMAIN Published :
        \E i \in ApprovalsOf(history, p) :
            /\ history[i].revision = Published[p].revision
            /\ history[i].content = Published[p].assessment

\* A package the outlook shows is shown until a later revision replaces it: no
\* rejection, failed decision or failed build withdraws it or brings an earlier
\* revision back (the defect docs/human_review_process.md:80-83 describes).
OutlookNeverRegresses ==
    [][site'[Outlook] # Torn =>
        \A p \in DOMAIN Published :
            /\ p \in DOMAIN Published'
            /\ Published'[p].revision >= Published[p].revision]_allVars
=============================================================================

