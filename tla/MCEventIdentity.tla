---------------------------- MODULE MCEventIdentity ----------------------------
(* The incidents of the runs of EventIdentity and what may be reported of each. *)
EXTENDS EventIdentity

Report(source, external, fields, date, published) ==
    [source |-> source, external |-> external, fields |-> fields, date |-> date,
     published |-> published]

\* "spill" has no identifier and its date becomes known while its publication date
\* drifts; "strike" and "blockade" share every controlled field but a date known
\* from the start; "quake" has an identifier and its fields and date are revised.
Settled == {"spill", "strike", "blockade", "quake"}
SettledReports(incident) ==
    CASE incident = "spill" ->
            {Report(None, None, "sea", date, published) : date \in {None, "d1"},
                                                          published \in {"p1", "p2"}}
      [] incident = "strike" -> {Report(None, None, "port", "d1", "p1")}
      [] incident = "blockade" -> {Report(None, None, "port", "d2", "p1")}
      [] incident = "quake" ->
            {Report("gdacs", "EQ-1", fields, date, "p1") : fields \in {"land", "rail"},
                                                            date \in {None, "d2"}}

\* A spill reported before its date is known, and a second one on the day the
\* first was published.
Colliding == {"spill", "spill on p1"}
CollidingReports(incident) ==
    CASE incident = "spill" -> {Report(None, None, "sea", date, "p1") : date \in {None, "d1"}}
      [] incident = "spill on p1" -> {Report(None, None, "sea", "p1", "p1")}

\* The reports of the first run agree, and those of the second do not.
ASSUME ReportsAgree <=> Incidents = Settled
=============================================================================
