--------------------------- MODULE MCDashboardBuild ---------------------------
(* Model values and a short list of payloads for the runs of               *)
(* DashboardBuild: one before the outlook, and the outlook.      *)
EXTENDS DashboardBuild

CONSTANTS PKG1, PKG2, sound, unsound, alice

PayloadOrder == <<"events.json", "ai_outlook.json">>
=============================================================================
