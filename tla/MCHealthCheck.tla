---------------------------- MODULE MCHealthCheck ----------------------------
\* Numbers enough for the issues open and the issues held by a job.
EXTENDS HealthCheck

MCIssueIds == 1..(2 * Cardinality(Jobs) + MaxFaults + 1)
==============================================================================
