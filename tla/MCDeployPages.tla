---------------------------- MODULE MCDeployPages -----------------------------
(* The runs of DeployPages; its constants are numbers given by the cfg.    *)
EXTENDS DeployPages
=============================================================================
