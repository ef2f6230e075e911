-------------------------- MODULE MCProxyDeployment --------------------------
(* ProxyDeployment with the scripts of hoodi and of devHoodi. *)
EXTENDS ProxyDeployment, DeployScripts

=============================================================================
