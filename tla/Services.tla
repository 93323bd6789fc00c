------------------------------ MODULE Services ------------------------------
(***************************************************************************)
(* The settings service and the RPC service on one client: they share the  *)
(* request queue, and the coap task runs the callback of one of them at a  *)
(* time.  A reset of the device ends both; NVS survives it.                *)
(***************************************************************************)
EXTENDS Settings, Rpc

servicesVars == <<queueVars, settingsVars, rpcVars>>

ServicesTypeOK == QueueTypeOK /\ SettingsTypeOK /\ RpcTypeOK

ServicesInit == QueueInit /\ SettingsInit /\ RpcInit

\* Other tasks queue requests, and the coap task takes them.
OtherTraffic == (OtherRequest \/ TakeRequest) /\ UNCHANGED <<settingsVars, rpcVars>>

Reset ==
  /\ free' = QueueMax
  /\ handler' = "none"
  /\ ResetSettings
  /\ ResetRpc

ServicesNext ==
  \/ SettingsNext /\ UNCHANGED rpcVars
  \/ RpcNext /\ UNCHANGED settingsVars
  \/ OtherTraffic
  \/ Reset

\* The steps of the coap task in a callback.
InCallback ==
  \/ (OnSetting \/ SaveVersion \/ SendStatusReport) /\ UNCHANGED rpcVars
  \/ (Compare \/ Dispatch \/ Unavailable) /\ UNCHANGED settingsVars

ServicesSpec == ServicesInit /\ [][ServicesNext]_servicesVars

\* The coap task, once in a callback, goes on.
ServicesFairSpec == ServicesSpec /\ WF_servicesVars(InCallback)

-----------------------------------------------------------------------------
(* Properties. *)

\* The callbacks queue a report or an answer while the coap task, which alone empties
\* the queue, is in them: they must not wait for a place.  Each returns.
CallbackReturns == handler # "none" ~> handler = "none"
=============================================================================
