---------------------------- MODULE MCSdkClient -----------------------------
(***************************************************************************)
(* Two tenants.  One caller waits; its key may be any of: blank, live,     *)
(* expiring during the wait, without the scope, unreadable in its expiry,  *)
(* or filed under the wrong tenant.  A wait of four polls a second apart   *)
(* leaves room for late timers.                                            *)
(***************************************************************************)
EXTENDS SdkClient, TLC

CONSTANTS here, there, live, brief, scopeless, garbled, misfiled, job1, job2, alice

MCTenants == {here, there}
MCSecrets == {live, brief, scopeless, garbled, misfiled}
MCFiled ==
  (here :> {CreateApiKey(live, here, {"tryon"}, Never), CreateApiKey(brief, here, {"tryon", "other"}, 2),
            CreateApiKey(scopeless, here, {"other"}, Never)})
  @@ (there :> {CreateApiKey(garbled, there, {"tryon"}, Garbled),
                CreateApiKey(misfiled, here, {"tryon"}, Never)})
MCCallers == {alice}
MCJobIds == {job1, job2}
MCPollChoices == {0, 1, 2}
MCTimeoutChoices == {0, 3}
=============================================================================
