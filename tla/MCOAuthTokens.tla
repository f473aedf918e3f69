---------------------------- MODULE MCOAuthTokens ----------------------------
(***************************************************************************)
(* OAuthTokens for TLC.  The unit of time is 30 seconds.                   *)
(***************************************************************************)
EXTENDS OAuthTokens, TLC

CONSTANTS t1, t2

MCIds == {"device", "code", "code2", "machine"}
MCGrant == [device |-> "device_code", code |-> "authorization_code", code2 |-> "authorization_code",
            machine |-> "client_credentials"]
MCDiscovered == {"device"}

Load(a, b, c) == t1 :> a @@ t2 :> b @@ Cli :> c
NoKeys == [engine |-> "none", cli |-> "none"]
CliKey == [engine |-> "none", cli |-> "pass"]
Setup(load, env, keyring, horizon, grants) == [load |-> load, env |-> env, keyring |-> keyring, horizon |-> horizon,
                                          grants |-> grants]

\* Two stores of the engine over one keyring; the command connecting again; two
\* processes on two variables of one file; the device flow and its discovery
\* document; two tasks and an aging token.
MCSetups ==
  {Setup(Load({"code"}, {"code"}, {"code"}), NoKeys, TRUE, 0, 1),
   Setup(Load({"code"}, {}, {"code"}), NoKeys, FALSE, 0, 2),
   Setup(Load({"code"}, {}, {"code", "code2"}), CliKey, FALSE, 0, 1),
   Setup(Load({"device"}, {}, {"device"}), NoKeys, FALSE, 2, 1),
   Setup(Load({"machine"}, {"machine"}, {}), NoKeys, FALSE, 3, 1)}
=============================================================================
