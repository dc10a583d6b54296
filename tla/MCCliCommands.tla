----------------------------- MODULE MCCliCommands -----------------------------
(* An instance of CliCommands for TLC. *)
EXTENDS CliCommands

\* Three files, of which the last stands for flowpanel.config.ts: init, eject
\* and eject --force of pages, and new.
IntentsOfCommands ==
  {<<"plain", "plain", "plain">>, <<"plain", "plain", "edit">>,
   <<"force", "force", "edit">>, <<"none", "none", "edit">>}

(* Projects to set up *)

Host(alias, provider, where, exports, pages) ==
  [alias |-> alias, rootLayout |-> alias # "none", provider |-> provider,
   auth |-> [where |-> where, exports |-> exports], pages |-> pages]

Occupied == {[route |-> <<"admin">>, grouped |-> TRUE]}

HostsOfProjects ==
  {Host("strip-src", Missing, <<>>, Missing, {}),
   Host("none", "clerk", <<>>, Missing, Occupied),
   Host("strip-src", "better-auth", <<"src", "lib", "auth">>, "instance", {}),
   Host("root", "better-auth", <<"lib", "auth">>, "getSession", Occupied),
   Host("strip-src", Missing, <<"lib", "auth">>, "getSession", {})}

Arguments(path, auth, devAuth) == [path |-> path, auth |-> auth, devAuth |-> devAuth]

CommandLines ==
  {Arguments(Missing, Missing, FALSE), Arguments(Missing, Missing, TRUE),
   Arguments(<<"ops">>, Missing, FALSE),
   Arguments(Missing, [alias |-> TRUE, path |-> <<"lib", "auth">>], FALSE)}

PathsToDoctor == {Missing, <<"ops">>}
Installed(k, c) == [kit |-> k, cli |-> c]
ArrivalsSeen ==
  {Installed("same", "same"), Installed("other", "absent")}
MountsInUse == {<<"admin">>, <<"flowpanel">>, <<"ops">>}
ApisInUse == {<<"api", "flowpanel">>, <<"ops", "api">>}
OwnPages == {[route |-> <<"admin", "help">>, grouped |-> FALSE]}
=============================================================================
