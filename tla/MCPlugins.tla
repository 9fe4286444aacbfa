------------------------------ MODULE MCPlugins ------------------------------
(***************************************************************************)
(* Managed local plugins and import sessions, checked side by side: `part'   *)
(* picks what moves, and the packages and bounds of the question it asks;     *)
(* the rest stays in its initial state.                                      *)
(***************************************************************************)
EXTENDS ImportSessions, ManagedPlugins

VARIABLE part

suiteVars == <<part, pluginVars, vars>>

\* Packages 1 and 2 have one id; 3 and 4 have their own, and the user may turn
\* one into the other.
Manifests == <<"a", "a", "b", "c">>
Edited == <<"a", "a", "c", "b">>

SuiteInit ==
  /\ part \in {"faults", "pair", "user", "sessions"}
  /\ PluginsInit /\ Init

Within(objs, acts, failures) ==
  /\ op'.o \in objs \cup {0} /\ \A o \in Objs \ objs : pkg'[o] = pkg[o]
  /\ user' <= acts /\ faults' <= failures
  /\ UNCHANGED <<part, vars>>

SuiteNext ==
  \* Two packages of one id; the user does one thing, two things fail.
  \/ part = "faults" /\ PluginsNext /\ Within({1, 2}, 1, 2)
  \* Packages of two ids, which the user may turn into each other; one thing fails.
  \/ part = "pair" /\ PluginsNext /\ Within({3, 4}, 1, 1)
  \* The same, where the user adds, copies or alters two; nothing fails.
  \/ part = "user" /\ PluginsNext /\ Within({3, 4}, 2, 0)
  \/ part = "sessions" /\ Next /\ UNCHANGED <<part, pluginVars>>

SuiteSpec == SuiteInit /\ [][SuiteNext]_suiteVars
=============================================================================
