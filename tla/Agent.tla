-------------------------------- MODULE Agent --------------------------------
(***************************************************************************)
(* The parts of a server process beside its policies and data              *)
(* (create_app, server/app.py:62-95): the plug-ins and the dashboard.      *)
(* They share no state, so that each is explored with the other at rest.   *)
(***************************************************************************)
EXTENDS Integers, Sequences

CONSTANTS Plugins, Configs, Initial, Sections, Malformed, Silent, Undirected, Tagged,
          Tokens, TTL, MaxTime, RingSize, Limits, MaxLimit, MaxDecisions

\* create_app registers the plug-ins under different names, discovery last.
ASSUME PluginsAssumption ==
  /\ Plugins \in Seq(STRING) /\ Plugins # <<>> /\ Plugins[Len(Plugins)] = "discovery"
  /\ \A i, j \in DOMAIN Plugins : Plugins[i] = Plugins[j] => i = j

\* A configuration names plug-ins by the keys of its sections.
ASSUME SectionsAssumption == Sections \in [Configs -> Seq(STRING)]

\* The ring has room, and a client asks for pages that are not empty.
ASSUME DashboardAssumption ==
  /\ RingSize \in Nat \ {0} /\ MaxLimit \in Nat \ {0} /\ Limits \subseteq Nat \ {0}

VARIABLES part,            \* the part that is explored
          phase, toStop, running, status, config, held, poll, etag, served,
          now, sessions, used, ended, ring, counter, pager

Manager == INSTANCE PluginManager
UI == INSTANCE Dashboard

managerVars == <<phase, toStop, running, status, config, held, poll, etag, served>>
uiVars == <<now, sessions, used, ended, ring, counter, pager>>
vars == <<part, managerVars, uiVars>>

Init == part \in {"plugins", "sessions", "decisions"} /\ Manager!Init /\ UI!Init

ManagerStep(A) == part = "plugins" /\ A /\ UNCHANGED <<part, uiVars>>

Next ==
  \/ ManagerStep(Manager!Next)
  \/ part = "sessions" /\ UI!SessionNext /\ UNCHANGED <<part, managerVars>>
  \/ part = "decisions" /\ UI!RingNext /\ UNCHANGED <<part, managerVars>>

\* The fairness of PluginManager
Fairness ==
  /\ WF_vars(ManagerStep(Manager!Fetch)) /\ WF_vars(ManagerStep(Manager!Apply))
  /\ WF_vars(ManagerStep(Manager!Stop)) /\ SF_vars(ManagerStep(Manager!Respond))

Spec == Init /\ [][Next]_vars /\ Fairness

\* stop_all leaves no plug-in running, whatever discovery was about to start.
NothingRunsAfterStop == Manager!NothingRunsAfterStop
\* A configuration that stays published reaches the plug-ins it names, unless an earlier
\* one left the decision log unable to stop or discovery without a task.
Converges == part = "plugins" => Manager!Converges
\* A session that was logged out or refused stays invalid.
SessionsEnd == UI!SessionsEnd
\* A client that pages to the end, with a limit the server grants, has seen every decision
\* that was there throughout.
PagingMissesNothing == UI!PagingMissesNothing
=============================================================================
