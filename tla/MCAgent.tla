------------------------------- MODULE MCAgent -------------------------------
EXTENDS Agent, Sequences

MCPlugins == <<"bundle", "decision_log", "status", "discovery">>
MCConfigs == {"both", "self", "broken", "mute", "untagged"}
MCSections ==
  [c \in MCConfigs |->
     CASE c = "both" -> <<"decision_log", "bundle">>
       [] c = "self" -> <<"discovery", "decision_log">>
       [] c = "broken" -> <<"discovery", "bundle">>
       [] c = "mute" -> <<"decision_log", "status">>
       [] c = "untagged" -> <<"status", "decision_log">>]
MCMalformed ==
  [c \in MCConfigs |->
     CASE c = "broken" -> {"bundle"} [] c = "mute" -> {"decision_log"} [] OTHER -> {}]
=============================================================================
