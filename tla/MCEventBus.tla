----------------------------- MODULE MCEventBus -----------------------------
(* Constants of EventBus for TLC: the two subscriptions of local_runtime.py. *)
EXTENDS EventBus

CONSTANTS source_sub, config_sub, source, config

MCSub == {source_sub, config_sub}

\* SOURCE_BINDING and CONFIG_BINDING.
MCBinding == [s \in MCSub |-> IF s = source_sub THEN <<source, Hash>> ELSE <<config, Hash>>]

\* SOURCE_TOPIC and CONFIG_TOPIC, the keys topic_for gives today.
MCTopic == {<<source>>, <<config>>}
=============================================================================
