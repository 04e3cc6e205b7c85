--------------------------- MODULE MCFeatureWiring ---------------------------
\* Instances of FeatureWiring for TLC.
EXTENDS FeatureWiring, TLC

Symmetric == Permutations(Handlers) \cup Permutations(Configs) \cup Permutations(Wirings)
==============================================================================
