----------------------------- MODULE MCVoiceCall -----------------------------
EXTENDS VoiceCall, TLC

Symmetry == Permutations(Call)
=============================================================================
