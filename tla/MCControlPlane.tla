---------------------------- MODULE MCControlPlane ----------------------------
(* Small instances of ControlPlane. *)
EXTENDS ControlPlane, TLC

CONSTANTS s1, s2

NoBacklogs == {<<>>}
OneStory == {<<s1>>}
TwoStories == {<<s1, s2>>}
AnyBacklog == {<<>>, <<s1>>, <<s2, s1>>}

KeySymmetry == Permutations(Keys)
=============================================================================
