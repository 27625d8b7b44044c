-------------------------- MODULE MCConfiguration --------------------------
(* Configuration with all texts of up to three characters.                 *)
EXTENDS Configuration

ShortTexts == UNION {[1..n -> {"letter", "space", "slash"}] : n \in 0..3}
SampleFiles == {<<>>, <<"space">>, <<"letter">>, <<"letter", "space">>, Unreadable}
=============================================================================
