---------------------------- MODULE MCFrameCodec ----------------------------
(* FrameCodec with short frames, one whose length has digits that add up   *)
(* to 16, one whose characters add up to 2^16, and one whose info begins   *)
(* with the checksum of what is in front of it.                            *)
EXTENDS FrameCodec

F(a, info) == [address |-> a, cid2 |-> 0, info |-> info]

WholeSum == [k \in 1..464 |-> IF k = 1 THEN 7 ELSE 255]

OwnSum(a) ==
    LET sum == Checksum(Header(F(a, <<>>), LengthField(6))) IN <<sum \div 256, sum % 256, 9>>

SampleFrames ==
    {F(2, <<>>), F(11, <<>>), F(2, <<2>>), F(255, <<0>>), F(2, <<16, 2>>), F(2, OwnSum(2)),
     F(2, <<0, 255, 170>>), F(3, [k \in 1..23 |-> (37 * k) % 256]), F(2, WholeSum)}

ShortFrames == {F(2, <<>>), F(255, <<0>>)}

\* 0 7 A F a f + - ~ NUL, a space and the carriage return
Characters == {48, 55, 65, 70, 97, 102, 43, 45, 126, 0, 32, 13}
=============================================================================
