------------------------------ MODULE MCChats ------------------------------
(* Instances of Chats for TLC. *)
EXTENDS Chats, TLC

CONSTANTS alice, aliceLid, team, w1, w2

OneLid      == {aliceLid}
OneGroup    == {team}
OnePhone    == aliceLid :> alice
TwoWorkers  == {w1, w2}
AllFaults   == {"chats", "alias"}
NoFaults    == {}
=============================================================================
