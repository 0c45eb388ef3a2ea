-------------------------------- MODULE MCChatRooms --------------------------------
(***************************************************************************)
(* Two connections to the room of one order: a party's and support's; the  *)
(* other party is elsewhere and may post over REST.                        *)
(***************************************************************************)
EXTENDS ChatRooms, TLC

CONSTANTS s1, s2, buyer, seller, support

OneEach == s1 :> buyer @@ s2 :> support

Symmetry == Permutations(Handlers)

====================================================================================
