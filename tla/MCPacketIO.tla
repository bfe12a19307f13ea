----------------------------- MODULE MCPacketIO -----------------------------
(* Every packet of both pools, with two fields off their usual value, and  *)
(* one in the packets where pairs would be too many.                       *)
EXTENDS PacketIO
EveryPacket == DOMAIN AllPackets
LargePackets ==
  {"BiomeDefinitionList", "CameraInstruction", "CameraPresets", "CameraSpline", "CraftingData",
   "PlayerAuthInput"}
=============================================================================
