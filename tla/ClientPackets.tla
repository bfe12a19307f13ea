---------------------------- MODULE ClientPackets ----------------------------
(***************************************************************************)
(* The Marshal methods of the packets a client sends, some of which a      *)
(* server sends too (minecraft/protocol/packet), as layouts.               *)
(***************************************************************************)
EXTENDS PacketTypes

(* How many input flags there are: InputFlagCount, scaled down.            *)
FlagCount == 2

(* protocol/packet/actor_event.go *)
ActorEvent ==
  <<ActorRuntimeID("EntityRuntimeID"), Uint8("EventType"), Varint32("EventData"),
    OptionalFunc("FireAtPosition", Vec3)>>

(* protocol/packet/actor_pick_request.go *)
ActorPickRequest ==
  <<ActorUniqueIDInt64("EntityUniqueID"), Uint8("HotBarSlot"), Bool("WithData")>>

(* protocol/packet/adventure_settings.go *)
AdventureSettings ==
  <<Varuint32("Flags"), Varuint32("CommandPermissionLevel"), Varuint32("ActionPermissions"),
    Varuint32("PermissionLevel"), Varuint32("CustomStoredPermissions"),
    ActorUniqueIDInt64("PlayerUniqueID")>>

(* protocol/packet/animate.go *)
swingSourceToString ==
  <<"none", "build", "mine", "interact", "attack", "useitem", "throwitem", "dropitem", "event">>
swingSourceFromString ==
  [none |-> 1, build |-> 2, mine |-> 3, interact |-> 4, attack |-> 5, useitem |-> 6,
   throwitem |-> 7, dropitem |-> 8, event |-> 9]
Animate ==
  <<Given("SwingSource", 0 .. 9), Uint8("ActionType"), ActorRuntimeID("EntityRuntimeID"), Float32("Data"),
    When("SwingSource", 1 .. 9, <<ConvName("SwingSource", swingSourceToString, swingSourceFromString)>>),
    Uint8("Hand")>>

(* protocol/packet/anvil_damage.go *)
AnvilDamage == <<BlockPos("AnvilPosition")>>

(* protocol/packet/automation_client_connect.go *)
AutomationClientConnect == <<String("ServerURI")>>

(* protocol/packet/block_actor_data.go *)
BlockActorData == <<BlockPos("Position"), NBT("NBTData")>>

(* protocol/packet/block_pick_request.go *)
BlockPickRequest == <<BlockPos("Position"), Bool("AddBlockNBT"), Uint8("HotBarSlot")>>

(* protocol/packet/book_edit.go *)
BookEdit ==
  LET Page == <<Varint32("PageNumber"), String("Text"), String("PhotoName")>>
  IN <<Varint32("InventorySlot"), Choice("Varuint32", "ActionType", 0 .. 5),
       Switch("ActionType", Table(<<Page, Page, <<Varint32("PageNumber")>>,
         <<Varint32("PageNumber"), Varint32("SecondaryPageNumber")>>,
         <<String("Title"), String("Author"), String("XUID")>> >>))>>

(* protocol/packet/boss_event.go *)
BossEvent ==
  <<ActorUniqueID("BossEntityUniqueID"), Uint8("EventType"), String("BossBarTitle"),
    String("FilteredBossBarTitle"), Float32("HealthPercentage"), Uint8("Colour"),
    Uint8("Overlay")>>

(* protocol/packet/client_cache_blob_status.go *)
ClientCacheBlobStatus == <<FuncSlice("MissHashes", Uint64), FuncSlice("HitHashes", Uint64)>>

(* protocol/packet/client_cache_status.go *)
ClientCacheStatus == <<Bool("Enabled")>>

(* protocol/packet/client_camera_aim_assist.go *)
ClientCameraAimAssist == <<String("PresetID"), Uint8("Action"), Bool("AllowAimAssist")>>

(* protocol/packet/client_movement_prediction_sync.go *)
ClientMovementPredictionSync ==
  <<Bitset("ActorFlags"), Float32("BoundingBoxScale"), Float32("BoundingBoxWidth"),
    Float32("BoundingBoxHeight"), Float32("MovementSpeed"), Float32("UnderwaterMovementSpeed"),
    Float32("LavaMovementSpeed"), Float32("JumpStrength"), Float32("Health"), Float32("Hunger"),
    Float32("FrictionModifier"), Float32("Bounciness"), Float32("AirDragModifier"),
    ActorUniqueID("EntityUniqueID"), Bool("Flying")>>

(* protocol/packet/client_to_server_handshake.go *)
ClientToServerHandshake == <<>>

(* protocol/packet/code_builder_source.go *)
CodeBuilderSource == <<Uint8("Operation"), Uint8("Category"), Uint8("CodeStatus")>>

(* protocol/packet/command_block_update.go *)
CommandBlockUpdate ==
  <<Flag("Block"),
    If("Block", {1}, <<BlockPos("Position"), Varuint32("Mode"), Bool("NeedsRedstone"), Bool("Conditional")>>,
                     <<ActorRuntimeID("MinecartEntityRuntimeID")>>),
    String("Command"), String("LastOutput"), String("Name"), String("FilteredName"),
    Bool("ShouldTrackOutput"), Uint32("TickDelay"), Bool("ExecuteOnFirstTick")>>

(* protocol/packet/command_request.go *)
CommandRequest ==
  <<String("CommandLine"), CommandOriginData("CommandOrigin"), Bool("Internal"),
    String("Version")>>

(* protocol/packet/container_close.go *)
ContainerClose == <<Uint8("WindowID"), Uint8("ContainerType"), Bool("ServerSide")>>

(* protocol/packet/container_open.go *)
ContainerOpen ==
  <<Uint8("WindowID"), Uint8("ContainerType"), BlockPos("ContainerPosition"),
    ActorUniqueID("ContainerEntityUniqueID")>>

(* protocol/packet/create_photo.go *)
CreatePhoto == <<ActorUniqueIDInt64("EntityUniqueID"), String("PhotoName"), String("ItemName")>>

(* protocol/packet/debug_info.go *)
DebugInfo == <<ActorUniqueID("PlayerUniqueID"), ByteSlice("Data")>>

(* protocol/packet/editor_network.go *)
EditorNetwork == <<Bool("RouteToManager"), NBT("Payload")>>

(* protocol/packet/emote.go *)
Emote ==
  <<ActorRuntimeID("EntityRuntimeID"), String("EmoteID"), Varuint32("EmoteLength"),
    String("XUID"), String("PlatformID"), Uint8("Flags")>>

(* protocol/packet/emote_list.go *)
EmoteList == <<ActorRuntimeID("PlayerRuntimeID"), FuncSlice("EmotePieces", UUID)>>

(* protocol/packet/filter_text.go *)
FilterText == <<String("Text"), Bool("FromServer")>>

(* protocol/packet/game_test_results.go *)
GameTestResults == <<Bool("Succeeded"), String("Error"), String("Name")>>

(* protocol/packet/interact.go *)
Interact ==
  <<Uint8("ActionType"), ActorRuntimeID("TargetEntityRuntimeID"),
    OptionalFunc("Position", Vec3)>>

(* protocol/packet/inventory_transaction.go *)
InventoryTransaction ==
  <<Choice("Varint32", "LegacyRequestID", {-4, -3, -1, 0, 2}),
    When("LegacyRequestID", {-4}, <<Slice("LegacySetItemSlots", LegacySetItemSlot)>>),
    TransactionDataType("TransactionData"), Slice("Actions", InventoryAction),
    TransactionData("TransactionData")>>

(* protocol/packet/item_stack_request.go *)
ItemStackRequestPacket == <<Slice("Requests", ItemStackRequest)>>

(* protocol/packet/lab_table.go *)
LabTable == <<Uint8("ActionType"), BlockPos("Position"), Uint8("ReactionType")>>

(* protocol/packet/lectern_update.go *)
LecternUpdate == <<Uint8("Page"), Uint8("PageCount"), BlockPos("Position")>>

(* protocol/packet/level_sound_event.go *)
LevelSoundEvent ==
  <<String("SoundType"), Vec3("Position"), Varint32("ExtraData"), String("EntityType"),
    Bool("BabyMob"), Bool("DisableRelativeVolume"), ActorUniqueIDInt64("EntityUniqueID"),
    OptionalFunc("FireAtPosition", Vec3)>>

(* protocol/packet/login.go *)
Login == <<BEInt32("ClientProtocol"), ByteSlice("ConnectionRequest")>>

(* protocol/packet/map_create_locked_copy.go *)
MapCreateLockedCopy == <<Varint64("OriginalMapID"), Varint64("NewMapID")>>

(* protocol/packet/map_info_request.go *)
MapInfoRequest == <<Varint64("MapID"), SliceUint32Length("ClientPixels", PixelRequest)>>

(* protocol/packet/mob_equipment.go *)
MobEquipment ==
  <<ActorRuntimeID("EntityRuntimeID"), ItemInstance("NewItem"), Uint8("InventorySlot"),
    Uint8("HotBarSlot"), Uint8("WindowID")>>

(* protocol/packet/modal_form_response.go *)
ModalFormResponse ==
  <<Varuint32("FormID"), OptionalFunc("ResponseData", ByteSlice),
    OptionalFunc("CancelReason", Uint8)>>

(* protocol/packet/move_player.go *)
MovePlayer ==
  <<ActorRuntimeID("EntityRuntimeID"), Vec3("Position"), Float32("Pitch"), Float32("Yaw"),
    Float32("HeadYaw"), Uint8("Mode"), Bool("OnGround"),
    ActorRuntimeID("RiddenEntityRuntimeID"), OptionalMarshaler("TeleportData", TeleportData),
    Varuint64("Tick")>>

(* protocol/packet/multi_player_settings.go *)
MultiPlayerSettings == <<Varint32("ActionType")>>

(* protocol/packet/network_stack_latency.go *)
NetworkStackLatency == <<Int64("Timestamp"), Bool("NeedsResponse")>>

(* protocol/packet/npc_request.go *)
NPCRequest ==
  <<ActorRuntimeID("EntityRuntimeID"), Uint8("RequestType"), String("CommandString"),
    Uint8("ActionType"), String("SceneName")>>

(* protocol/packet/open_sign.go *)
OpenSign == <<BlockPos("Position"), Bool("FrontSide")>>

(* protocol/packet/packet_violation_warning.go *)
PacketViolationWarning ==
  <<Varint32("Type"), Varint32("Severity"), Varint32("PacketID"), String("ViolationContext")>>

(* protocol/packet/party_changed.go *)
PartyInfo == <<String("PartyID"), Bool("PartyLeader")>>
PartyChanged == <<OptionalMarshaler("PartyInfo", PartyInfo)>>

(* protocol/packet/party_destination_cookie_response.go *)
PartyDestinationCookieResponse == <<String("Cookie"), Bool("Accepted")>>

(* protocol/packet/photo_info_request.go *)
PhotoInfoRequest == <<Varint64("PhotoID")>>

(* protocol/packet/player_action.go *)
PlayerAction ==
  <<ActorRuntimeID("EntityRuntimeID"), Varint32("ActionType"), BlockPos("BlockPosition"),
    BlockPos("ResultPosition"), Varint32("BlockFace")>>

(* protocol/packet/player_auth_input.go *)
PlayerAuthInput ==
  <<Float32("Pitch"), Float32("Yaw"), Vec3("Position"), Vec2("MoveVector"), Float32("HeadYaw")>>
    \o InputFlagList("InputData", FlagCount)
    \o <<Varuint32("InputMode"), Varuint32("PlayMode"), Varint32("InteractionModel"),
      Float32("InteractPitch"), Float32("InteractYaw"), Varuint64("Tick"), Vec3("Delta"),
      OptionalFunc("ItemInteractionData", PlayerInventoryAction),
      OptionalMarshaler("ItemStackRequest", ItemStackRequest),
      OptionalMarshaler("BlockActions", <<Slice("", PlayerBlockAction)>>),
      OptionalFunc("VehicleRotation", Vec2),
      OptionalFunc("ClientPredictedVehicle", ActorUniqueID), Vec2("AnalogueMoveVector"),
      Vec3("CameraOrientation"), Vec2("RawMoveVector")>>

(* protocol/packet/player_skin.go *)
PlayerSkin == <<UUID("UUID"), Single("Skin", Skin), String("NewSkinName"), String("OldSkinName")>>

(* protocol/packet/player_toggle_crafter_slot_request.go *)
PlayerToggleCrafterSlotRequest ==
  <<Int32("PosX"), Int32("PosY"), Int32("PosZ"), Uint8("Slot"), Bool("Disabled")>>

(* protocol/packet/position_tracking_db_client_request.go *)
PositionTrackingDBClientRequest == <<Uint8("RequestAction"), Varint32("TrackingID")>>

(* protocol/packet/purchase_receipt.go *)
PurchaseReceipt == <<FuncSlice("Receipts", String)>>

(* protocol/packet/request_ability.go *)
RequestAbility == <<Varint32("Ability"), AbilityValue("Value")>>

(* protocol/packet/request_chunk_radius.go *)
RequestChunkRadius == <<Varint32("ChunkRadius"), Uint8("MaxChunkRadius")>>

(* protocol/packet/request_network_settings.go *)
RequestNetworkSettings == <<BEInt32("ClientProtocol")>>

(* protocol/packet/request_permissions.go *)
RequestPermissions ==
  <<ActorUniqueIDInt64("EntityUniqueID"), Varint32("PermissionLevel"),
    Uint16("RequestedPermissions")>>

(* protocol/packet/resource_pack_chunk_request.go *)
ResourcePackChunkRequest == <<String("UUID"), Int32("ChunkIndex")>>

(* protocol/packet/resource_pack_client_response.go *)
resourcePackResponseToString ==
  Table(<<"cancel", "downloading", "downloadingfinished", "resourcepackstackfinished">>)
ResourcePackClientResponse ==
  <<Choice("Varuint32", "Response", 0 .. 4), Require("Response", DOMAIN resourcePackResponseToString),
    DerivedName("Response", resourcePackResponseToString),
    If("Response", {1}, <<FuncSlice("PacksToDownload", String)>>, <<>>)>>

(* protocol/packet/resource_packs_ready_for_validation.go *)
ResourcePacksReadyForValidation == <<>>

(* protocol/packet/respawn.go *)
Respawn == <<Vec3("Position"), Uint8("State"), ActorRuntimeID("EntityRuntimeID")>>

(* protocol/packet/script_custom_event.go *)
ScriptCustomEvent == <<String("EventName"), ByteSlice("EventData")>>

(* protocol/packet/script_message.go *)
ScriptMessage == <<String("Identifier"), ByteSlice("Data")>>

(* protocol/packet/server_bound_diagnostics.go *)
ServerBoundDiagnostics ==
  <<Float32("AverageFramesPerSecond"), Float32("AverageServerSimTickTime"),
    Float32("AverageClientSimTickTime"), Float32("AverageBeginFrameTime"),
    Float32("AverageInputTime"), Float32("AverageRenderTime"), Float32("AverageEndFrameTime"),
    Float32("AverageRemainderTimePercent"), Float32("AverageUnaccountedTimePercent"),
    Slice("MemoryCategoryValues", MemoryCategoryCounter),
    Slice("EntityDiagnostics", EntityDiagnosticTimingInfo),
    Slice("SystemDiagnostics", SystemDiagnosticTimingInfo),
    OptionalMarshaler("SystemCategories", <<Slice("", SystemCategory)>>),
    Slice("WhiskerScopes", WhiskerScopeDataSummary)>>

(* protocol/packet/server_bound_loading_screen.go *)
ServerBoundLoadingScreen == <<Varint32("Type"), OptionalFunc("LoadingScreenID", Uint32)>>

(* protocol/packet/server_bound_pack_setting_change.go *)
ServerBoundPackSettingChange == <<UUID("PackID"), PackSetting("PackSetting")>>

(* protocol/packet/server_settings_request.go *)
ServerSettingsRequest == <<>>

(* protocol/packet/serverbound_cursor_item_drag.go *)
ServerboundCursorItemDrag == <<Uint8("State")>>

(* protocol/packet/serverbound_data_driven_screen_closed.go *)
ServerBoundDataDrivenScreenClosed == <<Uint32("FormID"), String("CloseReason")>>

(* protocol/packet/serverbound_data_store.go *)
ServerBoundDataStore == <<Single("Update", DataStoreUpdate)>>

(* protocol/packet/serverbound_matchmaking_cancel.go *)
ServerboundMatchmakingCancel == <<>>

(* protocol/packet/serverbound_register_audio_content.go *)
ServerboundRegisterAudioContent == <<Slice("Registrations", AudioContentRegistrationEntry)>>

(* protocol/packet/serverbound_stonecutter_set_recipe.go *)
ServerboundStonecutterSetRecipe == <<Uint8("ContainerID"), Varint32("RecipeIndex")>>

(* protocol/packet/set_actor_link.go *)
SetActorLink == <<Single("EntityLink", EntityLink)>>

(* protocol/packet/set_default_game_type.go *)
SetDefaultGameType == <<Varint32("GameType")>>

(* protocol/packet/set_local_player_as_initialised.go *)
SetLocalPlayerAsInitialised == <<ActorRuntimeID("EntityRuntimeID")>>

(* protocol/packet/set_player_furnace_options.go *)
SetPlayerFurnaceOptions == <<Uint8("FurnaceType"), Single("FurnaceOptions", FurnaceOptions)>>

(* protocol/packet/set_player_game_type.go *)
SetPlayerGameType == <<Varint32("GameType")>>

(* protocol/packet/set_player_inventory_options.go *)
SetPlayerInventoryOptions ==
  <<Varint32("LeftInventoryTab"), Varint32("RightInventoryTab"), Bool("Filtering"),
    Varint32("InventoryLayout"), Varint32("CraftingLayout")>>

(* protocol/packet/settings_command.go *)
SettingsCommand == <<String("CommandLine"), Bool("SuppressOutput")>>

(* protocol/packet/show_credits.go *)
ShowCredits == <<ActorRuntimeID("PlayerRuntimeID"), Varint32("StatusType")>>

(* protocol/packet/simple_event.go *)
SimpleEvent == <<Uint16("EventType")>>

(* protocol/packet/structure_block_update.go *)
StructureBlockUpdate ==
  <<BlockPos("Position"), String("StructureName"),
    OptionalFunc("FilteredStructureName", String), String("DataField"), Bool("IncludePlayers"),
    Bool("ShowBoundingBox"), Varint32("StructureBlockType"),
    Single("Settings", StructureSettings), Uint8("RedstoneSaveMode"), Bool("ShouldTrigger"),
    Bool("Waterlogged")>>

(* protocol/packet/structure_template_data_request.go *)
StructureTemplateDataRequest ==
  <<String("StructureName"), BlockPos("Position"), Single("Settings", StructureSettings),
    Uint8("RequestType")>>

(* protocol/packet/structure_template_data_response.go *)
StructureTemplateDataResponse ==
  <<String("StructureName"), Flag("Success"), If("Success", {1}, <<NBT("StructureTemplate")>>, <<>>),
    Uint8("ResponseType")>>

(* protocol/packet/sub_chunk_request.go *)
SubChunkRequest ==
  <<Varint32("Dimension"), Slice("Offsets", SubChunkOffset), SubChunkPos("Position")>>

(* protocol/packet/sub_client_login.go *)
SubClientLogin == <<ByteSlice("ConnectionRequest")>>

(* protocol/packet/text.go *)
(* The text types Chat, Whisper and Announcement, and those that are only a message. *)
AuthoredText == {1, 7, 8}

(* The lengths of a string that Text.Marshal tells apart. *)
Fits == 0
Empty == 1
TooLong == 2
PlainText == {0, 5, 6, 9, 10, 11}
TextCategory ==
  [t \in 0 .. 11 |-> IF t \in PlainText THEN 0 ELSE IF t \in AuthoredText THEN 1 ELSE 2]
Text ==
  LET Length(f, S, ok) == <<Choice("String", f, S), Require(f, ok)>>
      Message == <<Choice("String", "Message", {Empty, Fits, TooLong})>>
      Authored == Length("SourceName", {Fits, TooLong}, {Fits}) \o Message
      WithParameters == Message \o <<FuncSlice("Parameters", String),
                                     Require(LengthOf("Parameters"), 0 .. 4)>>
  IN <<Bool("NeedsTranslation"), Given("TextType", 0 .. 11),
       Derived("Uint8", "TextType", TextCategory), Choice("Uint8", "TextType", {}),
       If("TextType", AuthoredText, Authored, <<If("TextType", PlainText, Message, WithParameters)>>),
       Require("Message", {Fits})>>
       \o Length("XUID", {Fits, TooLong}, {Fits}) \o Length("PlatformChatID", {Fits, TooLong}, {Fits})
       \o <<OptionalMarshaler("FilteredMessage", Length("", {Fits, TooLong}, {Fits}))>>

(* protocol/packet/update_block.go *)
UpdateBlock ==
  <<BlockPos("Position"), Varuint32("NewBlockRuntimeID"), Varuint32("Flags"),
    Varuint32("Layer")>>

(* protocol/packet/update_client_options.go *)
UpdateClientOptions ==
  <<OptionalFunc("GraphicsMode", Uint8), OptionalFunc("FilterProfanity", Bool)>>

(* protocol/packet/update_player_game_type.go *)
UpdatePlayerGameType ==
  <<Varint32("GameType"), ActorUniqueID("PlayerUniqueID"), Varuint64("Tick")>>
==============================================================================
