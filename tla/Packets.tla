------------------------------- MODULE Packets -------------------------------
(***************************************************************************)
(* The Marshal methods of the packets only a server sends                  *)
(* (minecraft/protocol/packet) as layouts, and the pools of the packets    *)
(* each side reads.                                                        *)
(***************************************************************************)
EXTENDS ClientPackets

(* The bound on the saved chunks of NetworkChunkPublisherUpdate, 9216 in    *)
(* the code, scaled down.                                                  *)
MaxSavedChunks == 2

(* protocol/packet/add_actor.go *)
AddActor ==
  <<ActorUniqueID("EntityUniqueID"), ActorRuntimeID("EntityRuntimeID"), String("EntityType"),
    Vec3("Position"), Vec3("Velocity"), Float32("Pitch"), Float32("Yaw"), Float32("HeadYaw"),
    Float32("BodyYaw"), Slice("Attributes", AttributeValue), EntityMetadata("EntityMetadata"),
    Single("EntityProperties", EntityProperties), Slice("EntityLinks", EntityLink),
    OptionalMarshaler("PassengerOfBlock", PassengerOfBlockData)>>

(* protocol/packet/add_behaviour_tree.go *)
AddBehaviourTree == <<String("BehaviourTree")>>

(* protocol/packet/add_item_actor.go *)
AddItemActor ==
  <<ActorUniqueID("EntityUniqueID"), ActorRuntimeID("EntityRuntimeID"), ItemInstance("Item"),
    Vec3("Position"), Vec3("Velocity"), EntityMetadata("EntityMetadata"), Bool("FromFishing")>>

(* protocol/packet/add_painting.go *)
AddPainting ==
  <<ActorUniqueID("EntityUniqueID"), ActorRuntimeID("EntityRuntimeID"), Vec3("Position"),
    Varint32("Direction"), String("Title")>>

(* protocol/packet/add_player.go *)
AddPlayer ==
  <<UUID("UUID"), String("Username"), ActorRuntimeID("EntityRuntimeID"),
    String("PlatformChatID"), Vec3("Position"), Vec3("Velocity"), Float32("Pitch"),
    Float32("Yaw"), Float32("HeadYaw"), ItemInstance("HeldItem"), Varint32("GameType"),
    EntityMetadata("EntityMetadata"), Single("EntityProperties", EntityProperties),
    Single("AbilityData", AbilityData), Slice("EntityLinks", EntityLink),
    OptionalMarshaler("PassengerOfBlock", PassengerOfBlockData), String("DeviceID"),
    Int32("BuildPlatform")>>

(* protocol/packet/add_volume_entity.go *)
AddVolumeEntity ==
  <<ActorRuntimeIDVaruint32("EntityRuntimeID"), NBT("EntityMetadata"),
    String("EncodingIdentifier"), String("InstanceIdentifier"), BlockPos("Bounds[0]"),
    BlockPos("Bounds[1]"), Varint32("Dimension"), String("EngineVersion")>>

(* protocol/packet/agent_action.go *)
AgentAction == <<String("Identifier"), Int32("Action"), ByteSlice("Response")>>

(* protocol/packet/agent_animation.go *)
AgentAnimation == <<Uint8("Animation"), ActorRuntimeID("EntityRuntimeID")>>

(* protocol/packet/animate_entity.go *)
AnimateEntity ==
  <<String("Animation"), String("NextState"), String("StopCondition"),
    Int32("StopConditionVersion"), String("Controller"), Float32("BlendOutTime"),
    FuncSlice("EntityRuntimeIDs", ActorRuntimeID)>>

(* protocol/packet/available_actor_identifiers.go *)
AvailableActorIdentifiers == <<Bytes("SerialisedEntityIdentifiers")>>

(* protocol/packet/available_commands.go *)
AvailableCommands ==
  <<FuncSlice("EnumValues", String), FuncSlice("ChainedSubcommandValues", String),
    FuncSlice("Suffixes", String), Slice("Enums", CommandEnumContext),
    Slice("ChainedSubcommands", ChainedSubcommand), Slice("Commands", Command),
    Slice("DynamicEnums", DynamicEnum), Slice("Constraints", CommandEnumConstraint)>>

(* protocol/packet/award_achievement.go *)
AwardAchievement == <<Int32("AchievementID")>>

(* protocol/packet/biome_definition_list.go *)
BiomeDefinitionList ==
  <<Slice("BiomeDefinitions", BiomeDefinition), FuncSlice("StringList", String)>>

(* protocol/packet/block_event.go *)
BlockEvent == <<BlockPos("Position"), Varint32("EventType"), Varint32("EventData")>>

(* protocol/packet/camera.go *)
Camera == <<ActorUniqueID("CameraEntityUniqueID"), ActorUniqueID("TargetPlayerUniqueID")>>

(* protocol/packet/camera_aim_assist.go *)
CameraAimAssist ==
  <<String("Preset"), Vec2("Angle"), Float32("Distance"), Uint8("TargetMode"), Uint8("Action"),
    Bool("ShowDebugRender")>>

(* protocol/packet/camera_aim_assist_actor_priority.go *)
CameraAimAssistActorPriority == <<Slice("PriorityData", CameraAimAssistActorPriorityData)>>

(* protocol/packet/camera_aim_assist_presets.go *)
CameraAimAssistPresets ==
  <<Slice("Categories", CameraAimAssistCategory), Slice("Presets", CameraAimAssistPreset),
    Uint8("Operation")>>

(* protocol/packet/camera_instruction.go *)
CameraInstruction ==
  <<OptionalMarshaler("Set", CameraInstructionSet), OptionalFunc("Clear", Bool),
    OptionalMarshaler("Fade", CameraInstructionFade),
    OptionalMarshaler("Target", CameraInstructionTarget), OptionalFunc("RemoveTarget", Bool),
    OptionalMarshaler("FieldOfView", CameraInstructionFieldOfView),
    OptionalMarshaler("Spline", CameraSplineInstruction),
    OptionalFunc("AttachToEntity", ActorUniqueIDInt64), OptionalFunc("DetachFromEntity", Bool)>>

(* protocol/packet/camera_presets.go *)
CameraPresets == <<Slice("Presets", CameraPreset)>>

(* protocol/packet/camera_shake.go *)
CameraShake == <<Float32("Intensity"), Float32("Duration"), Uint8("Type"), Uint8("Action")>>

(* protocol/packet/camera_spline.go *)
CameraSpline == <<Slice("Splines", CameraSplineDefinition)>>

(* protocol/packet/change_dimension.go *)
ChangeDimension ==
  <<Varint32("Dimension"), Vec3("Position"), Bool("Respawn"),
    OptionalFunc("LoadingScreenID", Uint32)>>

(* protocol/packet/change_mob_property.go *)
ChangeMobProperty ==
  <<ActorUniqueID("EntityUniqueID"), String("Property"), Bool("BoolValue"),
    String("StringValue"), Varint32("IntValue"), Float32("FloatValue")>>

(* protocol/packet/chunk_radius_updated.go *)
ChunkRadiusUpdated == <<Varint32("ChunkRadius")>>

(* protocol/packet/client_bound_close_form.go *)
ClientBoundCloseForm == <<>>

(* protocol/packet/client_bound_control_scheme_set.go *)
ClientBoundControlSchemeSet == <<Uint8("ControlScheme")>>

(* protocol/packet/client_bound_debug_renderer.go *)
DebugMarkerData == <<String("Text"), Vec3("Position"), BEARGB("Colour"), Uint64("Duration")>>
clientBoundDebugRenderToString == Table(<<"cleardebugmarkers", "adddebugmarkercube">>)
clientBoundDebugRenderFromString == [cleardebugmarkers |-> 0, adddebugmarkercube |-> 1]
ClientBoundDebugRenderer ==
  <<ConvName("Type", clientBoundDebugRenderToString, clientBoundDebugRenderFromString),
    OptionalMarshaler("Data", DebugMarkerData)>>

(* protocol/packet/client_bound_map_item_data.go *)
ClientBoundMapItemData ==
  <<Varint64("MapID"), Uint8("Dimension"), Bool("LockedMap"), BlockPos("Origin"),
    OptionalMarshaler("MapsIncludedIn", <<FuncSlice("", Varint64)>>),
    OptionalFunc("Scale", Uint8),
    OptionalMarshaler("TrackedObjects", <<Slice("", MapTrackedObject)>>),
    OptionalMarshaler("Decorations", <<Slice("", MapDecoration)>>),
    OptionalFunc("Width", Varint32), OptionalFunc("Height", Varint32),
    OptionalFunc("XOffset", Varint32), OptionalFunc("YOffset", Varint32),
    OptionalMarshaler("Pixels", <<FuncSlice("", BEARGB)>>)>>

(* protocol/packet/client_cache_miss_response.go *)
ClientCacheMissResponse == <<Slice("Blobs", CacheBlob)>>

(* protocol/packet/client_cheat_ability.go *)
ClientCheatAbility == <<Single("AbilityData", AbilityData)>>

(* protocol/packet/client_start_item_cooldown.go *)
ClientStartItemCooldown == <<String("Category"), Varint32("Duration")>>

(* protocol/packet/clientbound_attribute_layer_sync.go *)
ClientBoundAttributeLayerSync ==
  LET Layer(last) == <<String("LayerName"), Varint32("DimensionID"), last>>
  IN <<Choice("Varuint32", "PayloadType", 0 .. 4),
       Switch("PayloadType", Table(<<
         <<Slice("Layers", AttributeLayerData)>>,
         Layer(Single("Settings", AttributeLayerSettings)),
         Layer(Slice("EnvironmentAttributes", EnvironmentAttributeData)),
         Layer(FuncSlice("RemoveAttributeNames", String))>>))>>

(* protocol/packet/clientbound_data_driven_ui_close_all_screens.go *)
ClientBoundDataDrivenUICloseScreen == <<OptionalFunc("FormID", Uint32)>>

(* protocol/packet/clientbound_data_driven_ui_reload.go *)
ClientBoundDataDrivenUIReload == <<>>

(* protocol/packet/clientbound_data_driven_ui_show_screen.go *)
ClientBoundDataDrivenUIShowScreen ==
  <<String("ScreenID"), Uint32("FormID"), OptionalFunc("DataInstanceID", Uint32)>>

(* protocol/packet/clientbound_data_store.go *)
ClientBoundDataStore == <<Slice("Updates", DataStoreChangeEntry)>>

(* protocol/packet/clientbound_matchmaking_state.go *)
ClientboundMatchmakingState ==
  <<Uint8("State"), String("DestinationName"),
    OptionalMarshaler("Options", MatchmakingStateOptions)>>

(* protocol/packet/play_sound.go *)
PlaySound ==
  <<String("SoundName"), SoundPos("Position"), Float32("Volume"), Float32("Pitch"),
    Varint32("LoopCount"), Bool("BypassListenerRangeCheck"), OptionalFunc("Handle", Uint64),
    OptionalFunc("PlaybackPositionSeconds", Float32)>>

(* protocol/packet/clientbound_play_audio_content.go *)
ClientboundPlayAudioContent ==
  <<String("SharedMetadata"), String("PlaybackContent"), String("PlaybackType"),
    Single("Sound", PlaySound)>>

(* protocol/packet/clientbound_stonecutter_set_recipe.go *)
ClientboundStonecutterSetRecipe ==
  <<ActorUniqueID("PlayerUniqueID"), Uint8("ContainerID"), Varint32("RecipeIndex")>>

(* protocol/packet/clientbound_texture_shift.go *)
ClientBoundTextureShift ==
  <<Uint8("ActionID"), String("CollectionName"), String("FromStep"), String("ToStep"),
    FuncSlice("AllSteps", String), Varuint64("CurrentLengthTicks"),
    Varuint64("TotalLengthTicks"), Bool("Enabled")>>

(* protocol/packet/clientbound_update_sound_data.go *)
ClientboundUpdateSoundData == <<Uint64("ServerSoundHandle"), Single("Update", SoundDataUpdate)>>

(* protocol/packet/code_builder.go *)
CodeBuilder == <<String("URL"), Bool("ShouldOpenCodeBuilder")>>

(* protocol/packet/command_output.go *)
commandOutputTypeToString == Table(<<"none", "lastoutput", "silent", "alloutput", "dataset">>)
commandOutputTypeFromString ==
  [none |-> 0, lastoutput |-> 1, silent |-> 2, alloutput |-> 3, dataset |-> 4]
CommandOutput ==
  <<CommandOriginData("CommandOrigin"),
    ConvName("OutputType", commandOutputTypeToString, commandOutputTypeFromString),
    Uint32("SuccessCount"), Slice("OutputMessages", CommandOutputMessage),
    OptionalFunc("DataSet", String)>>

(* protocol/packet/completed_using_item.go *)
CompletedUsingItem == <<Int16("UsedItemID"), Int32("UseMethod")>>

(* protocol/packet/container_registry_cleanup.go *)
ContainerRegistryCleanup == <<Slice("RemovedContainers", FullContainerName)>>

(* protocol/packet/container_set_data.go *)
ContainerSetData == <<Uint8("WindowID"), Varint32("Key"), Varint32("Value")>>

(* protocol/packet/correct_player_move_prediction.go *)
CorrectPlayerMovePrediction ==
  <<Uint8("PredictionType"), Vec3("Position"), Vec3("Delta"), Vec2("Rotation"),
    OptionalFunc("VehicleAngularVelocity", Float32), Bool("OnGround"), Varuint64("Tick")>>

(* protocol/packet/crafting_data.go *)
CraftingData ==
  <<Slice("ShapedRecipes", ShapedRecipe), Slice("ShapelessRecipes", ShapelessRecipe),
    Slice("MultiRecipes", MultiRecipe),
    Slice("UserDataShapelessRecipes", UserDataShapelessRecipe),
    Slice("ShapelessChemistryRecipes", ShapelessChemistryRecipe),
    Slice("ShapedChemistryRecipes", ShapedChemistryRecipe),
    Slice("SmithingTransformRecipes", SmithingTransformRecipe),
    Slice("SmithingTrimRecipes", SmithingTrimRecipe), Slice("PotionRecipes", PotionRecipe),
    Slice("PotionContainerChangeRecipes", PotionContainerChangeRecipe),
    FuncSlice("MaterialReducers", MaterialReducer), Bool("ClearRecipes")>>

(* protocol/packet/creative_content.go *)
CreativeContent == <<Slice("Groups", CreativeGroup), Slice("Items", CreativeItem)>>

(* protocol/packet/current_structure_feature.go *)
CurrentStructureFeature == <<String("CurrentFeature")>>

(* protocol/packet/death_info.go *)
DeathInfo == <<String("Cause"), FuncSlice("Messages", String)>>

(* protocol/packet/dimension_data.go *)
DimensionData == <<Slice("Definitions", DimensionDefinition)>>

(* protocol/packet/disconnect.go *)
Disconnect ==
  <<Varint32("Reason"), Flag("HideDisconnectionScreen"),
    If("HideDisconnectionScreen", {1}, <<>>, <<String("Message"), String("FilteredMessage")>>)>>

(* protocol/packet/education_resource_uri.go *)
EducationResourceURI == <<Single("Resource", EducationSharedResourceURI)>>

(* protocol/packet/education_settings.go *)
EducationSettings ==
  <<String("CodeBuilderDefaultURI"), String("CodeBuilderTitle"), Bool("CanResizeCodeBuilder"),
    Bool("DisableLegacyTitleBar"), String("PostProcessFilter"), String("ScreenshotBorderPath"),
    OptionalMarshaler("AgentCapabilities", EducationAgentCapabilities),
    OptionalFunc("OverrideURI", String), Bool("HasQuiz"),
    OptionalMarshaler("ExternalLinkSettings", EducationExternalLinkSettings)>>

(* protocol/packet/event.go *)
Event ==
  <<ActorRuntimeIDVarint64("EntityRuntimeID"), EventType("Event"), Bool("UsePlayerID"),
    EventOrdinal("Event"), EventData("Event")>>

(* protocol/packet/feature_registry.go *)
FeatureRegistry == <<Slice("Features", GenerationFeature)>>

(* protocol/packet/game_rules_changed.go *)
GameRulesChanged == <<FuncSlice("GameRules", GameRule)>>

(* protocol/packet/game_test_request.go *)
GameTestRequest ==
  <<Varint32("MaxTestsPerBatch"), Varint32("Repetitions"), Uint8("Rotation"),
    Bool("StopOnError"), BlockPos("Position"), Varint32("TestsPerRow"), String("Name")>>

(* protocol/packet/graphics_override_parameter.go *)
GraphicsOverrideParameter ==
  <<Slice("Values", ParameterKeyframeValue), OptionalFunc("FloatValue", Float32),
    OptionalFunc("Vec3Value", Vec3), String("BiomeIdentifier"),
    OptionalFunc("PlayerIdentifier", String), Uint8("ParameterType"), Bool("Reset")>>

(* protocol/packet/gui_data_pick_item.go *)
GUIDataPickItem == <<String("ItemName"), String("ItemEffects"), Int32("HotBarSlot")>>

(* protocol/packet/hurt_armour.go *)
HurtArmour == <<Varint32("Cause"), Varint32("Damage"), Varuint64("ArmourSlots")>>

(* protocol/packet/inventory_content.go *)
InventoryContent ==
  <<Varuint32("WindowID"), FuncSlice("Content", ItemInstance),
    Single("Container", FullContainerName), ItemInstance("StorageItem")>>

(* protocol/packet/inventory_slot.go *)
InventorySlot ==
  <<Varuint32("WindowID"), Varuint32("Slot"), OptionalMarshaler("Container", FullContainerName),
    OptionalFunc("StorageItem", ItemInstance), ItemInstance("NewItem")>>

(* protocol/packet/item_registry.go *)
ItemRegistry == <<Slice("Items", ItemEntry)>>

(* protocol/packet/item_stack_response.go *)
ItemStackResponsePacket == <<Slice("Responses", ItemStackResponse)>>

(* protocol/packet/jigsaw_structure_data.go *)
JigsawStructureData == <<NBT("StructureData")>>

(* protocol/packet/lesson_progress.go *)
LessonProgress == <<Varint32("Action"), Varint32("Score"), String("Identifier")>>

(* protocol/packet/level_chunk.go *)
LevelChunk ==
  <<ChunkPos("Position"), Varint32("Dimension"), Choice("Varuint32", "SubChunkCount", {0, 64, 65}),
    Require("SubChunkCount", {0, 64}), OptionalFunc("SubChunkLimit", Varint32), Bool("CacheEnabled"),
    FuncSlice("BlobHashes", Uint64), ByteSlice("RawPayload"), Bool("ClientBiomeUpdate")>>

(* protocol/packet/level_event.go *)
LevelEvent == <<Varint32("EventType"), Vec3("Position"), Varint32("EventData")>>

(* protocol/packet/level_event_generic.go *)
LevelEventGeneric == <<Varint32("EventID"), Bytes("SerialisedEventData")>>

(* protocol/packet/locator_bar.go *)
LocatorBar == <<Slice("Waypoints", LocatorBarWaypoint)>>

(* protocol/packet/mob_armour_equipment.go *)
MobArmourEquipment ==
  <<ActorRuntimeID("EntityRuntimeID"), ItemInstance("Helmet"), ItemInstance("Chestplate"),
    ItemInstance("Leggings"), ItemInstance("Boots"), ItemInstance("Body")>>

(* protocol/packet/mob_effect.go *)
MobEffect ==
  <<ActorRuntimeID("EntityRuntimeID"), Uint8("Operation"), Varint32("EffectType"),
    Varint32("Amplifier"), Bool("Particles"), Varint32("Duration"), Varuint64("Tick"),
    Bool("Ambient")>>

(* protocol/packet/modal_form_request.go *)
ModalFormRequest == <<Varuint32("FormID"), ByteSlice("FormData")>>

(* protocol/packet/motion_prediction_hints.go *)
MotionPredictionHints == <<ActorRuntimeID("EntityRuntimeID"), Vec3("Velocity"), Bool("OnGround")>>

(* protocol/packet/move_actor_absolute.go *)
MoveActorAbsolute ==
  <<ActorRuntimeID("EntityRuntimeID"), Uint8("Flags"), Vec3("Position"),
    ByteFloat("Rotation[0]"), ByteFloat("Rotation[1]"), ByteFloat("Rotation[2]")>>

(* protocol/packet/move_actor_delta.go *)
MoveActorDelta ==
  <<ActorRuntimeID("EntityRuntimeID"), OptionalFunc("PositionX", Float32),
    OptionalFunc("PositionY", Float32), OptionalFunc("PositionZ", Float32),
    OptionalFunc("RotationX", ByteFloat), OptionalFunc("RotationY", ByteFloat),
    OptionalFunc("RotationYHead", ByteFloat), Bool("OnGround"), Bool("ForceMove"),
    Bool("ForceMoveLocalEntity"), Bool("ForceCompletion"), Varuint64("Ticks")>>

(* protocol/packet/movement_effect.go *)
MovementEffect ==
  <<ActorRuntimeID("EntityRuntimeID"), Varint32("Type"), Varint32("Duration"),
    Varuint64("Tick")>>

(* protocol/packet/network_chunk_publisher_update.go *)
NetworkChunkPublisherUpdate ==
  <<BlockPos("Position"), Varuint32("Radius"),
    Choice("Uint32", LengthOf("SavedChunks"), 0 .. MaxSavedChunks + 1),
    Require(LengthOf("SavedChunks"), 0 .. MaxSavedChunks), SliceOfLen("SavedChunks", <<ChunkPos("")>>)>>

(* protocol/packet/network_settings.go *)
NetworkSettings ==
  <<Uint16("CompressionThreshold"), Uint16("CompressionAlgorithm"), Bool("ClientThrottle"),
    Uint8("ClientThrottleThreshold"), Float32("ClientThrottleScalar")>>

(* protocol/packet/npc_dialogue.go *)
NPCDialogue ==
  <<ActorUniqueIDUint64("EntityUniqueID"), Varint32("ActionType"), String("Dialogue"),
    String("SceneName"), String("NPCName"), String("ActionJSON")>>

(* protocol/packet/on_screen_texture_animation.go *)
OnScreenTextureAnimation == <<Uint32("AnimationType")>>

(* protocol/packet/photo_transfer.go *)
PhotoTransfer ==
  <<String("PhotoName"), ByteSlice("PhotoData"), String("BookID"), Uint8("PhotoType"),
    Uint8("SourceType"), ActorUniqueIDInt64("OwnerEntityUniqueID"), String("NewPhotoName")>>

(* protocol/packet/play_status.go *)
PlayStatus == <<BEInt32("Status")>>

(* protocol/packet/player_armour_damage.go *)
PlayerArmourDamage == <<Slice("List", PlayerArmourDamageEntry)>>

(* protocol/packet/player_enchant_options.go *)
PlayerEnchantOptions == <<Slice("Options", EnchantmentOption)>>

(* protocol/packet/player_fog.go *)
PlayerFog == <<FuncSlice("Stack", String)>>

(* protocol/packet/player_hot_bar.go *)
PlayerHotBar == <<Varuint32("SelectedHotBarSlot"), Uint8("WindowID"), Bool("SelectHotBarSlot")>>

(* protocol/packet/player_list.go *)
PlayerList == <<Slice("Entries", PlayerListEntry)>>

(* protocol/packet/player_location.go *)
PlayerLocation ==
  <<ActorUniqueID("EntityUniqueID"), Choice("Varuint32", "Type", 0 .. 2), Choice("Varint32", "Type", {}),
    Switch("Type", Table(<< <<Vec3("Position")>>, <<>> >>))>>

(* protocol/packet/player_update_entity_overrides.go *)
PlayerUpdateEntityOverrides ==
  <<ActorUniqueID("EntityUniqueID"), Varuint32("PropertyIndex"), Choice("Varuint32", "Type", 0 .. 4),
    Require("Type", 0 .. 3),
    DerivedName("Type", Table(<<"clearoverrides", "removeoverride", "setintoverride", "setfloatoverride">>)),
    Switch("Type", Table(<< <<>>, <<>>, <<Int32("IntValue")>>, <<Float32("FloatValue")>> >>))>>

(* protocol/packet/player_video_capture.go *)
PlayerVideoCapture ==
  <<Choice("Varuint32", "Action", 0 .. 1),
    If("Action", {0}, <<Int32("FrameRate"), String("FilePrefix")>>, <<>>)>>

(* protocol/packet/position_tracking_db_server_broadcast.go *)
PositionTrackingDBServerBroadcast ==
  <<Uint8("BroadcastAction"), Varint32("TrackingID"), NBT("Payload")>>

(* protocol/packet/primitive_shapes.go *)
PrimitiveShapes == <<Slice("Shapes", PrimitiveShape)>>

(* protocol/packet/record_started.go *)
RecordStarted == <<BlockPos("Position"), Uint64("Handle")>>

(* protocol/packet/refresh_entitlements.go *)
RefreshEntitlements == <<>>

(* protocol/packet/remove_actor.go *)
RemoveActor == <<ActorUniqueID("EntityUniqueID")>>

(* protocol/packet/remove_objective.go *)
RemoveObjective == <<String("ObjectiveName")>>

(* protocol/packet/remove_volume_entity.go *)
RemoveVolumeEntity == <<ActorRuntimeIDVaruint32("EntityRuntimeID"), Varint32("Dimension")>>

(* protocol/packet/resource_pack_chunk_data.go *)
ResourcePackChunkData ==
  <<String("UUID"), Uint32("ChunkIndex"), Uint64("DataOffset"), ByteSlice("Data")>>

(* protocol/packet/resource_pack_data_info.go *)
ResourcePackDataInfo ==
  <<String("UUID"), Uint32("DataChunkSize"), Uint32("ChunkCount"), Uint64("Size"),
    ByteSlice("Hash"), Bool("Premium"), Uint8("PackType")>>

(* protocol/packet/resource_pack_stack.go *)
ResourcePackStack ==
  <<Bool("TexturePackRequired"), Slice("TexturePacks", StackResourcePack),
    String("BaseGameVersion"), SliceUint32Length("Experiments", ExperimentData),
    Bool("ExperimentsPreviouslyToggled"), Bool("IncludeEditorPacks")>>

(* protocol/packet/resource_packs_info.go *)
ResourcePacksInfo ==
  <<Bool("TexturePackRequired"), Bool("HasAddons"), Bool("HasScripts"),
    Bool("ForceDisableVibrantVisuals"), UUID("WorldTemplateUUID"),
    String("WorldTemplateVersion"), Slice("TexturePacks", TexturePackInfo)>>

(* protocol/packet/send_party_destination_cookie.go *)
SendPartyDestinationCookie == <<String("Cookie"), String("Intent"), String("DestinationName")>>

(* protocol/packet/server_player_post_move_position.go *)
ServerPlayerPostMovePosition == <<Vec3("Position")>>

(* protocol/packet/server_presence_info.go *)
ServerPresenceInfo == <<OptionalMarshaler("PresenceInfo", PresenceInfo)>>

(* protocol/packet/server_settings_response.go *)
ServerSettingsResponse == <<Varuint32("FormID"), ByteSlice("FormData")>>

(* protocol/packet/server_stats.go *)
ServerStats == <<Float32("ServerTime"), Float32("NetworkTime")>>

(* protocol/packet/server_store_info.go *)
ServerStoreInfo == <<OptionalMarshaler("StoreInfo", StoreEntryPointInfo)>>

(* protocol/packet/server_to_client_handshake.go *)
ServerToClientHandshake == <<ByteSlice("JWT")>>

(* protocol/packet/set_actor_data.go *)
SetActorData ==
  <<ActorRuntimeID("EntityRuntimeID"), EntityMetadata("EntityMetadata"),
    Single("EntityProperties", EntityProperties), Varuint64("Tick")>>

(* protocol/packet/set_actor_motion.go *)
SetActorMotion == <<ActorRuntimeID("EntityRuntimeID"), Vec3("Velocity"), Varuint64("Tick")>>

(* protocol/packet/set_commands_enabled.go *)
SetCommandsEnabled == <<Bool("Enabled")>>

(* protocol/packet/set_difficulty.go *)
SetDifficulty == <<Varuint32("Difficulty")>>

(* protocol/packet/set_display_objective.go *)
SetDisplayObjective ==
  <<String("DisplaySlot"), String("ObjectiveName"), String("DisplayName"),
    String("CriteriaName"), Varint32("SortOrder")>>

(* protocol/packet/set_health.go *)
SetHealth == <<Varint32("Health")>>

(* protocol/packet/set_hud.go *)
SetHud == <<FuncSlice("Elements", Varint32), Varint32("Visibility")>>

(* protocol/packet/set_last_hurt_by.go *)
SetLastHurtBy == <<Varint32("EntityType")>>

(* protocol/packet/set_passenger_of_block.go *)
SetPassengerOfBlock ==
  <<ActorUniqueID("PassengerUniqueID"), OptionalMarshaler("Data", PassengerOfBlockData)>>

(* protocol/packet/set_score.go *)
SetScore == <<Slice("Entries", ScoreboardEntry)>>

(* protocol/packet/set_scoreboard_identity.go *)
SetScoreboardIdentity ==
  <<Choice("Uint8", "ActionType", 0 .. 2), Require("ActionType", 0 .. 1),
    Slice("Entries", ScoreboardIdentityEntry)>>

(* protocol/packet/set_spawn_position.go *)
SetSpawnPosition ==
  <<Varint32("SpawnType"), BlockPos("Position"), Varint32("Dimension"),
    BlockPos("SpawnPosition")>>

(* protocol/packet/set_time.go *)
SetTime == <<Varint32("Time")>>

(* protocol/packet/set_title.go *)
SetTitle ==
  <<Varint32("ActionType"), String("Text"), Varint32("FadeInDuration"),
    Varint32("RemainDuration"), Varint32("FadeOutDuration"), String("XUID"),
    String("PlatformOnlineID"), String("FilteredMessage")>>

(* protocol/packet/show_profile.go *)
ShowProfile == <<String("XUID")>>

(* protocol/packet/show_store_offer.go *)
ShowStoreOffer == <<UUID("OfferID"), Uint8("Type")>>

(* protocol/packet/simulation_type.go *)
SimulationType == <<Uint8("SimulationType")>>

(* protocol/packet/spawn_experience_orb.go *)
SpawnExperienceOrb == <<Vec3("Position"), Varint32("ExperienceAmount")>>

(* protocol/packet/spawn_particle_effect.go *)
SpawnParticleEffect ==
  <<Uint8("Dimension"), ActorUniqueID("EntityUniqueID"), Vec3("Position"),
    String("ParticleName"), OptionalFunc("MoLangVariables", ByteSlice)>>

(* protocol/packet/start_game.go *)
StartGame ==
  <<ActorUniqueID("EntityUniqueID"), ActorRuntimeID("EntityRuntimeID"),
    Varint32("PlayerGameMode"), Vec3("PlayerPosition"), Float32("Pitch"), Float32("Yaw"),
    Int64("WorldSeed"), Int16("SpawnBiomeType"), String("UserDefinedBiomeName"),
    Varint32("Dimension"), Varint32("Generator"), Varint32("WorldGameMode"), Bool("Hardcore"),
    Varint32("Difficulty"), BlockPos("WorldSpawn"), Bool("AchievementsDisabled"),
    Varint32("EditorWorldType"), Bool("CreatedInEditor"), Bool("ExportedFromEditor"),
    Int8("EditorLevelMigrationVersion"), Varint32("DayCycleLockTime"),
    Varuint32("EducationEditionOffer"), Bool("EducationFeaturesEnabled"),
    String("EducationProductID"), Float32("RainLevel"), Float32("LightningLevel"),
    Bool("ConfirmedPlatformLockedContent"), Bool("MultiPlayerGame"),
    Bool("LANBroadcastEnabled"), Varint32("XBLBroadcastMode"),
    Varint32("PlatformBroadcastMode"), Bool("CommandsEnabled"), Bool("TexturePackRequired"),
    FuncSlice("GameRules", GameRule), SliceUint32Length("Experiments", ExperimentData),
    Bool("ExperimentsPreviouslyToggled"), Bool("BonusChestEnabled"),
    Bool("StartWithMapEnabled"), Uint8("PlayerPermissions"), Int32("ServerChunkTickRadius"),
    Bool("HasLockedBehaviourPack"), Bool("HasLockedTexturePack"),
    Bool("FromLockedWorldTemplate"), Bool("MSAGamerTagsOnly"), Bool("FromWorldTemplate"),
    Bool("WorldTemplateSettingsLocked"), Bool("OnlySpawnV1Villagers"), Bool("PersonaDisabled"),
    Bool("CustomSkinsDisabled"), Bool("EmoteChatMuted"), String("BaseGameVersion"),
    Int32("LimitedWorldWidth"), Int32("LimitedWorldDepth"), Bool("NewNether"),
    Single("EducationSharedResourceURI", EducationSharedResourceURI),
    OptionalFunc("ForceExperimentalGameplay", Bool), Uint8("ChatRestrictionLevel"),
    Bool("DisablePlayerInteractions"), Varint32("ServerEditorConnectionPolicy"),
    Bool("AllowAnonymousBlockDropsInEditorWorlds"), String("LevelID"), String("WorldName"),
    String("TemplateContentIdentity"), Bool("Trial"),
    PlayerMoveSettings("PlayerMovementSettings"), Int64("Time"), Varint32("EnchantmentSeed"),
    Slice("Blocks", BlockEntry), String("MultiPlayerCorrelationID"),
    Bool("ServerAuthoritativeInventory"), String("GameVersion"), NBT("PropertyData"),
    Uint64("ServerBlockStateChecksum"), UUID("WorldTemplateID"), Bool("ClientSideGeneration"),
    Bool("UseBlockNetworkIDHashes"), Bool("ServerAuthoritativeSound"),
    OptionalMarshaler("ServerJoinInformation", ServerJoinInformation), String("ServerID"),
    String("ScenarioID"), String("WorldID"), String("OwnerID")>>

(* protocol/packet/stop_sound.go *)
StopSound == <<String("SoundName"), Bool("StopAll"), Bool("StopMusicLegacy")>>

(* protocol/packet/sub_chunk.go *)
SubChunk ==
  <<Bool("CacheEnabled"), Varint32("Dimension"), SubChunkPos("Position"),
    Slice("SubChunkEntries", SubChunkEntry)>>

(* protocol/packet/sync_actor_property.go *)
SyncActorProperty == <<NBT("PropertyData")>>

(* protocol/packet/sync_world_clocks.go *)
SyncWorldClocks ==
  <<Choice("Varuint32", "PayloadType", 0 .. 4),
    Switch("PayloadType", Table(<<
      <<Slice("SyncStates", SyncWorldClockStateData)>>,
      <<Slice("Clocks", WorldClockData)>>,
      <<Varuint64("AddClockID"), Slice("AddTimeMarkers", TimeMarkerData)>>,
      <<Varuint64("RemoveClockID"), FuncSlice("RemoveTimeMarkerIDs", Varuint64)>> >>))>>

(* protocol/packet/take_item_actor.go *)
TakeItemActor == <<ActorRuntimeID("ItemEntityRuntimeID"), ActorRuntimeID("TakerEntityRuntimeID")>>

(* protocol/packet/ticking_areas_load_status.go *)
TickingAreasLoadStatus == <<Bool("Preload")>>

(* protocol/packet/toast_request.go *)
ToastRequest == <<String("Title"), String("Message")>>

(* protocol/packet/transfer.go *)
Transfer ==
  <<String("Address"), Uint16("Port"), Bool("ReloadWorld"),
    OptionalMarshaler("GatheringJoinInfo", GatheringJoinInfo)>>

(* protocol/packet/trim_data.go *)
TrimData == <<Slice("Patterns", TrimPattern), Slice("Materials", TrimMaterial)>>

(* protocol/packet/unknown.go *)
Unknown == <<Bytes("Payload")>>

(* protocol/packet/unlocked_recipes.go *)
UnlockedRecipes == <<Uint32("UnlockType"), FuncSlice("Recipes", String)>>

(* protocol/packet/update_abilities.go *)
UpdateAbilities == <<Single("AbilityData", AbilityData)>>

(* protocol/packet/update_adventure_settings.go *)
UpdateAdventureSettings ==
  <<Bool("NoPvM"), Bool("NoMvP"), Bool("ImmutableWorld"), Bool("ShowNameTags"),
    Bool("AutoJump")>>

(* protocol/packet/update_attributes.go *)
UpdateAttributes ==
  <<ActorRuntimeID("EntityRuntimeID"), Slice("Attributes", Attribute), Varuint64("Tick")>>

(* protocol/packet/update_block_synced.go *)
UpdateBlockSynced ==
  <<BlockPos("Position"), Varuint32("NewBlockRuntimeID"), Varuint32("Flags"),
    Varuint32("Layer"), ActorUniqueIDVaruint64("EntityUniqueID"), Varuint64("TransitionType")>>

(* protocol/packet/update_client_input_locks.go *)
UpdateClientInputLocks == <<Varuint32("Locks")>>

(* protocol/packet/update_equip.go *)
UpdateEquip ==
  <<Uint8("WindowID"), Uint8("WindowType"), Varint32("Size"), ActorUniqueID("EntityUniqueID"),
    Bytes("SerialisedInventoryData")>>

(* protocol/packet/update_soft_enum.go *)
UpdateSoftEnum == <<String("EnumType"), FuncSlice("Options", String), Uint8("ActionType")>>

(* protocol/packet/update_sub_chunk_blocks.go *)
UpdateSubChunkBlocks ==
  <<BlockPos("Position"), Slice("Blocks", BlockChangeEntry), Slice("Extra", BlockChangeEntry)>>

(* protocol/packet/update_trade.go *)
UpdateTrade ==
  <<Uint8("WindowID"), Uint8("WindowType"), Varint32("Size"), Varint32("TradeTier"),
    ActorUniqueID("VillagerUniqueID"), ActorUniqueID("EntityUniqueID"), String("DisplayName"),
    Bool("NewTradeUI"), Bool("DemandBasedPrices"), Bytes("SerialisedOffers")>>

(* protocol/packet/voxel_shapes.go *)
VoxelShapes ==
  <<Slice("Shapes", VoxelShape), Slice("NameMap", VoxelShapeNameEntry),
    Uint16("CustomShapeCount")>>

(* protocol/packet/pool.go: the packets a server may send and those a client may. *)
ServerPool ==
  [Login |-> Login, PlayStatus |-> PlayStatus,
   ServerToClientHandshake |-> ServerToClientHandshake,
   ClientToServerHandshake |-> ClientToServerHandshake, Disconnect |-> Disconnect,
   ResourcePacksInfo |-> ResourcePacksInfo, ResourcePackStack |-> ResourcePackStack,
   ResourcePackClientResponse |-> ResourcePackClientResponse, Text |-> Text,
   SetTime |-> SetTime, StartGame |-> StartGame, AddPlayer |-> AddPlayer, AddActor |-> AddActor,
   RemoveActor |-> RemoveActor, AddItemActor |-> AddItemActor,
   ServerPlayerPostMovePosition |-> ServerPlayerPostMovePosition,
   TakeItemActor |-> TakeItemActor, MoveActorAbsolute |-> MoveActorAbsolute,
   MovePlayer |-> MovePlayer, UpdateBlock |-> UpdateBlock, AddPainting |-> AddPainting,
   LevelEvent |-> LevelEvent, BlockEvent |-> BlockEvent, ActorEvent |-> ActorEvent,
   MobEffect |-> MobEffect, UpdateAttributes |-> UpdateAttributes,
   InventoryTransaction |-> InventoryTransaction, MobEquipment |-> MobEquipment,
   MobArmourEquipment |-> MobArmourEquipment, Interact |-> Interact,
   BlockPickRequest |-> BlockPickRequest, ActorPickRequest |-> ActorPickRequest,
   PlayerAction |-> PlayerAction, HurtArmour |-> HurtArmour, SetActorData |-> SetActorData,
   SetActorMotion |-> SetActorMotion, SetActorLink |-> SetActorLink, SetHealth |-> SetHealth,
   SetSpawnPosition |-> SetSpawnPosition, Animate |-> Animate, Respawn |-> Respawn,
   ContainerOpen |-> ContainerOpen, ContainerClose |-> ContainerClose,
   PlayerHotBar |-> PlayerHotBar, InventoryContent |-> InventoryContent,
   InventorySlot |-> InventorySlot, ContainerSetData |-> ContainerSetData,
   CraftingData |-> CraftingData, GUIDataPickItem |-> GUIDataPickItem,
   AdventureSettings |-> AdventureSettings, BlockActorData |-> BlockActorData,
   LevelChunk |-> LevelChunk, SetCommandsEnabled |-> SetCommandsEnabled,
   SetDifficulty |-> SetDifficulty, ChangeDimension |-> ChangeDimension,
   SetPlayerGameType |-> SetPlayerGameType, PlayerList |-> PlayerList,
   SimpleEvent |-> SimpleEvent, Event |-> Event, SpawnExperienceOrb |-> SpawnExperienceOrb,
   ClientBoundMapItemData |-> ClientBoundMapItemData, MapInfoRequest |-> MapInfoRequest,
   RequestChunkRadius |-> RequestChunkRadius, ChunkRadiusUpdated |-> ChunkRadiusUpdated,
   GameRulesChanged |-> GameRulesChanged, Camera |-> Camera, BossEvent |-> BossEvent,
   ShowCredits |-> ShowCredits, AvailableCommands |-> AvailableCommands,
   CommandRequest |-> CommandRequest, CommandBlockUpdate |-> CommandBlockUpdate,
   CommandOutput |-> CommandOutput, UpdateTrade |-> UpdateTrade, UpdateEquip |-> UpdateEquip,
   ResourcePackDataInfo |-> ResourcePackDataInfo,
   ResourcePackChunkData |-> ResourcePackChunkData,
   ResourcePackChunkRequest |-> ResourcePackChunkRequest, Transfer |-> Transfer,
   PlaySound |-> PlaySound, StopSound |-> StopSound, SetTitle |-> SetTitle,
   AddBehaviourTree |-> AddBehaviourTree, StructureBlockUpdate |-> StructureBlockUpdate,
   ShowStoreOffer |-> ShowStoreOffer, PurchaseReceipt |-> PurchaseReceipt,
   PlayerSkin |-> PlayerSkin, SubClientLogin |-> SubClientLogin,
   AutomationClientConnect |-> AutomationClientConnect, SetLastHurtBy |-> SetLastHurtBy,
   BookEdit |-> BookEdit, NPCRequest |-> NPCRequest, PhotoTransfer |-> PhotoTransfer,
   ModalFormRequest |-> ModalFormRequest, ModalFormResponse |-> ModalFormResponse,
   ServerSettingsRequest |-> ServerSettingsRequest,
   ServerSettingsResponse |-> ServerSettingsResponse, ShowProfile |-> ShowProfile,
   SetDefaultGameType |-> SetDefaultGameType, RemoveObjective |-> RemoveObjective,
   SetDisplayObjective |-> SetDisplayObjective, SetScore |-> SetScore, LabTable |-> LabTable,
   UpdateBlockSynced |-> UpdateBlockSynced, MoveActorDelta |-> MoveActorDelta,
   SetScoreboardIdentity |-> SetScoreboardIdentity,
   SetLocalPlayerAsInitialised |-> SetLocalPlayerAsInitialised,
   UpdateSoftEnum |-> UpdateSoftEnum, NetworkStackLatency |-> NetworkStackLatency,
   ScriptCustomEvent |-> ScriptCustomEvent, SpawnParticleEffect |-> SpawnParticleEffect,
   AvailableActorIdentifiers |-> AvailableActorIdentifiers,
   NetworkChunkPublisherUpdate |-> NetworkChunkPublisherUpdate,
   BiomeDefinitionList |-> BiomeDefinitionList, LevelSoundEvent |-> LevelSoundEvent,
   LevelEventGeneric |-> LevelEventGeneric, LecternUpdate |-> LecternUpdate,
   ClientCacheStatus |-> ClientCacheStatus,
   OnScreenTextureAnimation |-> OnScreenTextureAnimation,
   MapCreateLockedCopy |-> MapCreateLockedCopy,
   StructureTemplateDataRequest |-> StructureTemplateDataRequest,
   StructureTemplateDataResponse |-> StructureTemplateDataResponse,
   ClientCacheBlobStatus |-> ClientCacheBlobStatus,
   ClientCacheMissResponse |-> ClientCacheMissResponse, EducationSettings |-> EducationSettings,
   Emote |-> Emote, MultiPlayerSettings |-> MultiPlayerSettings,
   SettingsCommand |-> SettingsCommand, AnvilDamage |-> AnvilDamage,
   CompletedUsingItem |-> CompletedUsingItem, NetworkSettings |-> NetworkSettings,
   PlayerAuthInput |-> PlayerAuthInput, CreativeContent |-> CreativeContent,
   PlayerEnchantOptions |-> PlayerEnchantOptions, ItemStackRequest |-> ItemStackRequestPacket,
   ItemStackResponse |-> ItemStackResponsePacket, PlayerArmourDamage |-> PlayerArmourDamage,
   CodeBuilder |-> CodeBuilder, UpdatePlayerGameType |-> UpdatePlayerGameType,
   EmoteList |-> EmoteList,
   PositionTrackingDBServerBroadcast |-> PositionTrackingDBServerBroadcast,
   PositionTrackingDBClientRequest |-> PositionTrackingDBClientRequest, DebugInfo |-> DebugInfo,
   PacketViolationWarning |-> PacketViolationWarning,
   MotionPredictionHints |-> MotionPredictionHints, AnimateEntity |-> AnimateEntity,
   CameraShake |-> CameraShake, PlayerFog |-> PlayerFog,
   CorrectPlayerMovePrediction |-> CorrectPlayerMovePrediction, ItemRegistry |-> ItemRegistry,
   FilterText |-> FilterText, ClientBoundDebugRenderer |-> ClientBoundDebugRenderer,
   SyncActorProperty |-> SyncActorProperty, AddVolumeEntity |-> AddVolumeEntity,
   RemoveVolumeEntity |-> RemoveVolumeEntity, SimulationType |-> SimulationType,
   NPCDialogue |-> NPCDialogue, EducationResourceURI |-> EducationResourceURI,
   CreatePhoto |-> CreatePhoto, UpdateSubChunkBlocks |-> UpdateSubChunkBlocks,
   PhotoInfoRequest |-> PhotoInfoRequest, SubChunk |-> SubChunk,
   SubChunkRequest |-> SubChunkRequest, ClientStartItemCooldown |-> ClientStartItemCooldown,
   ScriptMessage |-> ScriptMessage, CodeBuilderSource |-> CodeBuilderSource,
   TickingAreasLoadStatus |-> TickingAreasLoadStatus, DimensionData |-> DimensionData,
   AgentAction |-> AgentAction, ChangeMobProperty |-> ChangeMobProperty,
   LessonProgress |-> LessonProgress, RequestAbility |-> RequestAbility,
   RequestPermissions |-> RequestPermissions, ToastRequest |-> ToastRequest,
   UpdateAbilities |-> UpdateAbilities, UpdateAdventureSettings |-> UpdateAdventureSettings,
   DeathInfo |-> DeathInfo, EditorNetwork |-> EditorNetwork,
   FeatureRegistry |-> FeatureRegistry, ServerStats |-> ServerStats,
   RequestNetworkSettings |-> RequestNetworkSettings, GameTestRequest |-> GameTestRequest,
   GameTestResults |-> GameTestResults, UpdateClientInputLocks |-> UpdateClientInputLocks,
   ClientCheatAbility |-> ClientCheatAbility, CameraPresets |-> CameraPresets,
   UnlockedRecipes |-> UnlockedRecipes, CameraInstruction |-> CameraInstruction,
   TrimData |-> TrimData, OpenSign |-> OpenSign, AgentAnimation |-> AgentAnimation,
   RefreshEntitlements |-> RefreshEntitlements,
   PlayerToggleCrafterSlotRequest |-> PlayerToggleCrafterSlotRequest,
   SetPlayerInventoryOptions |-> SetPlayerInventoryOptions, SetHud |-> SetHud,
   AwardAchievement |-> AwardAchievement, ClientBoundCloseForm |-> ClientBoundCloseForm,
   ServerBoundLoadingScreen |-> ServerBoundLoadingScreen,
   JigsawStructureData |-> JigsawStructureData,
   CurrentStructureFeature |-> CurrentStructureFeature,
   ServerBoundDiagnostics |-> ServerBoundDiagnostics, CameraAimAssist |-> CameraAimAssist,
   ContainerRegistryCleanup |-> ContainerRegistryCleanup, MovementEffect |-> MovementEffect,
   CameraAimAssistPresets |-> CameraAimAssistPresets,
   ClientCameraAimAssist |-> ClientCameraAimAssist,
   ClientMovementPredictionSync |-> ClientMovementPredictionSync,
   UpdateClientOptions |-> UpdateClientOptions, PlayerVideoCapture |-> PlayerVideoCapture,
   PlayerUpdateEntityOverrides |-> PlayerUpdateEntityOverrides,
   PlayerLocation |-> PlayerLocation,
   ClientBoundControlSchemeSet |-> ClientBoundControlSchemeSet,
   PrimitiveShapes |-> PrimitiveShapes,
   ServerBoundPackSettingChange |-> ServerBoundPackSettingChange,
   GraphicsOverrideParameter |-> GraphicsOverrideParameter,
   ClientBoundDataDrivenUIShowScreen |-> ClientBoundDataDrivenUIShowScreen,
   ClientBoundDataDrivenUICloseScreen |-> ClientBoundDataDrivenUICloseScreen,
   ClientBoundDataDrivenUIReload |-> ClientBoundDataDrivenUIReload,
   ClientBoundTextureShift |-> ClientBoundTextureShift, VoxelShapes |-> VoxelShapes,
   CameraSpline |-> CameraSpline, CameraAimAssistActorPriority |-> CameraAimAssistActorPriority,
   ClientBoundDataStore |-> ClientBoundDataStore, LocatorBar |-> LocatorBar,
   SyncWorldClocks |-> SyncWorldClocks,
   ClientBoundAttributeLayerSync |-> ClientBoundAttributeLayerSync,
   ServerStoreInfo |-> ServerStoreInfo, ServerPresenceInfo |-> ServerPresenceInfo,
   ClientboundUpdateSoundData |-> ClientboundUpdateSoundData,
   SendPartyDestinationCookie |-> SendPartyDestinationCookie,
   SetPlayerFurnaceOptions |-> SetPlayerFurnaceOptions, RecordStarted |-> RecordStarted,
   ClientboundMatchmakingState |-> ClientboundMatchmakingState,
   ClientboundStonecutterSetRecipe |-> ClientboundStonecutterSetRecipe,
   SetPassengerOfBlock |-> SetPassengerOfBlock,
   ClientboundPlayAudioContent |-> ClientboundPlayAudioContent]
ClientPool ==
  [Login |-> Login, ClientToServerHandshake |-> ClientToServerHandshake,
   ResourcePackClientResponse |-> ResourcePackClientResponse, Text |-> Text,
   MovePlayer |-> MovePlayer, UpdateBlock |-> UpdateBlock, ActorEvent |-> ActorEvent,
   InventoryTransaction |-> InventoryTransaction, MobEquipment |-> MobEquipment,
   Interact |-> Interact, BlockPickRequest |-> BlockPickRequest,
   ActorPickRequest |-> ActorPickRequest, PlayerAction |-> PlayerAction,
   SetActorLink |-> SetActorLink, Animate |-> Animate, Respawn |-> Respawn,
   ContainerOpen |-> ContainerOpen, ContainerClose |-> ContainerClose,
   AdventureSettings |-> AdventureSettings, SetPlayerGameType |-> SetPlayerGameType,
   SimpleEvent |-> SimpleEvent, MapInfoRequest |-> MapInfoRequest,
   RequestChunkRadius |-> RequestChunkRadius, BossEvent |-> BossEvent,
   ShowCredits |-> ShowCredits, CommandRequest |-> CommandRequest,
   CommandBlockUpdate |-> CommandBlockUpdate,
   ResourcePackChunkRequest |-> ResourcePackChunkRequest,
   StructureBlockUpdate |-> StructureBlockUpdate, PurchaseReceipt |-> PurchaseReceipt,
   PlayerSkin |-> PlayerSkin, SubClientLogin |-> SubClientLogin,
   AutomationClientConnect |-> AutomationClientConnect, BookEdit |-> BookEdit,
   NPCRequest |-> NPCRequest, ModalFormResponse |-> ModalFormResponse,
   ServerSettingsRequest |-> ServerSettingsRequest, SetDefaultGameType |-> SetDefaultGameType,
   LabTable |-> LabTable, SetLocalPlayerAsInitialised |-> SetLocalPlayerAsInitialised,
   NetworkStackLatency |-> NetworkStackLatency, ScriptCustomEvent |-> ScriptCustomEvent,
   LevelSoundEvent |-> LevelSoundEvent, LecternUpdate |-> LecternUpdate,
   ClientCacheStatus |-> ClientCacheStatus, MapCreateLockedCopy |-> MapCreateLockedCopy,
   StructureTemplateDataRequest |-> StructureTemplateDataRequest,
   StructureTemplateDataResponse |-> StructureTemplateDataResponse,
   ClientCacheBlobStatus |-> ClientCacheBlobStatus, Emote |-> Emote,
   MultiPlayerSettings |-> MultiPlayerSettings, SettingsCommand |-> SettingsCommand,
   AnvilDamage |-> AnvilDamage, PlayerAuthInput |-> PlayerAuthInput,
   ItemStackRequest |-> ItemStackRequestPacket, UpdatePlayerGameType |-> UpdatePlayerGameType,
   EmoteList |-> EmoteList, PositionTrackingDBClientRequest |-> PositionTrackingDBClientRequest,
   DebugInfo |-> DebugInfo, PacketViolationWarning |-> PacketViolationWarning,
   FilterText |-> FilterText, CreatePhoto |-> CreatePhoto,
   PhotoInfoRequest |-> PhotoInfoRequest, SubChunkRequest |-> SubChunkRequest,
   ScriptMessage |-> ScriptMessage, CodeBuilderSource |-> CodeBuilderSource,
   RequestAbility |-> RequestAbility, RequestPermissions |-> RequestPermissions,
   EditorNetwork |-> EditorNetwork, RequestNetworkSettings |-> RequestNetworkSettings,
   GameTestResults |-> GameTestResults, OpenSign |-> OpenSign,
   BlockActorData |-> BlockActorData,
   PlayerToggleCrafterSlotRequest |-> PlayerToggleCrafterSlotRequest,
   SetPlayerInventoryOptions |-> SetPlayerInventoryOptions,
   ServerBoundLoadingScreen |-> ServerBoundLoadingScreen,
   ServerBoundDiagnostics |-> ServerBoundDiagnostics,
   ClientMovementPredictionSync |-> ClientMovementPredictionSync,
   ClientCameraAimAssist |-> ClientCameraAimAssist, UpdateClientOptions |-> UpdateClientOptions,
   ServerBoundPackSettingChange |-> ServerBoundPackSettingChange,
   ServerBoundDataStore |-> ServerBoundDataStore,
   ResourcePacksReadyForValidation |-> ResourcePacksReadyForValidation,
   PartyChanged |-> PartyChanged,
   ServerBoundDataDrivenScreenClosed |-> ServerBoundDataDrivenScreenClosed,
   PartyDestinationCookieResponse |-> PartyDestinationCookieResponse,
   SetPlayerFurnaceOptions |-> SetPlayerFurnaceOptions,
   ServerboundStonecutterSetRecipe |-> ServerboundStonecutterSetRecipe,
   ServerboundMatchmakingCancel |-> ServerboundMatchmakingCancel,
   ServerboundCursorItemDrag |-> ServerboundCursorItemDrag,
   ServerboundRegisterAudioContent |-> ServerboundRegisterAudioContent]
==============================================================================
