----------------------------- MODULE WorldTypes -----------------------------
(***************************************************************************)
(* The Marshal methods of the structures inside packets (the Go files of   *)
(* minecraft/protocol) as layouts, one definition per type, with the       *)
(* functions of reader.go, writer.go and io.go they call.  A field keeps   *)
(* its Go name.  These are the structures of the world, its entities,      *)
(* cameras, commands and events, and the items in them.                    *)
(***************************************************************************)
EXTENDS PacketLayout

(* conn.go *)
Shield == 2

(* protocol/ability.go *)
AbilityLayer ==
  <<Uint16("Type"), Uint32("Abilities"), Uint32("Values"), Float32("FlySpeed"),
    Float32("VerticalFlySpeed"), Float32("WalkSpeed")>>
AbilityData ==
  <<ActorUniqueIDInt64("EntityUniqueID"), Uint8("PlayerPermissions"),
    Uint8("CommandPermissions"), Slice("Layers", AbilityLayer)>>

(* protocol/attribute.go *)
AttributeValue == <<String("Name"), Float32("Min"), Float32("Value"), Float32("Max")>>
AttributeModifier ==
  <<String("ID"), String("Name"), Float32("Amount"), Int32("Operation"), Int32("Operand"),
    Bool("Serializable")>>
Attribute ==
  <<Float32("Min"), Float32("Max"), Float32("Value"), Float32("DefaultMin"),
    Float32("DefaultMax"), Float32("Default"), String("Name"),
    Slice("Modifiers", AttributeModifier)>>

(* protocol/attribute_layer.go *)
AttributeData ==
  <<Choice("Varuint32", "Type", 0 .. 3),
    Switch("Type", Table(<<
      <<Bool("BoolValue"), OptionalFunc("BoolOperation", Int32)>>,
      <<Float32("FloatValue"), OptionalFunc("FloatOperation", Int32),
        OptionalFunc("FloatConstraintMin", Float32), OptionalFunc("FloatConstraintMax", Float32)>>,
      <<Int32("ColourValue"), OptionalFunc("ColourOperation", Int32)>> >>))>>
NoiseAlignment == <<Uint8("Type"), Varuint32("Value")>>
AttributeTransitionSettings ==
  <<Varuint32("TotalTransitionTicks"), Varuint32("CurrentTransitionTicks"),
    Varint32("EaseType"), String("ClockName")>>
AttributeNoiseTransitionSettings ==
  <<Varuint32("TotalTransitionTicks"), Varuint32("CurrentTransitionTicks"),
    Varint32("EaseType"), String("ClockName"), Varuint32("LocalTransitionTicks"),
    String("NoiseName"), Single("NoiseAlignment", NoiseAlignment)>>
EnvironmentAttributeData ==
  LET Ends == <<Single("FromAttribute", AttributeData), Single("ToAttribute", AttributeData)>>
  IN <<String("AttributeName"), Choice("Varuint32", "PayloadType", 0 .. 3),
       Switch("PayloadType", Table(<<
         <<Single("Attribute", AttributeData)>>,
         Append(Ends, Single("TransitionSettings", AttributeTransitionSettings)),
         Append(Ends, Single("NoiseTransitionSettings", AttributeNoiseTransitionSettings))>>))>>
AttributeLayerSettings ==
  <<Int32("Priority"), Float32("FloatWeight"), Bool("Enabled"), Bool("TransitionsPaused")>>
AttributeLayerData ==
  <<String("Name"), Varint32("DimensionID"), Single("Settings", AttributeLayerSettings),
    Slice("EnvironmentAttributes", EnvironmentAttributeData)>>

(* protocol/audio_content.go *)
AudioContentRegistrationEntry ==
  <<String("AudioContentID"), String("SharedMetadata"), String("ServerContent"),
    String("PlaybackContent")>>

(* protocol/biome.go *)
BiomeClimate ==
  <<Float32("Temperature"), Float32("Downfall"), Float32("SnowAccumulationMin"),
    Float32("SnowAccumulationMax")>>
BiomeCoordinate ==
  <<Varint32("MinValueType"), Int16("MinValue"), Varint32("MaxValueType"), Int16("MaxValue"),
    Uint32("GridOffset"), Uint32("GridStepSize"), Varint32("Distribution")>>
BiomeScatterParameter ==
  <<Slice("Coordinates", BiomeCoordinate), Varint32("EvaluationOrder"),
    Varint32("ChancePercentType"), Int16("ChancePercent"), Int32("ChanceNumerator"),
    Int32("ChanceDenominator"), Varint32("IterationsType"), Int16("Iterations")>>
BiomeConsolidatedFeature ==
  <<Single("Scatter", BiomeScatterParameter), Int16("Feature"), Int16("Identifier"),
    Int16("Pass"), Bool("CanUseInternal")>>
BiomeMountainParameters ==
  <<Int32("SteepBlock"), Bool("NorthSlopes"), Bool("SouthSlopes"), Bool("WestSlopes"),
    Bool("EastSlopes"), Bool("TopSlideEnabled")>>
BiomeSurfaceMaterial ==
  <<Int32("TopBlock"), Int32("MidBlock"), Int32("SeaFloorBlock"), Int32("FoundationBlock"),
    Int32("SeaBlock"), Int32("SeaFloorDepth")>>
BiomeElementData ==
  <<Float32("NoiseFrequencyScale"), Float32("NoiseLowerBound"), Float32("NoiseUpperBound"),
    Varint32("HeightMinType"), Int16("HeightMin"), Varint32("HeightMaxType"),
    Int16("HeightMax"), Single("AdjustedMaterials", BiomeSurfaceMaterial)>>
FloatRange == <<Float32("Min"), Float32("Max")>>
NoiseBlockSpecifier ==
  <<String("Noise"), Float32("Threshold"), Single("Range", FloatRange), Uint32("Block")>>
NoiseDescriptor == <<String("Name"), Int32("FirstOctave"), FuncSlice("Amplitudes", Float32)>>
BiomeNoiseGradientSurface ==
  <<FuncSlice("NonReplaceableBlocks", Uint32), Slice("GradientBlocks", NoiseBlockSpecifier),
    Single("Noise", NoiseDescriptor)>>
BiomeMesaSurface ==
  <<Uint32("ClayMaterial"), Uint32("HardClayMaterial"), Bool("BrycePillars"),
    Bool("HasForest")>>
BiomeCappedSurface ==
  <<FuncSlice("FloorBlocks", Int32), FuncSlice("CeilingBlocks", Int32),
    OptionalFunc("SeaBlock", Uint32), OptionalFunc("FoundationBlock", Uint32),
    OptionalFunc("BeachBlock", Uint32)>>
BiomeSurfaceBuilder ==
  <<OptionalMarshaler("SurfaceMaterials", BiomeSurfaceMaterial),
    Bool("HasDefaultOverworldSurface"), Bool("HasSwampSurface"), Bool("HasFrozenOceanSurface"),
    Bool("HasEndSurface"), OptionalMarshaler("MesaSurface", BiomeMesaSurface),
    OptionalMarshaler("CappedSurface", BiomeCappedSurface),
    OptionalMarshaler("NoiseGradientSurface", BiomeNoiseGradientSurface)>>
BiomeWeight == <<Int16("Biome"), Uint32("Weight")>>
BiomeConditionalTransformation ==
  <<Slice("WeightedBiomes", BiomeWeight), Int16("ConditionJSON"),
    Uint32("MinPassingNeighbours")>>
BiomeTemperatureWeight == <<Varint32("Temperature"), Uint32("Weight")>>
BiomeOverworldRules ==
  <<Slice("HillsTransformations", BiomeWeight), Slice("MutateTransformations", BiomeWeight),
    Slice("RiverTransformations", BiomeWeight), Slice("ShoreTransformations", BiomeWeight),
    Slice("PreHillsEdgeTransformations", BiomeConditionalTransformation),
    Slice("PostShoreEdgeTransformations", BiomeConditionalTransformation),
    Slice("ClimateTransformations", BiomeTemperatureWeight)>>
BiomeMultiNoiseRules ==
  <<Float32("Temperature"), Float32("Humidity"), Float32("Altitude"), Float32("Weirdness"),
    Float32("Weight")>>
BiomeReplacementData ==
  <<Int16("Biome"), Int16("Dimension"), FuncSlice("TargetBiomes", Int16), Float32("Amount"),
    Float32("NoiseFrequencyScale"), Uint32("ReplacementIndex")>>
BiomeChunkGeneration ==
  <<OptionalMarshaler("Climate", BiomeClimate),
    OptionalMarshaler("ConsolidatedFeatures", <<Slice("", BiomeConsolidatedFeature)>>),
    OptionalMarshaler("MountainParameters", BiomeMountainParameters),
    OptionalMarshaler("SurfaceMaterialAdjustments", <<Slice("", BiomeElementData)>>),
    OptionalMarshaler("OverworldRules", BiomeOverworldRules),
    OptionalMarshaler("MultiNoiseRules", BiomeMultiNoiseRules),
    OptionalMarshaler("LegacyRules", <<Slice("", BiomeConditionalTransformation)>>),
    OptionalMarshaler("ReplacementsData", <<Slice("", BiomeReplacementData)>>),
    OptionalFunc("VillageType", Uint8),
    OptionalMarshaler("SurfaceBuilder", BiomeSurfaceBuilder),
    OptionalMarshaler("SubsurfaceBuilder", BiomeSurfaceBuilder)>>
BiomeDefinition ==
  <<Int16("NameIndex"), Int16("BiomeID"), Float32("Temperature"), Float32("Downfall"),
    Float32("FoliageSnow"), Float32("Depth"), Float32("Scale"), Int32("MapWaterColour"),
    Bool("Rain"), OptionalMarshaler("Tags", <<FuncSlice("", Uint16)>>),
    OptionalMarshaler("ChunkGeneration", BiomeChunkGeneration)>>

(* protocol/blob_cache.go *)
CacheBlob == <<Uint64("Hash"), ByteSlice("Payload")>>

(* protocol/block.go *)
BlockEntry == <<String("Name"), NBT("Properties")>>
BlockChangeEntry ==
  <<BlockPos("BlockPos"), Varuint32("BlockRuntimeID"), Varuint32("Flags"),
    ActorUniqueIDVaruint64("SyncedUpdateEntityUniqueID"), Varuint32("SyncedUpdateType")>>

(* protocol/camera.go *)
easingTypeFromString ==
  [linear |-> 0, spring |-> 1, in_quad |-> 2, out_quad |-> 3, in_out_quad |-> 4, in_cubic |-> 5,
   out_cubic |-> 6, in_out_cubic |-> 7, in_quart |-> 8, out_quart |-> 9, in_out_quart |-> 10,
   in_quint |-> 11, out_quint |-> 12, in_out_quint |-> 13, in_sine |-> 14, out_sine |-> 15,
   in_out_sine |-> 16, in_expo |-> 17, out_expo |-> 18, in_out_expo |-> 19, in_circ |-> 20,
   out_circ |-> 21, in_out_circ |-> 22, in_back |-> 26, out_back |-> 27, in_out_back |-> 28,
   in_elastic |-> 29, out_elastic |-> 30, in_out_elastic |-> 31, in_bounce |-> 23,
   out_bounce |-> 24, in_out_bounce |-> 25, inverse_lerp |-> 32]
(* The names of the easing types, both ways. *)
easingTypeToString ==
  Table(<<"linear", "spring", "in_quad", "out_quad", "in_out_quad", "in_cubic", "out_cubic",
          "in_out_cubic", "in_quart", "out_quart", "in_out_quart", "in_quint", "out_quint",
          "in_out_quint", "in_sine", "out_sine", "in_out_sine", "in_expo", "out_expo",
          "in_out_expo", "in_circ", "out_circ", "in_out_circ", "in_bounce", "out_bounce",
          "in_out_bounce", "in_back", "out_back", "in_out_back", "in_elastic", "out_elastic",
          "in_out_elastic", "inverse_lerp">>)
CameraEase == <<Uint8("Type"), Float32("Duration")>>
CameraInstructionSet ==
  <<Uint32("Preset"), OptionalMarshaler("Ease", CameraEase), OptionalFunc("Position", Vec3),
    OptionalFunc("Rotation", Vec2), OptionalFunc("Facing", Vec3),
    OptionalFunc("ViewOffset", Vec2), OptionalFunc("EntityOffset", Vec3),
    OptionalFunc("Default", Bool), Bool("IgnoreStartingValuesComponent")>>
CameraFadeTimeData ==
  <<Float32("FadeInDuration"), Float32("WaitDuration"), Float32("FadeOutDuration")>>
CameraInstructionFade ==
  <<OptionalMarshaler("TimeData", CameraFadeTimeData), OptionalFunc("Colour", RGB)>>
CameraInstructionTarget ==
  <<OptionalFunc("CenterOffset", Vec3), ActorUniqueIDInt64("EntityUniqueID")>>
EasingType(f) == ConvName(f, easingTypeToString, easingTypeFromString)
CameraInstructionFieldOfView ==
  <<Float32("FieldOfView"), Float32("EaseTime"), EasingType("EaseType"), Bool("Clear")>>
CameraPresetAimAssist ==
  <<OptionalFunc("Preset", String), OptionalFunc("TargetMode", Int32),
    OptionalFunc("Angle", Vec2), OptionalFunc("Distance", Float32)>>
CameraPreset ==
  <<String("Name"), String("Parent"), OptionalFunc("PosX", Float32),
    OptionalFunc("PosY", Float32), OptionalFunc("PosZ", Float32), OptionalFunc("RotX", Float32),
    OptionalFunc("RotY", Float32), OptionalFunc("RotationSpeed", Float32),
    OptionalFunc("SnapToTarget", Bool), OptionalFunc("HorizontalRotationLimit", Vec2),
    OptionalFunc("VerticalRotationLimit", Vec2), OptionalFunc("ContinueTargeting", Bool),
    OptionalFunc("TrackingRadius", Float32), OptionalFunc("ViewOffset", Vec2),
    OptionalFunc("EntityOffset", Vec3), OptionalFunc("Radius", Float32),
    OptionalFunc("MinYawLimit", Float32), OptionalFunc("MaxYawLimit", Float32),
    OptionalFunc("AudioListener", Uint8), OptionalFunc("PlayerEffects", Bool),
    OptionalMarshaler("AimAssist", CameraPresetAimAssist), OptionalFunc("ControlScheme", Uint8),
    Bool("ApplyInheritedStartingRotation"), OptionalFunc("StartingRotation", Vec2)>>
CameraAimAssistPriority == <<String("Identifier"), Int32("Priority")>>
CameraAimAssistPriorities ==
  <<Slice("Entities", CameraAimAssistPriority), Slice("Blocks", CameraAimAssistPriority),
    Slice("BlockTags", CameraAimAssistPriority),
    Slice("EntityTypeFamilies", CameraAimAssistPriority), OptionalFunc("EntityDefault", Int32),
    OptionalFunc("BlockDefault", Int32)>>
CameraAimAssistCategory == <<String("Name"), Single("Priorities", CameraAimAssistPriorities)>>
CameraAimAssistItemSettings == <<String("Item"), String("Category")>>
CameraAimAssistPreset ==
  <<String("Identifier"), FuncSlice("BlockExclusions", String),
    FuncSlice("EntityExclusions", String), FuncSlice("BlockTagExclusions", String),
    FuncSlice("EntityTypeFamilyExclusions", String), FuncSlice("LiquidTargets", String),
    Slice("ItemSettings", CameraAimAssistItemSettings),
    OptionalFunc("DefaultItemSettings", String), OptionalFunc("HandSettings", String)>>
CameraRotationOption == <<Vec3("Value"), Float32("Time"), EasingType("EaseType")>>
CameraProgressOption == <<Float32("Value"), Float32("Time"), EasingType("EaseType")>>
CameraSplineInstruction ==
  <<Float32("TotalTime"), Uint8("SplineType"), FuncSlice("Curve", Vec3),
    Slice("ProgressKeyFrames", CameraProgressOption),
    Slice("RotationOptions", CameraRotationOption), String("SplineIdentifier"),
    Bool("LoadFromJson")>>
optionalEasingType(f) == OptionalFunc(f, EasingType)
CameraSplineProgressKeyFrame ==
  <<Float32("Value"), Float32("Time"), optionalEasingType("EaseType")>>
CameraSplineRotationKeyFrame == <<Vec3("Value"), Float32("Time"), optionalEasingType("EaseType")>>
CameraSplineDefinition ==
  <<String("Name"), Float32("TotalTime"), String("SplineType"),
    FuncSlice("ControlPoints", Vec3), Slice("ProgressKeyFrames", CameraSplineProgressKeyFrame),
    Slice("RotationKeyFrames", CameraSplineRotationKeyFrame)>>
CameraAimAssistActorPriorityData ==
  <<Int32("PresetIndex"), Int32("CategoryIndex"), Int32("ActorIndex"), Int32("Priority")>>

(* protocol/clock.go *)
SyncWorldClockStateData == <<Varuint64("ClockID"), Varint32("Time"), Bool("Paused")>>
TimeMarkerData ==
  <<Varuint64("ID"), String("Name"), Varint32("Time"), OptionalFunc("Period", Int32)>>
WorldClockData ==
  <<Varuint64("ID"), String("Name"), Varint32("Time"), Bool("Paused"),
    Slice("TimeMarkers", TimeMarkerData)>>

(* protocol/command.go *)
commandPermissionToString ==
  Table(<<"any", "gamedirectors", "admin", "host", "owner", "internal">>)
commandPermissionFromString ==
  [any |-> 0, gamedirectors |-> 1, admin |-> 2, host |-> 3, owner |-> 4, internal |-> 5]
CommandParameter == <<String("Name"), Uint32("Type"), Bool("Optional"), Uint8("Options")>>
CommandOverload == <<Bool("Chaining"), Slice("Parameters", CommandParameter)>>
Command ==
  <<String("Name"), String("Description"), Uint16("Flags"),
    ConvName("PermissionLevel", commandPermissionToString, commandPermissionFromString),
    Uint32("AliasesOffset"), FuncSlice("ChainedSubcommandOffsets", Uint32),
    Slice("Overloads", CommandOverload)>>
CommandEnumContext == <<String("Type"), FuncSlice("ValueIndices", Uint32)>>
ChainedSubcommandValue == <<Varuint32("Index"), Varuint32("Value")>>
ChainedSubcommand == <<String("Name"), Slice("Values", ChainedSubcommandValue)>>
DynamicEnum == <<String("Type"), FuncSlice("Values", String)>>
CommandEnumConstraint ==
  <<Uint32("EnumValueIndex"), Uint32("EnumIndex"), ByteSlice("Constraints")>>
commandOriginToString ==
  Table(<<"player", "commandblock", "minecartcommandblock", "devconsole", "test",
          "automationplayer", "clientautomation", "dedicatedserver", "entity", "virtual",
          "gameargument", "entityserver", "precompiled", "gamedirectorentityserver",
          "scripting", "executecontext">>)
commandOriginFromString ==
  [player |-> 0, commandblock |-> 1, minecartcommandblock |-> 2, devconsole |-> 3, test |-> 4,
   automationplayer |-> 5, clientautomation |-> 6, dedicatedserver |-> 7, entity |-> 8,
   virtual |-> 9, gameargument |-> 10, entityserver |-> 11, precompiled |-> 12,
   gamedirectorentityserver |-> 13, scripting |-> 14, executecontext |-> 15]
CommandOriginData(f) ==
  Single(f, <<ConvName("Origin", commandOriginToString, commandOriginFromString), UUID("UUID"),
              String("RequestID"), ActorUniqueIDInt64("PlayerUniqueID")>>)
CommandOutputMessage == <<String("Message"), Bool("Success"), FuncSlice("Parameters", String)>>

(* protocol/container.go *)
FullContainerName == <<Uint8("ContainerID"), OptionalFunc("DynamicContainerID", Uint32)>>

(* protocol/writer.go *)
(* The network IDs told apart: none, an ordinary item and the shield. *)
Air == 0

(* protocol/item.go *)
Stone == 1

(* protocol/writer.go *)
WriterUserData(id, none, shield) ==
  <<If(id, {none}, <<Constant("ByteSlice", 0)>>,
       <<Constant("ByteSlice", 1), Given(LengthOf("NBTData"), {0, 1}),
         If(LengthOf("NBTData"), {1}, <<Constant("Int16", -1), Constant("Uint8", 1), NBTLittleEndian("NBTData")>>,
                            <<Constant("Int16", 0)>>),
         FuncSliceUint32Length("CanBePlacedOn", StringUTF), FuncSliceUint32Length("CanBreak", StringUTF),
         shield, Constant(EndOfBuffer, 0)>>)>>

(* protocol/item.go *)
BlockingTick == IfShield("NetworkID", <<Int64("BlockingTick")>>)

(* protocol/writer.go *)
WriterItem ==
  <<Choice("Varint32", "NetworkID", {Air, Stone, Shield}), Uint16("Count"), Varuint32("MetadataValue"),
    Varint32("BlockRuntimeID")>> \o WriterUserData("NetworkID", Air, BlockingTick)

(* protocol/reader.go *)
ReaderUserData(shield) ==
  <<Choice("ByteSlice", "extraData", {}),
    If("extraData", {0}, <<>>,
       <<Choice("Int16", "length", {}),
         If("length", {0}, <<Set(LengthOf("NBTData"), 0)>>,
            <<If("length", {-1}, <<Choice("Uint8", "version", {}), Require("version", {1})>>, <<>>),
              NBTLittleEndian("NBTData"), Set(LengthOf("NBTData"), 1)>>),
         FuncSliceUint32Length("CanBePlacedOn", StringUTF), FuncSliceUint32Length("CanBreak", StringUTF),
         shield, DropBuffer>>)>>
ReaderItem ==
  <<Choice("Varint32", "NetworkID", {}), Uint16("Count"), Varuint32("MetadataValue"),
    Varint32("BlockRuntimeID")>> \o ReaderUserData(BlockingTick)

(* protocol/item.go *)
Item(f) == Single(f, <<Direction(WriterItem, ReaderItem)>>)

(* protocol/creative.go *)
CreativeGroup == <<Uint8("Category"), String("Name"), Item("Icon")>>
CreativeItem == <<Varuint32("CreativeItemNetworkID"), Item("Item"), Varuint32("GroupIndex")>>

(* protocol/data_store.go *)
DataStoreUpdate ==
  <<String("DataStoreName"), String("Property"), String("Path"),
    Choice("Varuint32", "ControlType", 0 .. 3),
    Switch("ControlType", Table(<< <<Float64("DoubleValue")>>, <<Bool("BoolValue")>>,
                                   <<String("StringValue")>> >>)),
    Uint32("PropertyUpdateCount"), Uint32("PathUpdateCount")>>
DataStoreChangeEntry ==
  <<Choice("Varuint32", "ChangeType", 0 .. 3),
    Switch("ChangeType", Table(<<
      <<Single("Update", DataStoreUpdate)>>,
      <<String("Change.DataStoreName"), String("Change.Property"), Uint32("Change.UpdateCount"),
        PropertyValue("Change.NewValue")>>,
      <<String("Removal.DataStoreName")>> >>))>>
DataStorePropertyValue ==
  <<Choice("Int32", "Type", 0 .. 7),
    Switch("Type", Table(<< <<>>, <<Bool("BoolValue")>>, <<Int64("Int64Value")>>,
      <<Float64("DoubleValue")>>, <<String("StringValue")>>, <<Slice("ListValue", <<PropertyValue("")>>)>>,
      <<Slice("MapValue", <<String("Key"), PropertyValue("Value")>>)>> >>))>>

(* protocol/education.go *)
EducationSharedResourceURI == <<String("ButtonName"), String("LinkURI")>>
EducationAgentCapabilities == <<OptionalFunc("CanModifyBlocks", Bool)>>
EducationExternalLinkSettings == <<String("URL"), String("DisplayName")>>

(* protocol/enchant.go *)
EnchantmentInstance == <<Uint8("Type"), Uint8("Level")>>
ItemEnchantments ==
  <<Int32("Slot"), Slice("Enchantments[0]", EnchantmentInstance),
    Slice("Enchantments[1]", EnchantmentInstance), Slice("Enchantments[2]", EnchantmentInstance)>>
EnchantmentOption ==
  <<Uint8("Cost"), Single("Enchantments", ItemEnchantments), String("Name"),
    Varuint32("RecipeNetworkID")>>

(* protocol/entity_link.go *)
EntityLink ==
  <<ActorUniqueID("RiddenEntityUniqueID"), ActorUniqueID("RiderEntityUniqueID"), Uint8("Type"),
    Bool("Immediate"), Bool("RiderInitiated"), Float32("VehicleAngularVelocity")>>
PassengerOfBlockData ==
  <<BlockPos("BlockPosition"), Vec3("Offset"), Float32("Rotation"), Float32("RotationLimit"),
    Uint8("EmoteType")>>

(* protocol/entity_properties.go *)
IntegerEntityProperty == <<Varuint32("Index"), Varint32("Value")>>
FloatEntityProperty == <<Varuint32("Index"), Float32("Value")>>
EntityProperties ==
  <<Slice("IntegerProperties", IntegerEntityProperty),
    Slice("FloatProperties", FloatEntityProperty)>>

(* protocol/events.go *)
lookupEvent ==
  Table(<<"AchievementAwarded", "EntityInteract", "PortalBuilt", "PortalUsed", "MobKilled",
          "CauldronUsed", "PlayerDied", "BossKilled", "AgentCommand", "AgentCreated",
          "PatternRemoved", "SlashCommandExecuted", "FishBucketed", "MobBorn", "PetDied",
          "CauldronInteract", "ComposterInteract", "BellUsed", "EntityDefinitionTrigger",
          "RaidUpdate", "MovementAnomaly", "MovementCorrected", "ExtractHoney",
          "TargetBlockHit", "PiglinBarter", "WaxedOrUnwaxedCopper", "CodeBuilderRuntimeAction",
          "CodeBuilderScoreboard", "StriderRiddenInLavaInOverworld", "SneakCloseToSculkSensor",
          "CarefulRestoration", "ItemUsed">>)
(* The events by name, with their types and ordinals. *)
lookupEventType ==
  [AchievementAwarded |-> 0, EntityInteract |-> 1, PortalBuilt |-> 2, PortalUsed |-> 3,
   MobKilled |-> 4, CauldronUsed |-> 5, PlayerDied |-> 6, BossKilled |-> 7, AgentCommand |-> 8,
   AgentCreated |-> 9, PatternRemoved |-> 10, SlashCommandExecuted |-> 11, FishBucketed |-> 12,
   MobBorn |-> 13, PetDied |-> 14, CauldronInteract |-> 15, ComposterInteract |-> 16,
   BellUsed |-> 17, EntityDefinitionTrigger |-> 18, RaidUpdate |-> 19, MovementAnomaly |-> 20,
   MovementCorrected |-> 21, ExtractHoney |-> 22, TargetBlockHit |-> 23, PiglinBarter |-> 24,
   WaxedOrUnwaxedCopper |-> 25, CodeBuilderRuntimeAction |-> 26, CodeBuilderScoreboard |-> 27,
   StriderRiddenInLavaInOverworld |-> 28, SneakCloseToSculkSensor |-> 29,
   CarefulRestoration |-> 30, ItemUsed |-> 31]
lookupEventOrdinal ==
  [AchievementAwarded |-> 0, EntityInteract |-> 1, PortalBuilt |-> 2, PortalUsed |-> 3,
   MobKilled |-> 4, CauldronUsed |-> 5, PlayerDied |-> 6, BossKilled |-> 7,
   SlashCommandExecuted |-> 8, MobBorn |-> 9, CauldronInteract |-> 10, ComposterInteract |-> 11,
   BellUsed |-> 12, EntityDefinitionTrigger |-> 13, RaidUpdate |-> 14, TargetBlockHit |-> 15,
   PiglinBarter |-> 16, WaxedOrUnwaxedCopper |-> 17, CodeBuilderRuntimeAction |-> 18,
   CodeBuilderScoreboard |-> 19, ItemUsed |-> 20, StriderRiddenInLavaInOverworld |-> 21,
   SneakCloseToSculkSensor |-> 21, CarefulRestoration |-> 21]
AchievementAwardedEvent == <<Uint8("AchievementID")>>
EntityInteractEvent ==
  <<ActorUniqueID("InteractedEntityID"), Uint8("InteractionType"),
    Varint32("InteractionEntityType"), Varint32("EntityVariant"), Uint8("EntityColour")>>
PortalBuiltEvent == <<Varint32("DimensionID")>>
PortalUsedEvent == <<Varint32("FromDimensionID"), Varint32("ToDimensionID")>>
MobKilledEvent ==
  <<ActorUniqueID("KillerEntityUniqueID"), ActorUniqueID("VictimEntityUniqueID"),
    Varint32("KillerEntityType"), Varint32("EntityDamageCause"), Varint32("VillagerTradeTier"),
    String("VillagerDisplayName")>>
CauldronUsedEvent == <<Varuint32("Colour"), Int16("PotionID"), Int16("FillLevel")>>
PlayerDiedEvent ==
  <<Varint32("AttackerEntityID"), Varint32("AttackerVariant"), Varint32("EntityDamageCause"),
    Bool("InRaid")>>
BossKilledEvent ==
  <<ActorUniqueID("BossEntityUniqueID"), Varint32("PlayerPartySize"),
    Varint32("InteractionEntityType")>>
AgentCommandEvent ==
  <<Varint32("AgentResult"), Varint32("DataValue"), String("Command"), String("DataKey"),
    String("Output")>>
SlashCommandExecutedEvent ==
  <<Varint32("SuccessCount"), Varint32("MessageCount"), String("CommandName"),
    String("OutputMessages")>>
MobBornEvent == <<Varint32("EntityType"), Varint32("Variant"), Uint8("Colour")>>
CauldronInteractEvent == <<Uint8("BlockInteractionType"), Int16("ItemID")>>
ComposterInteractEvent == <<Uint8("BlockInteractionType"), Int16("ItemID")>>
BellUsedEvent == <<Int16("ItemID")>>
EntityDefinitionTriggerEvent == <<String("EventName")>>
RaidUpdateEvent == <<Varint32("CurrentRaidWave"), Varint32("TotalRaidWaves"), Bool("WonRaid")>>
TargetBlockHitEvent == <<Varint32("RedstoneLevel")>>
PiglinBarterEvent == <<Varint32("ItemID"), Bool("WasTargetingBarteringPlayer")>>
WaxedOrUnwaxedCopperEvent == <<Varint32("CopperBlockID")>>
CodeBuilderRuntimeActionEvent == <<String("Action")>>
CodeBuilderScoreboardEvent == <<String("ObjectiveName"), Varint32("Score")>>
ItemUsedEvent == <<Int16("ItemID"), Int32("ItemAux"), Int32("UseMethod"), Int32("UseCount")>>
Events ==
  [AchievementAwarded |-> AchievementAwardedEvent, EntityInteract |-> EntityInteractEvent,
   PortalBuilt |-> PortalBuiltEvent, PortalUsed |-> PortalUsedEvent,
   MobKilled |-> MobKilledEvent, CauldronUsed |-> CauldronUsedEvent,
   PlayerDied |-> PlayerDiedEvent, BossKilled |-> BossKilledEvent,
   AgentCommand |-> AgentCommandEvent, AgentCreated |-> <<>>, PatternRemoved |-> <<>>,
   SlashCommandExecuted |-> SlashCommandExecutedEvent, FishBucketed |-> <<>>,
   MobBorn |-> MobBornEvent, PetDied |-> <<>>, CauldronInteract |-> CauldronInteractEvent,
   ComposterInteract |-> ComposterInteractEvent, BellUsed |-> BellUsedEvent,
   EntityDefinitionTrigger |-> EntityDefinitionTriggerEvent, RaidUpdate |-> RaidUpdateEvent,
   MovementAnomaly |-> <<>>, MovementCorrected |-> <<>>, ExtractHoney |-> <<>>,
   TargetBlockHit |-> TargetBlockHitEvent, PiglinBarter |-> PiglinBarterEvent,
   WaxedOrUnwaxedCopper |-> WaxedOrUnwaxedCopperEvent,
   CodeBuilderRuntimeAction |-> CodeBuilderRuntimeActionEvent,
   CodeBuilderScoreboard |-> CodeBuilderScoreboardEvent,
   StriderRiddenInLavaInOverworld |-> <<>>, SneakCloseToSculkSensor |-> <<>>,
   CarefulRestoration |-> <<>>, ItemUsed |-> ItemUsedEvent]

(* protocol/experiments.go *)
ExperimentData == <<String("Name"), Bool("Enabled")>>

(* protocol/furnace.go *)
FurnaceOptions == <<Varint32("LeftFurnaceTab"), Bool("Filtering"), Varint32("Layout")>>

(* protocol/graphics.go *)
ParameterKeyframeValue == <<Float32("Time"), Vec3("Value")>>

(* protocol/input_flags.go *)
(* The IDs of flags: at most size, each below size, no two the same. *)
InputFlagList(f, size) ==
  <<Choice("Varuint32", LengthOf(f), 0 .. size + 1), Require(LengthOf(f), 0 .. size),
    SliceOfLen(f, <<Choice("Varint32", "", 0 .. size)>>), UniqueIn(f, 0 .. size - 1)>>

(* protocol/writer.go *)
(* The network ID is cut to 16 bits, those an ItemEntry gives an item; Wide *)
(* is one that does not fit and arrives as Stone.                          *)
WriterItemInstance ==
  <<Choice("Int16", "NetworkID", {Air, Stone, Shield, Wide}), Uint16("Count"), Varuint32("MetadataValue"),
    Given("StackNetworkID", {0, 1}),
    When("StackNetworkID", {1}, <<Choice("Varint32", "StackNetworkID", {})>>),
    IntegerFunc("Varuint32", "BlockRuntimeID")>> \o WriterUserData("NetworkID", Air, BlockingTick)

(* protocol/reader.go *)
ReaderItemInstance ==
  <<Choice("Int16", "NetworkID", {}), Uint16("Count"), Varuint32("MetadataValue"),
    Choice("Bool", "hasNetID", {}),
    If("hasNetID", {1}, <<Choice("Varint32", "StackNetworkID", {})>>, <<Set("StackNetworkID", 0)>>),
    IntegerFunc("Varuint32", "BlockRuntimeID")>> \o ReaderUserData(BlockingTick)

(* protocol/item.go *)
ItemInstance(f) == Single(f, <<Direction(WriterItemInstance, ReaderItemInstance)>>)

=============================================================================
