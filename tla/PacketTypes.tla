---------------------------- MODULE PacketTypes ----------------------------
(***************************************************************************)
(* The rest of the structures inside packets: inventories and stack        *)
(* requests, recipes, maps, players and skins, shapes, resource packs.     *)
(***************************************************************************)
EXTENDS WorldTypes

(* protocol/inventory.go *)
InventoryAction ==
  <<Varuint32("SourceType"), OptionalFunc("WindowID", Int8),
    OptionalFunc("SourceFlags", Varuint32), Varuint32("InventorySlot"), ItemInstance("OldItem"),
    ItemInstance("NewItem")>>

lookupTransactionData == Table(<<"Normal", "Mismatch", "UseItem", "UseItemOnEntity", "ReleaseItem">>)
lookupTransactionDataType ==
  [Normal |-> 0, Mismatch |-> 1, UseItem |-> 2, UseItemOnEntity |-> 3, ReleaseItem |-> 4]
UseItemTransactionData ==
  <<IntegerFunc("Varint32", "ActionType"), IntegerFuncTo("Uint8", "TriggerType"),
    BlockPos("BlockPosition"), IntegerFuncTo("Uint8", "BlockFace"), Varint32("HotBarSlot"),
    Uint8("Hand"), ItemInstance("HeldItem"), Vec3("Position"), Vec3("ClickedPosition"),
    Varuint32("BlockRuntimeID"), Uint8("ClientPrediction"), Uint8("ClientCooldownState")>>
UseItemOnEntityTransactionData ==
  <<ActorRuntimeID("TargetEntityRuntimeID"), Varint32("ActionType"), Varint32("HotBarSlot"),
    Uint8("Hand"), ItemInstance("HeldItem"), Vec3("Position"), Vec3("ClickedPosition")>>
ReleaseItemTransactionData ==
  <<Varint32("ActionType"), Varint32("HotBarSlot"), ItemInstance("HeldItem"),
    Vec3("HeadPosition"), Uint8("Hand")>>
LegacySetItemSlot == <<Uint8("ContainerID"), ByteSlice("Slots")>>

(* protocol/item_stack.go *)
(* The actions of a stack request by name, with their IDs and back; 7 and 8 are IDs without an action. *)
lookupStackRequestActionType ==
  [Take |-> 0, Place |-> 1, Swap |-> 2, Drop |-> 3, Destroy |-> 4, Consume |-> 5, Create |-> 6,
   LabTableCombine |-> 9, BeaconPayment |-> 10, MineBlock |-> 11, CraftRecipe |-> 12,
   AutoCraftRecipe |-> 13, CraftCreative |-> 14, CraftRecipeOptional |-> 15,
   CraftGrindstoneRecipe |-> 16, CraftLoomRecipe |-> 17, CraftReserved |-> 18,
   CraftNonImplemented |-> 19, CraftResultsDeprecated |-> 20]
stackRequestActionVariant(id) == IF id > 8 THEN id - 2 ELSE id
StackReqSlotInfo(f) ==
  Single(f, <<Single("Container", FullContainerName), Uint8("Slot"), Int32("StackNetworkID")>>)
transferStackRequestAction ==
  <<Uint8("Count"), StackReqSlotInfo("Source"), StackReqSlotInfo("Destination")>>
SwapStackRequestAction == <<StackReqSlotInfo("Source"), StackReqSlotInfo("Destination")>>
DropStackRequestAction == <<Uint8("Count"), StackReqSlotInfo("Source"), Bool("Randomly")>>
DestroyStackRequestAction == <<Uint8("Count"), StackReqSlotInfo("Source")>>
CreateStackRequestAction == <<Uint8("ResultsSlot")>>
BeaconPaymentStackRequestAction == <<Varint32("PrimaryEffect"), Varint32("SecondaryEffect")>>
MineBlockStackRequestAction ==
  <<Varint32("HotbarSlot"), Varint32("PredictedDurability"), Int32("StackNetworkID")>>
CraftRecipeStackRequestAction == <<Varuint32("RecipeNetworkID"), Uint8("NumberOfCrafts")>>

(* protocol/item_descriptor.go *)
itemDescriptorType == [Invalid |-> 0, Default |-> 1, MoLang |-> 2, ItemTag |-> 3]
itemDescriptorFromType == Table(<<"Invalid", "Default", "MoLang", "ItemTag">>)
DefaultItemDescriptor == <<String("Name"), Varint32("MetadataValue")>>
MoLangItemDescriptor == <<String("Expression"), Int16("Version")>>
ItemTagItemDescriptor == <<String("Tag")>>
ItemDescriptor ==
  Switch("Descriptor", [Invalid |-> <<>>, Default |-> DefaultItemDescriptor,
                        MoLang |-> MoLangItemDescriptor, ItemTag |-> ItemTagItemDescriptor])
StackRequestItemDescriptorCount(f) ==
  Single(f, <<Conv("Varuint32", "Descriptor", itemDescriptorType, itemDescriptorFromType),
              Derived("Uint8", "Descriptor", itemDescriptorType), ItemDescriptor,
              IntegerFuncTo("Uint16", "Count")>>)

(* protocol/item_stack.go *)
AutoCraftRecipeStackRequestAction ==
  <<Varuint32("RecipeNetworkID"), Uint8("NumberOfCrafts"),
    FuncSlice("Ingredients", StackRequestItemDescriptorCount)>>
CraftCreativeStackRequestAction == <<Varuint32("CreativeItemNetworkID"), Uint8("NumberOfCrafts")>>
CraftRecipeOptionalStackRequestAction ==
  <<Varuint32("RecipeNetworkID"), Int32("FilterStringIndex")>>
CraftGrindstoneRecipeStackRequestAction ==
  <<IntegerFunc("Int32", "RecipeNetworkID"), Uint8("NumberOfCrafts"), Varint32("Cost")>>
CraftLoomRecipeStackRequestAction == <<String("Pattern"), Uint8("TimesCrafted")>>
CraftReservedStackRequestAction == <<String("ReservedID"), Uint8("NumberOfCrafts")>>

(* protocol/item.go *)
NamedShield == If("Identifier", {Shield}, <<Int64("BlockingTick")>>, <<>>)

(* protocol/writer.go *)
WriterStackRequestItem ==
  LET variant == Table(<<0, 1, 1>>)
  IN <<Given("Identifier", {Air, Stone, Shield}), Derived("Varuint32", "Identifier", variant),
       Derived("Uint8", "Identifier", variant),
       If("Identifier", {Air}, <<>>, <<Choice("String", "Identifier", {}), IntegerFunc("Varint32", "MetadataValue")>>),
       IntegerFunc("Int16", "Count"), IntegerFunc("Varuint32", "BlockRuntimeID")>> \o WriterUserData("Identifier", Air, NamedShield)

(* protocol/reader.go *)
ReaderStackRequestItem ==
  <<Choice("Varuint32", "variant", {}), Choice("Uint8", "legacyVariant", {}), Require("variant", {0, 1}),
    If("variant", {1}, <<Choice("String", "Identifier", {}), IntegerFunc("Varint32", "MetadataValue")>>,
                       <<Set("Identifier", Air)>>),
    IntegerFunc("Int16", "Count"), IntegerFunc("Varuint32", "BlockRuntimeID")>> \o ReaderUserData(NamedShield)

(* protocol/item_stack.go *)
StackRequestItem(f) == Single(f, <<Direction(WriterStackRequestItem, ReaderStackRequestItem)>>)
CraftResultsDeprecatedStackRequestAction ==
  <<FuncSlice("ResultItems", StackRequestItem), Uint8("TimesCrafted")>>
StackRequestActions ==
  [Take |-> transferStackRequestAction, Place |-> transferStackRequestAction,
   Swap |-> SwapStackRequestAction, Drop |-> DropStackRequestAction,
   Destroy |-> DestroyStackRequestAction, Consume |-> DestroyStackRequestAction,
   Create |-> CreateStackRequestAction, LabTableCombine |-> <<>>,
   BeaconPayment |-> BeaconPaymentStackRequestAction, MineBlock |-> MineBlockStackRequestAction,
   CraftRecipe |-> CraftRecipeStackRequestAction,
   AutoCraftRecipe |-> AutoCraftRecipeStackRequestAction,
   CraftCreative |-> CraftCreativeStackRequestAction,
   CraftRecipeOptional |-> CraftRecipeOptionalStackRequestAction,
   CraftGrindstoneRecipe |-> CraftGrindstoneRecipeStackRequestAction,
   CraftLoomRecipe |-> CraftLoomRecipeStackRequestAction,
   CraftReserved |-> CraftReservedStackRequestAction, CraftNonImplemented |-> <<>>,
   CraftResultsDeprecated |-> CraftResultsDeprecatedStackRequestAction]

(* protocol/writer.go *)
WriterStackRequestAction ==
  <<Given("Action", DOMAIN lookupStackRequestActionType),
    Derived("Varuint32", "Action", [a \in DOMAIN lookupStackRequestActionType |->
                                     stackRequestActionVariant(lookupStackRequestActionType[a])]),
    Derived("Uint8", "Action", lookupStackRequestActionType), Switch("Action", StackRequestActions)>>

(* protocol/item_stack.go *)
lookupStackRequestAction ==
  Table(<<"Take", "Place", "Swap", "Drop", "Destroy", "Consume", "Create">>)
    @@ [id \in 9 .. 20 |->
        <<"LabTableCombine", "BeaconPayment", "MineBlock", "CraftRecipe", "AutoCraftRecipe",
          "CraftCreative", "CraftRecipeOptional", "CraftGrindstoneRecipe", "CraftLoomRecipe",
          "CraftReserved", "CraftNonImplemented", "CraftResultsDeprecated">>[id - 8]]

(* protocol/reader.go *)
ReaderStackRequestAction ==
  LET ID(variant) == IF variant >= 7 THEN variant + 2 ELSE variant
  IN <<Conv("Varuint32", "Action", <<>>, [v \in 0 .. stackRequestActionVariant(20) |->
                                           lookupStackRequestAction[ID(v)]]),
       Choice("Uint8", "legacyID", {}), Switch("Action", StackRequestActions)>>

(* protocol/io.go *)
StackRequestAction(f) == Single(f, <<Direction(WriterStackRequestAction, ReaderStackRequestAction)>>)

(* protocol/item.go *)
ItemEntry ==
  <<String("Name"), Int16("RuntimeID"), Bool("ComponentBased"), Varint32("Version"),
    NBT("Data")>>
MaterialReducerOutput == <<Varint32("NetworkID"), Varint32("Count")>>

(* protocol/writer.go *)
(* Writer and Reader of the input item <<NetworkID, MetadataValue>> of a material reducer. *)
MaterialReducerMix(item) == (item[1] % 65536) * 65536 + item[2]

(* protocol/reader.go *)
MaterialReducerItem(mix) == <<(mix % 65536) * 65536, mix % 32768>>

(* protocol/item.go *)
MaterialReducer(f) ==
  LET Mixes == {MaterialReducerMix(i) : i \in {<<0, 0>>, <<1, 0>>, <<0, 2>>, <<1, 2>>}}
      Items == {<<0, 0>>, <<1, 0>>, <<0, 2>>, <<1, 2>>} \cup {MaterialReducerItem(m) : m \in Mixes}
  IN Single(f, <<Conv("Varint32", "InputItem", [i \in Items |-> MaterialReducerMix(i)],
                      [m \in Mixes |-> MaterialReducerItem(m)]),
                 Slice("Outputs", MaterialReducerOutput)>>)

(* protocol/writer.go *)
WriterItemDescriptorCount ==
  LET AuxValue == <<Constant("Varint32", 32767)>>
  IN <<Given("Descriptor", DOMAIN itemDescriptorType),
       Derived("Varuint32", "Descriptor", [d \in DOMAIN itemDescriptorType |-> IF d = "Invalid" THEN 0 ELSE 1]),
       If("Descriptor", {"Invalid"}, AuxValue,
          <<DerivedName("Descriptor", [Default |-> "name", MoLang |-> "molang", ItemTag |-> "item_tag"]),
            ItemDescriptor, If("Descriptor", {"ItemTag"}, AuxValue, <<>>)>>),
       Varint32("Count")>>

(* protocol/reader.go *)
ReaderItemDescriptorCount ==
  LET AuxValue == <<Constant("Varint32", 32767)>>
  IN <<Choice("Varuint32", "variant", {}),
       If("variant", {0}, <<Set("Descriptor", "Invalid")>> \o AuxValue,
          <<Require("variant", {1}),
            ConvName("Descriptor", <<>>, [name |-> "Default", molang |-> "MoLang", item_tag |-> "ItemTag"]),
            ItemDescriptor, If("Descriptor", {"ItemTag"}, AuxValue, <<>>)>>),
       Varint32("Count")>>

(* protocol/item_descriptor.go *)
ItemDescriptorCount(f) == Single(f, <<Direction(WriterItemDescriptorCount, ReaderItemDescriptorCount)>>)

(* protocol/item_stack.go *)
ItemStackRequest ==
  <<Varint32("RequestID"), FuncSlice("Actions", StackRequestAction),
    FuncSlice("FilterStrings", String), Int32("FilterCause")>>
StackResponseSlotInfo ==
  <<Uint8("Slot"), Uint8("HotbarSlot"), Uint8("Count"), Given("StackNetworkID", 0 .. 1),
    When("StackNetworkID", {1}, <<Choice("Varint32", "StackNetworkID", {})>>), String("CustomName"),
    OptionalFunc("FilteredCustomName", String),
    Choice("Varint32", "DurabilityCorrection", {0, -32769, -32768, 32767, 32768}),
    Require("DurabilityCorrection", {-32768, 0, 32767})>>
StackResponseContainerInfo ==
  <<Single("Container", FullContainerName), Slice("SlotInfo", StackResponseSlotInfo)>>
ItemStackResponse ==
  <<Uint8("Status"), Varint32("RequestID"), Given(LengthOf("ContainerInfo"), 0 .. 2),
    When(LengthOf("ContainerInfo"), 1 .. 2, <<Slice("ContainerInfo", StackResponseContainerInfo)>>)>>

(* protocol/map.go *)
MapTrackedObject ==
  <<Choice("Int32", "Type", 0 .. 2), OptionalFunc("EntityUniqueID", ActorUniqueID),
    OptionalFunc("BlockPosition", BlockPos), Require("Type", {0, 1})>>
MapDecoration ==
  <<Uint8("Type"), Uint8("Rotation"), Uint8("X"), Uint8("Y"), String("Label"),
    BEARGB("Colour")>>
PixelRequest == <<RGBA("Colour"), Uint16("Index")>>

(* protocol/matchmaking.go *)
MatchmakingStateOptions ==
  <<OptionalFunc("TriggeringPlayerName", String), OptionalFunc("TriggeredByLocalPlayer", Bool)>>

(* protocol/memory_category.go *)
MemoryCategoryCounter == <<Uint8("Category"), Uint64("Bytes")>>
EntityDiagnosticTimingInfo ==
  <<String("DisplayName"), String("Entity"), Uint64("DurationNanos"), Uint8("PercentOfTotal"),
    OptionalFunc("Position", Vec3), OptionalFunc("Dimension", String)>>
SystemDiagnosticTimingInfo ==
  <<String("DisplayName"), Uint64("SystemIndex"), Uint64("DurationNanos"),
    Uint8("PercentOfTotal")>>
SystemCategory == <<String("CategoryName"), Uint64("SystemIndex")>>
WhiskerScopeDataSummary ==
  <<String("Label"), String("Indentation"), Uint64("TotalHighCostNS"), Uint64("TotalMidCostNS"),
    Uint64("TotalLowCostNS")>>

(* protocol/packet/event.go *)
EventData(f) == Switch(f, [e \in DOMAIN Events |-> <<Single(f, Events[e])>>])

(* protocol/packet/inventory_transaction.go *)
TransactionData(f) ==
  Switch(f, [Normal |-> <<>>, Mismatch |-> <<>>, UseItem |-> <<Single(f, UseItemTransactionData)>>,
             UseItemOnEntity |-> <<Single(f, UseItemOnEntityTransactionData)>>,
             ReleaseItem |-> <<Single(f, ReleaseItemTransactionData)>>])

(* protocol/player.go *)
PlayerListActionRemove == 1
(* Add, 0, travels as variant 1 and Remove, 1, as variant 0. *)
playerListAction(f) == Conv("Varuint32", f, Table(<<1, 0>>), Table(<<PlayerListActionRemove, 0>>))

(* protocol/skin.go *)
(* The dimensions of an image of a skin and the length of its pixels. *)
Image(size, data) ==
  <<Choice("Uint32", size \o "Width", {0, 1}), Choice("Uint32", size \o "Height", {1}),
    Choice("ByteSlice", data, {0, 4})>>
ValidImage(size, data) ==
  Relation(<<size \o "Width", size \o "Height", data>>,
           {t \in {0, 1} \X {1} \X {0, 4} : t[1] * t[2] * 4 = t[3]})
SkinAnimation ==
  Image("Image", "ImageData")
    \o <<Varuint32("AnimationType"), Float32("FrameCount"), Varuint32("ExpressionType"),
         ValidImage("Image", "ImageData")>>
PersonaPiece ==
  <<String("PieceID"), Uint32("PieceType"), UUID("PackID"), Bool("Default"),
    String("ProductID")>>
personaPieceTintWireType ==
  [persona_hand |-> "hands", persona_eyes |-> "eyes", unsupported |-> "unsupported"]
personaPieceTintLoginType ==
  [hands |-> "persona_hand", eyes |-> "persona_eyes", unsupported |-> "unsupported"]
PersonaPieceTintColour ==
  <<ConvName("PieceType", personaPieceTintWireType, personaPieceTintLoginType), BEARGB("Colours[0]"),
    BEARGB("Colours[1]"), BEARGB("Colours[2]"), BEARGB("Colours[3]")>>
Skin ==
  <<String("SkinID"), ByteSlice("SkinResourcePatch")>> \o Image("SkinImage", "SkinData")
    \o <<Slice("Animations", SkinAnimation)>> \o Image("CapeImage", "CapeData")
    \o <<ByteSlice("SkinGeometry"), ByteSlice("GeometryDataEngineVersion"),
         ByteSlice("AnimationData"), String("CapeID"), String("FullID"), Uint8("ArmSize"),
         BEARGB("SkinColour"), Slice("PersonaPieces", PersonaPiece),
         Slice("PieceTintColours", PersonaPieceTintColour), ValidImage("SkinImage", "SkinData"),
         ValidImage("CapeImage", "CapeData"), Bool("PremiumSkin"), Bool("PersonaSkin"),
         Bool("PersonaCapeOnClassicSkin"), Bool("PrimaryUser"), Bool("OverrideAppearance"),
         ConvName("Trusted", Table(<<"false", "true">>), [false |-> 0, true |-> 1]),
         String("ProfileHash")>>

(* protocol/player.go *)
PlayerListEntry ==
  <<playerListAction("ActionType"), Derived("Uint8", "ActionType", Table(<<0, 1>>)), UUID("UUID"),
    If("ActionType", {PlayerListActionRemove}, <<>>,
       <<ActorUniqueID("EntityUniqueID"), String("Username"), String("XUID"), String("PlayFabID"),
         String("PlatformChatID"), Int32("BuildPlatform"), Single("Skin", Skin), Bool("Teacher"),
         Bool("Host"), Bool("SubClient"), BEARGB("PlayerColour")>>)>>
PlayerMoveSettings(f) ==
  Single(f, <<Varint32("RewindHistorySize"), Bool("ServerAuthoritativeBlockBreaking")>>)
PlayerBlockAction == <<Varint32("Action"), BlockPos("BlockPos"), Varint32("Face")>>
PlayerArmourDamageEntry == <<Varint32("ArmourSlot"), Int16("Damage")>>
TeleportData == <<Int32("TeleportCause"), Int32("TeleportSourceEntityType")>>

(* protocol/reader.go *)
PlayerInventoryAction(f) ==
  Single(f, <<Varint32("LegacyRequestID"),
              OptionalMarshaler("LegacySetItemSlots", <<Slice("", LegacySetItemSlot)>>),
              Slice("Actions", InventoryAction)>> \o UseItemTransactionData)
GameRule(f) ==
  Single(f, <<String("Name"), Bool("CanBeModifiedByPlayer"),
              Conv("Varuint32", TypeOf("Value"), [nil |-> 0, bool |-> 1, uint32 |-> 2, float32 |-> 3],
                   Table(<<"nil", "bool", "uint32", "float32">>)),
              Switch(TypeOf("Value"), [nil |-> <<>>, bool |-> <<Bool("Value")>>, uint32 |-> <<Uint32("Value")>>,
                               float32 |-> <<Float32("Value")>>])>>)

(* protocol/writer.go *)
metadataType ==
  [byte |-> 0, int16 |-> 1, int32 |-> 2, float32 |-> 3, string |-> 4, compound |-> 5, blockPos |-> 6,
   int64 |-> 7, vec3 |-> 8]

(* protocol/reader.go *)
EntityMetadata(f) ==
  Entries(f, <<Conv("Varuint32", "type", metadataType,
                    Table(<<"byte", "int16", "int32", "float32", "string", "compound", "blockPos",
                            "int64", "vec3">>)),
               Echo("Uint8", "type", metadataType),
               Switch("type", [byte |-> <<Uint8("v")>>, int16 |-> <<Int16("v")>>,
                 int32 |-> <<Varint32("v")>>, float32 |-> <<Float32("v")>>, string |-> <<String("v")>>,
                 compound |-> <<NBT("v")>>, blockPos |-> <<BlockPos("v")>>, int64 |-> <<Varint64("v")>>,
                 vec3 |-> <<Vec3("v")>>])>>)
EventType(f) == Conv("Varint32", f, lookupEventType, lookupEvent)
EventOrdinal(f) == Derived("Varuint32", f, lookupEventOrdinal)
TransactionDataType(f) == Conv("Varuint32", f, lookupTransactionDataType, lookupTransactionData)
AbilityValue(f) ==
  Single(f, <<Conv("Uint8", "type", [bool |-> 1, float32 |-> 2], <<"bool", "float32">>),
              If("type", {"bool"}, <<Bool("v"), Constant("Float32", 0)>>,
                                   <<Constant("Bool", 0), Float32("v")>>)>>)
PackSetting(f) ==
  Single(f, <<String("Name"),
              Conv("Varuint32", TypeOf("Value"), [float |-> 0, bool |-> 1, string |-> 2, strings |-> 3],
                   Table(<<"float", "bool", "string", "strings">>)),
              Switch(TypeOf("Value"), [float |-> <<Float32("Value")>>, bool |-> <<Bool("Value")>>,
                string |-> <<String("Value")>>, strings |-> <<FuncSlice("Value", String)>>])>>)

(* protocol/shape.go *)
lookupShapeDataType ==
  [Last |-> 0, Arrow |-> 1, Text |-> 2, Box |-> 3, Line |-> 4, Sphere |-> 5, Cylinder |-> 6,
   Pyramid |-> 7, Ellipsoid |-> 8, Cone |-> 9]
lookupShapeData ==
  Table(<<"Last", "Arrow", "Text", "Box", "Line", "Sphere", "Cylinder", "Pyramid", "Ellipsoid",
          "Cone">>)
LineShape == <<Vec3("LineEndLocation")>>
TextShape ==
  <<String("Text"), Bool("UseRotation"), OptionalFunc("BackgroundColour", BEARGB),
    Float32("LineGapHeight"), Bool("DepthTest"), Bool("ShowBackface"),
    Bool("ShowBackfaceText")>>
BoxShape == <<Vec3("BoxBound")>>
SphereShape == <<Uint8("Segments")>>
ArrowShape ==
  <<OptionalFunc("ArrowEndLocation", Vec3), OptionalFunc("ArrowHeadLength", Float32),
    OptionalFunc("ArrowHeadRadius", Float32), OptionalFunc("Segments", Uint8)>>
CylinderShape == <<Vec2("RadiusX"), Vec2("RadiusZ"), Float32("Height"), Uint8("NumSegments")>>
PyramidShape == <<Float32("Width"), OptionalFunc("Depth", Float32), Float32("Height")>>
EllipsoidShape == <<Vec3("Radii"), Uint8("SegmentsPerAxis")>>
ConeShape == <<Vec2("Radii"), Float32("Height"), Uint8("NumSegments")>>

(* protocol/reader.go *)
ShapeData(f) ==
  Single(f, <<Conv("Varuint32", "type", lookupShapeDataType, lookupShapeData),
              Switch("type", [Last |-> <<>>, Arrow |-> ArrowShape, Text |-> TextShape,
                              Box |-> BoxShape, Line |-> LineShape, Sphere |-> SphereShape,
                              Cylinder |-> CylinderShape, Pyramid |-> PyramidShape,
                              Ellipsoid |-> EllipsoidShape, Cone |-> ConeShape])>>)

(* protocol/recipe.go *)
PotionContainerChangeRecipe ==
  <<Varint32("InputItemID"), Varint32("ReagentItemID"), Varint32("OutputItemID")>>
PotionRecipe ==
  <<Varint32("InputPotionID"), Varint32("InputPotionMetadata"), Varint32("ReagentItemID"),
    Varint32("ReagentItemMetadata"), Varint32("OutputPotionID"),
    Varint32("OutputPotionMetadata")>>
RecipeUnlockRequirement ==
  <<Choice("Varint32", "Context", 0 .. 3),
    When("Context", {0}, <<FuncSlice("Ingredients", ItemDescriptorCount)>>)>>
marshalShapeless(f) ==
  Single(f, <<String("RecipeID"), FuncSlice("Input", ItemDescriptorCount),
              FuncSlice("Output", Item), UUID("UUID"), String("Block"), Varint32("Priority"),
              OptionalMarshaler("UnlockRequirement", RecipeUnlockRequirement),
              Varuint32("RecipeNetworkID")>>)
ShapelessRecipe == <<marshalShapeless("")>>
UserDataShapelessRecipe == <<marshalShapeless("ShapelessRecipe")>>
ShapelessChemistryRecipe == <<marshalShapeless("ShapelessRecipe")>>
marshalShaped(f) ==
  Single(f, <<String("RecipeID"), Choice("Varint32", "Width", 1 .. 2), Choice("Varint32", "Height", {1}),
              FuncSlice("Input", ItemDescriptorCount),
              Relation(<<"Width", "Height", LengthOf("Input")>>, {<<w, 1, w>> : w \in 1 .. 2}),
              FuncSlice("Output", Item), UUID("UUID"), String("Block"), Varint32("Priority"),
              Bool("AssumeSymmetry"), OptionalMarshaler("UnlockRequirement", RecipeUnlockRequirement),
              Varuint32("RecipeNetworkID")>>)
ShapedRecipe == <<marshalShaped("")>>
ShapedChemistryRecipe == <<marshalShaped("ShapedRecipe")>>
MultiRecipe == <<UUID("UUID"), Varuint32("RecipeNetworkID")>>
SmithingTransformRecipe ==
  <<String("RecipeID"), ItemDescriptorCount("Template"), ItemDescriptorCount("Base"),
    ItemDescriptorCount("Addition"), Item("Result"), String("Block"),
    Varuint32("RecipeNetworkID")>>
SmithingTrimRecipe ==
  <<String("RecipeID"), ItemDescriptorCount("Template"), ItemDescriptorCount("Base"),
    ItemDescriptorCount("Addition"), String("Block"), Varuint32("RecipeNetworkID")>>

(* protocol/resource_pack.go *)
TexturePackInfo ==
  <<UUID("UUID"), String("Version"), Uint64("Size"), String("ContentKey"),
    String("SubPackName"), String("ContentIdentity"), Bool("HasScripts"), Bool("AddonPack"),
    Bool("RTXEnabled"), String("DownloadURL")>>
StackResourcePack == <<String("UUID"), String("Version"), String("SubPackName")>>
PackURL == <<String("UUIDVersion"), String("URL")>>

(* protocol/scoreboard.go *)
ScoreboardEntry ==
  LET Entry(last) == <<String("ObjectiveName"), Int32("Score"), last>>
  IN <<Choice("Varuint32", "IdentityType", 0 .. 3), Require("IdentityType", 0 .. 3),
       DerivedName("IdentityType", Table(<<"remove", "changeplayer", "changeentity", "changefakeplayer">>)),
       Varint64("EntryID"),
       Switch("IdentityType", Table(<<
         <<Given("ObjectiveName", {0, 1}),
           When("ObjectiveName", {1}, <<Choice("String", "ObjectiveName", {})>>)>>,
         Entry(ActorUniqueID("EntityUniqueID")), Entry(ActorUniqueID("EntityUniqueID")),
         Entry(String("DisplayName"))>>))>>
ScoreboardIdentityEntry == <<Varint64("EntryID"), OptionalFunc("EntityUniqueID", ActorUniqueID)>>

(* protocol/server_join_information.go *)
GatheringJoinInfo ==
  <<UUID("ExperienceID"), String("ExperienceName"), OptionalFunc("ExperienceWorldID", UUID),
    OptionalFunc("ExperienceWorldName", String), String("CreatorID"),
    OptionalFunc("TargetID", UUID), OptionalFunc("ScenarioID", String),
    OptionalFunc("ServerID", String)>>
StoreEntryPointInfo == <<String("StoreID"), String("StoreName")>>
PresenceInfo == <<OptionalFunc("RichPresenceID", String)>>
ServerJoinInformation ==
  <<OptionalMarshaler("GatheringJoinInfo", GatheringJoinInfo),
    OptionalMarshaler("StoreEntryPointInfo", StoreEntryPointInfo),
    OptionalMarshaler("PresenceInfo", PresenceInfo)>>

(* protocol/shape.go *)
PrimitiveShape ==
  <<Varuint64("NetworkID"), OptionalFunc("Type", Uint8), OptionalFunc("Location", Vec3),
    OptionalFunc("Scale", Float32), OptionalFunc("Rotation", Vec3),
    OptionalFunc("TotalTimeLeft", Float32), OptionalFunc("MaxRenderDistance", Float32),
    OptionalFunc("Colour", BEARGB), OptionalFunc("DimensionID", Varint32),
    OptionalFunc("AttachedToEntityID", ActorUniqueID), ShapeData("ExtraShapeData")>>

(* protocol/sound.go *)
SoundDataUpdate ==
  <<Choice("Uint8", "Type", 0 .. 7),
    Switch("Type", Table(<< <<>>, <<Float32("Volume")>>, <<Float32("Pitch")>>,
      <<Float32("Duration"), Float32("TargetVolume")>>, <<Float32("Seconds")>>, <<>>, <<>> >>))>>

(* protocol/structure.go *)
StructureSettings ==
  <<String("PaletteName"), Bool("IgnoreEntities"), Bool("IgnoreBlocks"),
    Bool("AllowNonTickingChunks"), BlockPos("Size"), BlockPos("Offset"),
    ActorUniqueID("LastEditingPlayerUniqueID"), Uint8("Rotation"), Uint8("Mirror"),
    Uint8("AnimationMode"), Float32("AnimationDuration"), Float32("Integrity"), Uint32("Seed"),
    Vec3("Pivot")>>

(* protocol/sub_chunk.go *)
SubChunkOffset == <<Int8("[0]"), Int8("[1]"), Int8("[2]")>>
HeightMap ==
  [k \in 1 .. 32 |-> IF k % 2 = 1 THEN Echo("Varuint32", "n", 0 :> 16)
                                  ELSE Field("16 Int8", ToString(k \div 2))]
SubChunkEntry ==
  <<Single("Offset", SubChunkOffset), Uint8("Result"), OptionalFunc("RawPayload", ByteSlice),
    Uint8("HeightMapType"), OptionalMarshaler("HeightMapData", HeightMap),
    Uint8("RenderHeightMapType"), OptionalMarshaler("RenderHeightMapData", HeightMap),
    OptionalFunc("BlobHash", Uint64)>>

(* protocol/trim.go *)
TrimPattern == <<String("ItemName"), String("PatternID")>>
TrimMaterial == <<String("MaterialID"), String("Colour"), String("ItemName")>>

(* protocol/voxel.go *)
VoxelCells == <<Uint8("XSize"), Uint8("YSize"), Uint8("ZSize"), FuncSlice("Storage", Uint8)>>
VoxelShapeNameEntry == <<String("Name"), Uint16("ID")>>
VoxelShape ==
  <<Single("Cells", VoxelCells), FuncSlice("XCoordinates", Float32),
    FuncSlice("YCoordinates", Float32), FuncSlice("ZCoordinates", Float32)>>

(* protocol/waypoint.go *)
WaypointWorldPosition == <<Vec3("Position"), Varint32("DimensionID")>>
Waypoint ==
  <<Uint32("UpdateFlag"), OptionalFunc("Visible", Bool),
    OptionalMarshaler("WorldPosition", WaypointWorldPosition),
    OptionalFunc("TexturePath", String), OptionalFunc("IconSize", Vec2),
    OptionalFunc("Colour", Int32), OptionalFunc("ClientPositionAuthority", Bool),
    OptionalFunc("ActorUniqueID", ActorUniqueID)>>
LocatorBarWaypoint == <<UUID("GroupHandle"), Single("Waypoint", Waypoint), Uint8("Action")>>

(* protocol/world.go *)
DimensionDefinition ==
  <<String("Name"), Varint32("MinimumY"), Varint32("HeightRange"), Varint32("Generator"),
    Varint32("DimensionType"), UUID("PackID"), String("DefaultBiome"), Varint32("CloudHeight"),
    Bool("RenderClouds")>>
GenerationFeature == <<String("Name"), ByteSlice("JSON")>>

=============================================================================
