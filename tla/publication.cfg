CONSTANTS
    Pieces <- PiecesSeen
    Lower <- LowerCase
    Order <- KeysSeen
    Forms <- FormsSeen
    KeyPrefixes <- AppPrefix
    FeatureFlagMarker <- Marker
    FeatureManagement = "FeatureManagement"
    Absent = Absent
    MaxThrows = 1
SPECIFICATION Spec
INVARIANTS
    TypeOK
    IndicesFromZero
PROPERTIES
    LastSettingWins
