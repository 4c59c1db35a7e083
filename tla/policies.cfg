SPECIFICATION Spec
CONSTANTS
    Addr <- AllAddr
    VirtualNodes = 2
    Hash <- HashTable
    Deployments <- Topologies
    DecodeList <- Decoders
    Instances <- TwoModels
    Model = {"m1", "m2"}
    AnyModel = ""
    LegacyModel = "m1"
    Key <- KeyHashes
    NoAddr = NoAddr
    NoTopology = NoTopology
    Explored <- ExploredDeployments
    Joining <- JoiningPairs
    Untokenized <- Downgradable
    MaxInFlight <- InFlight
INVARIANTS PoolTypeOK ExpansionSound RingExact FindsAvailable EvenShare PairsKeepLevel
PROPERTIES RefinesAffinity
