\* The instance of MCNodeMgr.cfg, asked what becomes of a reloaded component.
SPECIFICATION Spec
CONSTANTS
    Manifest <- TwoComponents
    ServiceList <- ThreeServices
    ProviderOf <- Providers
    Elsewhere = "elsewhere"
    RegSize = 3
    MaxInst = 3
    MaxPosts = 2
CHECK_DEADLOCK FALSE
PROPERTY
    ReloadedIsStarted
