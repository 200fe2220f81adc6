\* Two components on the worker, each with a service, a remote service between
\* them in the registry, one reload and two messages.
SPECIFICATION Spec
CONSTANTS
    Manifest <- TwoComponents
    ServiceList <- ThreeServices
    ProviderOf <- Providers
    Elsewhere = "elsewhere"
    RegSize = 3
    MaxInst = 3
    MaxPosts = 2
CHECK_DEADLOCK FALSE
INVARIANTS
    TypeOK
    RoutesMatchLoaded
    FreedOnce
PROPERTY
    ShutdownCompletes
