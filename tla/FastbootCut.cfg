\* No bound but the constants: any number of runs.
CONSTANTS
    Targets <- TwoTargets
    Kits <- SomeKits
    Misfits <- SomeMisfits
SPECIFICATION Spec
INVARIANT RerunFlashesArchive
