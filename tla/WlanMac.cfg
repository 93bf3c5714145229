\* Boots, restarts of the unit and power losses in any order, without bound.
SPECIFICATION FairSpec
CONSTANTS
    m1 = m1
    m2 = m2
    m3 = m3
    Macs <- MCMacs
    Absent = Absent
    Short = Short
    NoMac = NoMac
INVARIANTS
    TypeOK
    FavoritesUsable
    UdevApplies
    SmoothBootApplies
    LinkAgrees
PROPERTIES
    SavedIsFinal
    FavoritesKept
    BootGoesOn
    AddressRecovers
