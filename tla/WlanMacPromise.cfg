\* The promise of the header against power losses and a late udev.
SPECIFICATION Spec
CONSTANTS
    m1 = m1
    m2 = m2
    m3 = m3
    Macs <- MCMacs
    Absent = Absent
    Short = Short
    NoMac = NoMac
SYMMETRY MCSymmetry
INVARIANT BootSavesMac
