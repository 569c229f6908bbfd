SPECIFICATION Spec
CONSTANTS
    Devices = {d1, d2}
    USB_MAX_ADDRESS_COUNT = 4
    MaxPackets = 2
    PatientHub = TRUE
    None = None
SYMMETRY Symmetry
INVARIANTS
    TypeOK
    OneDevicePerAddress
    TransfersReachTheirDevice
    TogglesAgree
CHECK_DEADLOCK FALSE
