\* Two parameter names; every payload with up to two of them in each list.
CONSTANTS
    Names = {"Device.DeviceInfo.HardwareVersion", "Device.WiFi.Radio.1.Status"}
SPECIFICATION Spec
INVARIANTS DocumentIsWellFormed
