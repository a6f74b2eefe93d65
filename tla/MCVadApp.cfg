SPECIFICATION Spec
CONSTANTS
    Reg32Values = {165}
    RecordingSize = 3
    FifoSize = 2
    Modes = {"no_connectivity", "connected", "any"}
    MaxRetries = 2
    MaxWaits = 2
    MaxPowerFails = 2
INVARIANTS RecordingWhole CodecConfigured NoReentry TaskCleansUp
PROPERTIES VoiceReported
