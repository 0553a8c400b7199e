\* Two bursts without any delay: TLC loses, or relays, each of them.
SPECIFICATION Spec
CONSTANTS
    Slot = 2  Jitter = 0
    SeqMod = 4  TsMod = 13  Step = 3
    Idle = 5
    Bursts = 2
    NoCall = NoCall  NoPacket = NoPacket
INVARIANTS NumberedAndCounted
CHECK_DEADLOCK FALSE
