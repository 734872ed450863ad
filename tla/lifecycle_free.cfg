SPECIFICATION Spec
CONSTANTS
    eth = eth
    wlan = wlan
    Ifaces <- MCIfaces
    Boot <- MCBoot
    QueueSize = 1
    MaxChanges = 1
INVARIANTS NoUseAfterFree
