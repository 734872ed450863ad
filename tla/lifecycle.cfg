SPECIFICATION Spec
CONSTANTS
    eth = eth
    wlan = wlan
    Ifaces <- MCIfaces
    Boot <- MCBoot
    QueueSize = 1
    MaxChanges = 3
INVARIANTS TypeOK LatchedLoaded HotplugCovered HooksGone
 
