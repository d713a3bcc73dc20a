SPECIFICATION SceneSpec
CONSTANTS
    a = a
    b = b
    n = n
    Host = {a, b}
    Kind = {"publish", "subscribe"}
    Name = {n}
    Client = {c}
    Limited = {TRUE, FALSE}
    Lists = {{}, {n}}
    Slot = {1, 2}
    Uses <- PubSub
    MaxSent = 2
    MaxFaults = 3
INVARIANTS
    TypeOK
    ServedOnlyAllowed
    RemoteMirrorsChannels
    PeersPursued
    ServedNoAnnouncementLost
    FormerPeersDropped
PROPERTY
    PublishersNotified
