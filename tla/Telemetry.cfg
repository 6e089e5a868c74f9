\* Three MQTT messages and an Inform of another device through a channel of two slots, and a POST /cpes.
SPECIFICATION FairSpec
CONSTANTS
    c1 = c1
    c2 = c2
    i1 = i1
    None = None
    MqttUpdates <- ThreeUpdates
    Informs <- OneInform
    Ignored <- FirstIgnored
    Cpes = {c1, c2}
    CpeOf <- InformElsewhere
    Capacity = 2
    Registrars = {r1}
    Bodies <- CrossedBodies
INVARIANTS
    TypeOK
    AcceptedIsAccountedFor
    ShutdownDrains
    ForeignKeyHolds
PROPERTIES
    LiveFollowsPublication
    RegistrationIsAuthoritative
    DeliverySpec
    ShutdownEnds
\* After a graceful shutdown the process has ended.
CHECK_DEADLOCK FALSE
