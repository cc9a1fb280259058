SPECIFICATION Spec
CONSTANTS
    g1 = g1
    g2 = g2
    NoGateway = NoGateway
    NoConfig = NoConfig
    ReplyRoom = 2
    Gateways <- MCGateways
    Configs <- MCAccessPoint
PROPERTY
    StopEndsApRun
