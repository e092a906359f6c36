SPECIFICATION WsClientSpec
CONSTANTS
    HeartbeatTimeout = 3
    MaxDrops = 3
PROPERTY DisconnectIsFinal
