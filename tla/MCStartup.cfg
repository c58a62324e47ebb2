SPECIFICATION FairSpec
CONSTANTS
    home = home
    away = away
    Hosts = {home, away}
    NoHost = NoHost
    NoPort = NoPort
    Root <- MCRoot
    ZoneName <- MCZoneName
    ZonePage = 3
    Envs <- MCEnvs
    Targets <- MCTargets
INVARIANTS ServesRootZone CredentialsStay
PROPERTIES PongTruthful StartEnds Recovers
