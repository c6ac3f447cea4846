CONSTANTS
    ollama = ollama
    envId = envId
    NoUrl = NoUrl
    NotGiven = NotGiven
    NoFile = NoFile
    NoId = NoId
    HostName <- MCHostName
    NewNames <- MCNewNames
    Urls <- MCUrls
    FirstFiles <- MCFiles
    HostExecutor = "echo"
    EnvUrl = NoUrl
    EnvId <- MCEnvId
    HasIdFile <- MCIdFiles
    MaxInits = 1
    MaxFaults = 1
SPECIFICATION Spec
INVARIANTS TypeOK BehindIsWarned CatalogFollows OneRowPerHost SettledIsComplete
CHECK_DEADLOCK FALSE
