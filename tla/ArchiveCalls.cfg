SPECIFICATION FairSpec
CONSTANTS
    a = a
    b = b
    Kinds = {"invenio", "figshare", "dataverse"}
    Keys = {"k"}
    Contents <- McContents
    MaxVersions = 2
    MaxFaults = 2
    MaxEdits = 1
    MaxDeaths = 1
INVARIANTS
    UploadDelivers
    ReportsTrue
    NoStrangers
PROPERTIES
    UploadsEnd
