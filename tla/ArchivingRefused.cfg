CONSTANTS
    AdminRequests = {r1, r2}
    Kinds = {"enable", "disable", "archive", "unarchive", "reset", "remove", "configure"}
    NoRow = NoRow
    NoConfig = NoConfig
    Unset = Unset
SPECIFICATION AdminSpec
PROPERTY ArchivingWorks
