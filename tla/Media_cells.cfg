SPECIFICATION MediaSpec
CONSTANTS
    Views = {v1}
    Items <- MCItems
    Kind <- MCKind
    NoItem = NoItem
    Placeholder = Placeholder
    Files <- MCFiles
    Name <- MCName
    ErrorPage = ErrorPage
    MaxTasks = 3
    MaxDownloads = 3
INVARIANTS
    MediaTypeOK
    ShowsItsOwn
    FileIsTheOneChosen
