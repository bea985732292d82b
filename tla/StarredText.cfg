\* A text with stars under `starts with'.
CONSTANTS
    Number <- Sizes
    Typed <- StarTexts
    HeaderName = {"", "list-id", "subject", "content-type"}
    Fields = {"from", "subject", "header", "size", "attachment"}
    Types = {"fileinto", "copy", "trash", "redirect", "tag", "mark_read", "flag", "discard"}
    Folders <- MCFolders
    FolderName = {"INBOX", "Trash"}
    Address = {"", "x"}
    Keywords <- MCKeywords
    Message <- Mails
    MaxRows = 2
    MaxEdits = 4
    Letter <- Letters
    SystemFolder = {"Trash"}
    Prefix = {"re:"}
    Own <- MCOwn
    StripPrefixes = TRUE
    HideSystem = TRUE
    ExcludeOwn = TRUE
    SubjectMax = 3
    Making = 4
SPECIFICATION WizardSpec
INVARIANT ResavedIsSame
