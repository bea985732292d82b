\* One condition or two, every field, texts without a star.
CONSTANTS
    Number <- Sizes
    Typed <- PlainTexts
    HeaderName = {"", "list-id", "subject", "content-type"}
    Fields = {"from", "subject", "header", "size", "attachment"}
    Types = {"fileinto", "copy", "trash", "redirect", "tag", "mark_read", "flag", "discard"}
    Folders <- MCFolders
    FolderName = {"INBOX", "Trash"}
    Address = {"", "x"}
    Keywords <- MCKeywords
    Message <- Mails
    MaxRows = 2
    MaxEdits = 5
    Letter <- Letters
    SystemFolder = {"Trash"}
    Prefix = {"re:"}
    Own <- MCOwn
    StripPrefixes = TRUE
    HideSystem = TRUE
    ExcludeOwn = TRUE
    SubjectMax = 3
    Making = 4
SPECIFICATION WizardSpec
INVARIANTS
    StoredReads
    ResavedIsSame
    TakesItsMessage
