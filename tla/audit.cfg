SPECIFICATION Spec
CONSTANTS
    a = a
    b = b
    c = c
    d = d
    None = None
    Texts <- MCTexts
    WordsOf <- MCWordsOf
    Labels <- MCLabels
    LabelClassOf <- MCLabelClassOf
    CatalogState <- MCCatalogState
    PreferredLabel <- MCPreferredLabel
    Thread <- MCThread
    InitialMessages <- MCInitialMessages
    AttachmentSets <- MCAttachmentSets
    LearntContexts <- MCLearntContexts
    Watched = {b}
    Relabelled = {"Contracts", "Sales"}
    AvailableLabels = {"@Todo", "Contracts"}
    LayerEnabled = TRUE
INVARIANTS
    TypeOK
    TrashIsHarmless
    EligibleRepairsAreCorroborated
PROPERTIES
    LabelsNeverUncoverTrash
    RepairsNeverCompete
    ProposalsSettle
CHECK_DEADLOCK FALSE
