\* Every ordered pair of the documents, up to the first refusal, and each view
\* of a comparison.
CONSTANTS
    Documents <- MCDocuments
    ArtifactOf <- MCArtifactOf
    NoView = NoView
SPECIFICATION ViewsSpec
INVARIANTS
    WarningsExplainInconclusive
    EvidenceAccounted
    DirectionIndependent
    ViewsAgree
    NoticesExplain
    QuietMeansEqual
    DifferenceShown
\* The commands return.
CHECK_DEADLOCK FALSE
