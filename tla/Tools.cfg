SPECIFICATION ToolsSpec
CONSTANTS
 Cells = {c1, c2}
 Outputs = {1, 2}
 EditBound = 3
 KillBound = 1
 Reg = 12
 Widths = {8, 12}
 Mant <- MCMant
 Seeds = {0, 77, 1234, 5003, 9871, 16000}
 Literals = {0, 2, 6, 10, 15, 29, 62, 400}
 WideInt = 12
 NarrowInt = 8
 Lane = 4
 Others = 2
 Measured <- MCMeasured
 Variances = {0, 2}
 BaseText = 100
 Budget = 2
 Alpha = 6
 MinSeeds = 3
 NotRun = NotRun
 NoSeed = NoSeed
 Unknown = Unknown
 f1 = f1
 f2 = f2
 f3 = f3
 Programs <- MCPrograms
 Names <- MCNames
 Probes <- MCProbes
 Exported <- MCExported
 Hashes <- MCHashes
 NoProbe = NoProbe
 Items <- MCItems
 SpanLength = 4
 Span = 8
 Unit = 2
 Archs = {"x86_64", "aarch64"}
 Sizes = {1, 2}
INVARIANTS
 OracleIsTheLanguage FlawsSeen JudgedAsMeant HolmIsClosed IneligibleDoNotMatter
 ConformingPasses FlawFails ProbeNeutral GraphFollowsExecution DominatorsExact LoopsNest
CHECK_DEADLOCK FALSE
