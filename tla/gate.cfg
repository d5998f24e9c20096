\* Two keys, two requests through the gate and one around it that try up to two
\* candidates each, every adapter, texts with up to two kinds of wording and
\* streams of up to three lines.
SPECIFICATION AnswerFairSpec
CONSTANTS
    Key = {k1, k2}
    Task = {t1, t2, d1}
    Direct = {d1}
    FailThreshold = 1
    CooldownSeconds = 2
    MaxAttempts = 2
    Adapter = {"openai", "cloudflare", "ollama"}
    HealthCheckModel = TRUE
    MaxWordings = 2
    MaxChunks = 3
INVARIANTS
    GateInv
    PenaltyFitsEvidence
PROPERTIES
    CooldownIsEarned
    SuccessOpensProvider
    OnlyOutagesCount
    ProviderReopens
