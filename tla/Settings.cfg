\* Five keys around secrets and paths, three around values.
SPECIFICATION SettingsSpec
CONSTANTS
    InputSets = {"secrets", "values"}
    SecretKeys <- MCSecretKeys
    SecretVars <- MCSecretVars
    SecretFlags <- MCSecretFlags
    ValueKeys <- MCValueKeys
    ValueVars <- MCValueVars
    ValueFlags <- MCValueFlags
    Unset = Unset
    Refused = Refused
INVARIANTS
    ReadsItsOwnOnly
    ChoiceInForce
\* All loads have ended, or the file was not accepted.
CHECK_DEADLOCK FALSE
