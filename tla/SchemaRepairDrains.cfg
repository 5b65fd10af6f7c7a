CONSTANTS
    script1 = script1
    script2 = script2
    skill1 = skill1
    new1 = new1
    new2 = new2
    old1 = old1
    Collections <- TwoScripts
    Pods = {new1, new2}
    Version <- MCVersion
    MinVersion = 3
    Latest = 4
    BatchSize = 1
    MaxSkipped = 1
    Broken = {script1}
    ReadOnly = {new2}
    InitDates = {0}
    StartClock = 0
    MaxEdits = 0
    MaxFailures = 1
    None = None
SPECIFICATION FairSpec
PROPERTIES SkillsAfterChildren BacklogDrains
