CONSTANTS
    r1 = r1
    r2 = r2
    p1 = p1
    p2 = p2
    Runners = {r1, r2}
    Patches = {p1}
    Configs = {"a", "b"}
    NoJob = NoJob
    Faults = {}
    MaxMinute = 2
SPECIFICATION Spec
PROPERTY
    EditsSurviveRuns
CHECK_DEADLOCK FALSE
