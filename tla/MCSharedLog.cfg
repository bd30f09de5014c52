\* Two lines of the tools and two of the shell, of one to three cells.  No
\* deadlock check: every line is written once.
CONSTANTS
    t1 = t1
    t2 = t2
    s1 = s1
    s2 = s2
    ToolLine = {t1, t2}
    ShellLine = {s1, s2}
    Length <- MCLength
    Hold = {t1}
SPECIFICATION Spec
CHECK_DEADLOCK FALSE
INVARIANTS
    FileEndsALine
    DamageHasACause
