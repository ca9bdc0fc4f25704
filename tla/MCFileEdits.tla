----------------------------- MODULE MCFileEdits -----------------------------
EXTENDS FileEdits, TLC

\* The first two edits are independent; the third is of text the second wrote.
MCNeeds == [c \in Calls |-> IF c = 3 THEN {2} ELSE {}]

MCNewEol == [c \in Calls |-> IF c = 1 THEN "crlf" ELSE "lf"]

\* One spelling for each file.
MCFileAt == [p \in Paths |-> p]
=============================================================================
