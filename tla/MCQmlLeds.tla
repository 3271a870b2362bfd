------------------------------ MODULE MCQmlLeds ------------------------------
\* Blue, which is not the service's default, and green; a delay that is the
\* default and one that is not.
EXTENDS QmlLeds

RGB(r, g, b) == [c \in {"red", "green", "blue"} |->
                   IF c = "red" THEN r ELSE IF c = "green" THEN g ELSE b]
MCDefault == RGB(255, 0, 128)
MCBlue == RGB(0, 0, 255)
MCColor == {MCBlue, RGB(0, 255, 0)}
MCOnMs == {20}
MCOffMs == {30, -1}
===============================================================================
