-------------------------------- MODULE MCLeds --------------------------------
\* The default color (a dark channel between two lit ones), one that lights
\* exactly the other channel, and black; one good delay and one negative.
EXTENDS Leds

RGB(r, g, b) == [c \in Channel |->
                   IF c = "red" THEN r ELSE IF c = "green" THEN g ELSE b]
MCDefault == RGB(255, 0, 128)
MCColor == {RGB(255, 0, 128), RGB(0, 7, 0), RGB(0, 0, 0)}
MCOnMs == {20, -1}
MCOffMs == {30, -1}
MCBackends == {"sysfs", "binder", "hybris", "dummy"}
===============================================================================
