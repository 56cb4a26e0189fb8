----------------------------- MODULE MCSerialLink -----------------------------
EXTENDS SerialLink

\* The mode toggle, and a brightness level whose data byte is FRAME_ACK's value.
MCEvents == {<<DEV_MODE_TOGGLE>>, <<DEV_OSD_BRIGHT, 6>>}
=============================================================================
