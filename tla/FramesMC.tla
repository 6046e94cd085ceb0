------------------------------ MODULE FramesMC ------------------------------
EXTENDS Frames

\* sleep(5), which is syscall_2(0, 5, 's'), and a call that there is not, with all its arguments.
MCCalls == {<<0, 5, 115>>, <<1, 2, 3, 4, 5, 6>>}

ASSUME GatesChecked == GatesLead
=============================================================================
