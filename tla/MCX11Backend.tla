---------------------------- MODULE MCX11Backend ----------------------------
EXTENDS X11Backend

\* Neither mode fits in the other: a root window for both is larger than each.
MCSizes == {<<1, 2>>, <<2, 1>>}
MCPreferred == <<2, 1>>
=============================================================================
