---------------------------- MODULE MCNativeRun ----------------------------
EXTENDS NativeRun

\* One executor of each kind: pairs, void operations, and neither.
MCOrder == <<"robot", "painter", "io">>
=============================================================================
