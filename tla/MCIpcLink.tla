----------------------------- MODULE MCIpcLink -----------------------------
(* Small instances of IpcLink for TLC; the .cfg files choose the values. *)
EXTENDS IpcLink

CONSTANTS w1, w2

OneWorker == {w1}
=============================================================================
